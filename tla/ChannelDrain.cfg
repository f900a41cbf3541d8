SPECIFICATION Spec
CONSTANTS
  MaxCmds = 3
  Role = "server"
  WriteErrors = FALSE
  KeepAlive = TRUE
INVARIANTS
  CloseDrainsFirst
CHECK_DEADLOCK FALSE
