SPECIFICATION Spec
CONSTANTS
  Conns = {c1, c2, c3}
  Clients = {k1}
  Filters = {f1}
  Topics = {t1}
  filter_matches <- NoFilterMatches
  Publishers = {}
  MaxPublishes = 0
  MaxSubscribes = 1
  ClientChoices <- AnyClients
  CleanChoices <- AnyClean
  WillChoices <- SomeWill
  WriteErrors = FALSE
  SerialConnects = FALSE
SYMMETRY Symmetry
INVARIANTS
  WillAtMostOnce
  EntriesAreLive
  OwnedSubscriptions
PROPERTIES
  StaleTeardownHarmless
CHECK_DEADLOCK FALSE
