SPECIFICATION Spec
CONSTANTS
  Conns = {c1, c2}
  Clients = {k1}
  Filters = {f1}
  Topics = {t1}
  filter_matches <- EveryFilterMatches
  Publishers = {}
  MaxPublishes = 0
  MaxSubscribes = 1
  ClientChoices <- AnyClients
  CleanChoices <- Clean
  WillChoices <- NoWill
  WriteErrors = FALSE
  SerialConnects = TRUE
SYMMETRY Symmetry
INVARIANTS
  GrantedIsRouted
CHECK_DEADLOCK FALSE
