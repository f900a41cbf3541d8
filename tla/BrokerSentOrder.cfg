SPECIFICATION Spec
CONSTANTS
  Conns = {c1, c2}
  Clients = {k1, k2}
  Filters = {f1}
  Topics = {t1}
  filter_matches <- EveryFilterMatches
  Publishers = {c1}
  MaxPublishes = 2
  MaxSubscribes = 1
  ClientChoices <- PublisherFixed
  CleanChoices <- Clean
  WillChoices <- NoWill
  WriteErrors = FALSE
  SerialConnects = FALSE
INVARIANTS
  SentOrderKept
CHECK_DEADLOCK FALSE
