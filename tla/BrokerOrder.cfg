SPECIFICATION FairSpec
CONSTANTS
  Conns = {c1, c2}
  Clients = {k1, k2}
  Filters = {f1}
  Topics = {t1}
  filter_matches <- EveryFilterMatches
  Publishers = {c1}
  MaxPublishes = 2
  MaxSubscribes = 1
  ClientChoices <- PublisherFixed
  CleanChoices <- Clean
  WillChoices <- SomeWill
  WriteErrors = TRUE
  SerialConnects = FALSE
INVARIANTS
  TypeOK
  WillAtMostOnce
  EntriesAreLive
  OwnedSubscriptions
  PublishesKeepOrder
  WillLastUnlessTakenOver
PROPERTIES
  StaleTeardownHarmless
  SupersededEnds
CHECK_DEADLOCK FALSE
