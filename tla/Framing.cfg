SPECIFICATION Spec
CONSTANTS
  Packets <- MCPackets
  Frames <- MCFrames
  MaxSent = 2
  max_packet_size = 25
  Role = "server"
  MaxTicks = 1
  Publishes <- MCPublishes
  Lengths <- MCLengths
  Fields <- MCFields
INVARIANTS
  TypeOK
  WholePackets
  FailsOnMalformedOnly
  HeldWithinCap
  PathsAgree
  EncodersAgree
  LengthsRoundTrip
CHECK_DEADLOCK FALSE
