SPECIFICATION Spec
CONSTANTS
  Packets <- OnePacket
  Frames <- NoFrames
  MaxSent = 2
  max_packet_size = 25
  Role = "client"
  MaxTicks = 1
  Publishes <- MCPublishes
  Lengths <- MCLengths
  Fields <- MCFields
INVARIANTS
  FailsOnMalformedOnly
CHECK_DEADLOCK FALSE
