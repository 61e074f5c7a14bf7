CONSTANTS
  MaxPackets = 2
  Packets <- MCPackets
SPECIFICATION FairSpec
INVARIANTS TypeOK Framing InRange
PROPERTIES ImplementsChannel EveryPacketArrives
CHECK_DEADLOCK FALSE
