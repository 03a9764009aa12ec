\* The largest message the buffers admit, in several packets.
SPECIFICATION FairSpec
CONSTANTS
  Message = 8
  Messages = 3
  MaxPacket = 3
  Up = 3
  Down = 4
INVARIANTS
  TypeOK
  NotBothBlocked
  NoByteLost
PROPERTIES
  Answered
