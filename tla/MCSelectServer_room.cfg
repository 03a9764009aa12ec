\* Two processes of the client, and one slot more than both have sockets.
SPECIFICATION FairSpec
CONSTANTS
  Procs = {1, 2}
  Slots = 5
  Sockets = 2
  MinSize = 3
  Doublings = 0
  Messages = 2
  WarmUps = 1
  MaxPacket = 2
  Faults = {"kill", "stop"}
INVARIANTS
  TypeOK
  GoesOn
  ServedOnce
PROPERTIES
  ClientsGetThrough
