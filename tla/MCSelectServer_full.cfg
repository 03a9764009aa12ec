\* As many slots as sockets, as in the code.
SPECIFICATION FairSpec
CONSTANTS
  MinSize = 1
  Procs = {1}
  Faults = {}
  Slots = 3
  Sockets = 3
  Doublings = 3
  Messages = 2
  WarmUps = 2
  MaxPacket = 2
INVARIANTS
  NoneLost
