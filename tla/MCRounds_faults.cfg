\* Accepts that fail, a server slower than the back-off, a listening socket that
\* is closed late: each in some executions, none in others.
SPECIFICATION FairSpec
CONSTANTS
  Sizes = 3
  Peers = 3
  Attempts = 3
  Faults = {"slow", "late", "accept"}
INVARIANTS
  TypeOK
  SameRound
PROPERTIES
  RoundsEnd
