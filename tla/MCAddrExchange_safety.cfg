\* Six queue pairs, reads that may swallow the next address, a server whose queue
\* pair may not connect; each with and without the other.
SPECIFICATION FairSpec
CONSTANTS
  N = 6
  AddrLen = 4
  DoneLen = 2
  Faults = {"server", "coalescing"}
INVARIANTS
  TypeOK
  Agreement
  InTurn
PROPERTIES
  EndsRight
