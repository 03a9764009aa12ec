\* Two threads, sizes 1, 2 and 4, with and without others in the window.
SPECIFICATION FairSpec
CONSTANTS
  MaxSize = 4
  MaxThreads = 2
  Windows = {TRUE, FALSE}
INVARIANTS
  TypeOK
  Pairs
  DescriptorsKept
PROPERTIES
  AllRoundsUndisturbed
