\* The smallest sizes of the code, on one, two and four threads: shares are
\* even but for two bytes on four threads.
SPECIFICATION FairSpec
CONSTANTS
  MinSize = 1
  MaxSize = 4
  MaxCore = 4
  Messages = 1
INVARIANTS
  TypeOK
  SharesHold
PROPERTIES
  RoundsMeasured
