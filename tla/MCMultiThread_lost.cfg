\* Another thread runs between the two closes of a connection.
SPECIFICATION FairSpec
CONSTANTS
  MaxSize = 2
  MaxThreads = 2
  Windows = {TRUE}
PROPERTIES
  AllRounds
