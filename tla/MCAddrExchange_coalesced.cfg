\* Two queue pairs are enough for the word "done" to swallow an address.
SPECIFICATION FairSpec
CONSTANTS
  N = 2
  AddrLen = 4
  DoneLen = 2
  Faults = {"coalescing"}
PROPERTIES
  Completes
