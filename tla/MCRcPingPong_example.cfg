\* Both processes from main to exit, every combination of polling and sleeping,
\* of receive depths, without faults and with all.  A server whose client never connects and a
\* loop whose peer is gone wait for ever, hence no deadlock check.
SPECIFICATION FairSpec
CONSTANTS
  Iters = 3
  RxDepths <- UnequalDepths
INVARIANTS
  TypeOK
  NeverEarly
  NoLostWakeup
  Balance
PROPERTIES
  ImplementsRally
  Finishes
  LeavesOrWaits
CHECK_DEADLOCK FALSE
