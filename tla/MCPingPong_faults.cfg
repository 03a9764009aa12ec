\* Dying sides, lost acknowledgements and a retry timer that may beat the loop.
SPECIFICATION FairSpec
CONSTANTS
  q1 = q1
  q2 = q2
  QPs = {q1, q2}
  Iters = 2
  RxDepth = 3
  Faulty = {"client", "server"}
  AckLoss = TRUE
  PatientRetry = FALSE
PROPERTIES
  Finishes
  LeavesOrSpins
  CloseReleasesPeer
CHECK_DEADLOCK FALSE
