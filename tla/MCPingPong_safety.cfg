\* Every safety property: two queue pairs that share a completion queue, either
\* side may die of a failed poll.  A side may spin for ever on a dead peer, hence
\* no deadlock check.
SPECIFICATION Spec
CONSTANTS
  q1 = q1
  q2 = q2
  QPs = {q1, q2}
  Iters = 4
  RxDepth = 3
  Faulty = {"client", "server"}
  AckLoss = FALSE
  PatientRetry = TRUE
SYMMETRY QPSymmetry
INVARIANTS
  TypeOK
  QueuesHold
  OneBall
  BooksAgree
  NoStranding
  Conservation
  BadStatusMeansPeerFailed
PROPERTIES
  ImplementsRally
CHECK_DEADLOCK FALSE
