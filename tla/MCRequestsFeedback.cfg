SPECIFICATION Spec
CONSTANTS
  w1 = w1
  w2 = w2
  Worker = {w1, w2}
  Settings <- TwoWorkers
  MaxRequests = 2
INVARIANTS
  FeedbackTrue
CHECK_DEADLOCK FALSE
