CONSTANTS
  w1 = w1
  w2 = w2
  c1 = c1
  c2 = c2
  NoWorker = NoWorker
  Workers <- TwoWorkers
  Callers <- TwoCallers
  Durable <- NoDismiss
  Payloads <- AnyLines
  MaxAttempts = 2
  DailyCap = 1
  MaxJobs = 2
  MaxTyped = 0
  MaxDay = 0
  MaxFaults = 1
SPECIFICATION Spec
INVARIANTS TypeOK DiscardedStaysGone WaitingHasJob CommittedMoves
PROPERTIES ImplementsLife
SYMMETRY Alike
CHECK_DEADLOCK FALSE
