CONSTANTS
  w1 = w1
  w2 = w2
  NoEvent = NoEvent
  Orders = {o1}
  Types <- OnlyUpdate
  MaxRev = 2
  Workers <- OneWorker
  BatchSize = 2
  MaxRetries = 2
  MaxCrashes = 1
  MaxRuns = 1
SPECIFICATION QueueFairSpec
PROPERTY FailedIsRetried
CHECK_DEADLOCK FALSE
