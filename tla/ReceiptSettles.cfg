CONSTANTS
  w1 = w1
  w2 = w2
  c1 = c1
  c2 = c2
  NoWorker = NoWorker
  Workers <- OneWorker
  Callers <- OneCaller
  Durable <- NoEdits
  Payloads <- SomeAnswers
  MaxAttempts = 2
  DailyCap = 1
  MaxJobs = 2
  MaxTyped = 1
  MaxDay = 1
  MaxFaults = 1
SPECIFICATION FairSpec
PROPERTIES JobsSettle
CHECK_DEADLOCK FALSE
