CONSTANTS
  w1 = w1
  w2 = w2
  o1 = o1
  l1 = l1
  l2 = l2
  NoEvent = NoEvent
  NoView = NoView
  Orders <- OneOrder
  Types <- OnlyUpdate
  MaxRev = 2
  Workers <- OneWorker
  BatchSize = 2
  MaxRetries = 2
  MaxCrashes = 1
  MaxRuns = 0
  Lines <- TwoLines
  OrderOf <- SameOrder
  ModLines <- NoLines
  VoidedLines <- SecondLine
  VendorDocs <- PaidThenRefund
  MaxVersion <- BaseOnce
  Convertible <- AllConvert
SPECIFICATION FairSpec
CHECK_DEADLOCK FALSE
PROPERTIES ImplementsLedger QueueSpec LinesSettle
