CONSTANTS
  w1 = w1
  w2 = w2
  o1 = o1
  l1 = l1
  l2 = l2
  NoEvent = NoEvent
  NoView = NoView
  Orders <- OneOrder
  Types <- OnlyUpdate
  MaxRev = 2
  Workers <- TwoWorkers
  BatchSize = 1
  MaxRetries = 2
  MaxCrashes = 0
  MaxRuns = 0
  Lines <- OneLine
  OrderOf <- SameOrder
  ModLines <- FirstLine
  VoidedLines <- NoLines
  VendorDocs <- PaidThenRefund
  MaxVersion <- BaseOnce
  Convertible <- AllConvert
SPECIFICATION Spec
INVARIANT RefundNetsToZero
CHECK_DEADLOCK FALSE
