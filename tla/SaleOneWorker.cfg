CONSTANTS
  w1 = w1
  w2 = w2
  o1 = o1
  l1 = l1
  l2 = l2
  NoEvent = NoEvent
  NoView = NoView
  Orders <- OneOrder
  Types <- OnlyUpdate
  MaxRev = 2
  Workers <- OneWorker
  BatchSize = 1
  MaxRetries = 2
  MaxCrashes = 0
  MaxRuns = 1
  Lines <- OneLine
  OrderOf <- SameOrder
  ModLines <- FirstLine
  VoidedLines <- NoLines
  VendorDocs <- SaleThenRefund
  MaxVersion <- BaseTwiceModOnce
  Convertible <- NoModConvert
SPECIFICATION Spec
INVARIANTS HeldIsProcessing TypeOK WholeLine StatusMatchesLedger RefundNetsToZero ProcessedMeansApplied
PROPERTIES OnlyReconReopens HistoryKept TerminalFrozen
CHECK_DEADLOCK FALSE
