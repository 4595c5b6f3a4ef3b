CONSTANTS
  s1 = s1
  f1 = f1
  d1 = d1
  a1 = a1
  keyed = keyed
  dated = dated
  opening = opening
  c1 = c1
  c2 = c2
  Opening = Opening
  Nobody = Nobody
  Unknown = Unknown
  Modes = {"count_anchored"}
  Happenings <- SaleAndDelivery
  Kind <- KindOf
  Effect <- EffectOf
  Reversed <- ReversedBy
  Stocked = 3
  Requests <- OnlyDated
  Task <- TaskOf
  Keyed = {}
  Dated <- OnlyDated
  Callers <- OneCaller
  LateAfter = 1
  MaxTime = 6
SPECIFICATION Spec
PROPERTY LateSaleDeducted
CHECK_DEADLOCK FALSE
