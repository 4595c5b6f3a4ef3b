CONSTANTS
  s1 = s1
  f1 = f1
  d1 = d1
  a1 = a1
  keyed = keyed
  dated = dated
  opening = opening
  c1 = c1
  c2 = c2
  Opening = Opening
  Nobody = Nobody
  Unknown = Unknown
  Modes = {"recipe_deducted", "count_anchored"}
  Happenings <- OneOfEach
  Kind <- KindOf
  Effect <- EffectOf
  Reversed <- ReversedBy
  Stocked = 1
  Requests <- AllRequests
  Task <- TaskOf
  Keyed <- OnlyKeyed
  Dated <- OnlyDated
  Callers <- TwoCallers
  LateAfter = 1
  MaxTime = 7
SPECIFICATION Spec
SYMMETRY Alike
INVARIANTS TypeOK AppliedOnce CountAnchors LateSalesFlagged ShelfMatches
CHECK_DEADLOCK FALSE
