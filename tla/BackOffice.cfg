CONSTANTS
  ra = ra
  rb = rb
  ma = ma
  mb = mb
  pa = pa
  pb = pb
  NoOne = NoOne
  Restaurants <- TwoTenants
  Merchants <- TwoMerchants
  StateTokens = {st}
  Callbacks = {ca}
  Refreshers = {pb}
  MaxRows = 2
  MaxTokens = 3
  MaxFails = 2
  MaxLost = 1
  Orders = {o1, o2, o3}
  Runners = {pa}
  PageSize = 1
  MaxPages = 2
  Overlap = 1
  MaxClock = 3
  MaxChanges = 3
  MaxBroken = 1
  Unset = Unset
  Items <- FourItems
  Syncs = {sa, sb}
  ItemsPerPage = 1
  MaxItemPages = 3
  MaxEdits = 1
  People = {p1, p2}
  Emails = {e1, e2, e3}
  Slugs = {t1, t2}
  Invites = {i1}
  MaxRenames = 2
  Nobody = Nobody
SPECIFICATION Spec
INVARIANTS BackOfficeTypeOK TokenFits NothingMissed
PROPERTIES RevokedFinal ExpiringSettles Backfilled MenuKept MembersInvited
CHECK_DEADLOCK FALSE
