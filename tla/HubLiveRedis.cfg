SPECIFICATION HubFairSpec
CONSTANTS
  Offers = {o1}
  NoOffer = NoOffer
  Requests = {r1, r2, r3}
  RedisEnabled = TRUE
  MayRestart = TRUE
  AuditMayFail = FALSE
PROPERTIES
  LapsedLeavesActive
