SPECIFICATION HubSpec
CONSTANTS
  Offers = {o1, o2}
  NoOffer = NoOffer
  Requests = {r1, r2, r3}
  RedisEnabled = TRUE
  MayRestart = FALSE
  AuditMayFail = FALSE
SYMMETRY Symmetry
INVARIANTS
  AcknowledgedIsAudited
  
PROPERTIES
  SweepExpiresLapsedOnly
