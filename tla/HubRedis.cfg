SPECIFICATION HubSpec
CONSTANTS
  Offers = {o1}
  NoOffer = NoOffer
  Requests = {r1, r2, r3, r4}
  RedisEnabled = TRUE
  MayRestart = TRUE
  AuditMayFail = TRUE
SYMMETRY Symmetry
INVARIANTS
  HubTypeOK
  ActiveWasApproved
  AuditTruthful
  OneCreator
PROPERTIES
  ImplementsLifecycle
  ShortLivedExpiresOnce
