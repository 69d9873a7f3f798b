SPECIFICATION DesignerSpec
CONSTANTS
  Offers = {o1}
  NoOffer = NoOffer
  Requests = {r1, r2}
  RedisEnabled = FALSE
  MayRestart = FALSE
  AuditMayFail = FALSE
  Members = {m1}
  StackThreshold = 3
  ClaudeBriefs <- AnyBriefs
SYMMETRY Symmetry
PROPERTIES
  AutoSavedAsDraft
