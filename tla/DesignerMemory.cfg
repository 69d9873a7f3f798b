SPECIFICATION DesignerSpec
CONSTANTS
  Offers = {o1, o2}
  NoOffer = NoOffer
  Requests = {r1, r2, r3, r4}
  RedisEnabled = FALSE
  MayRestart = TRUE
  AuditMayFail = FALSE
  Members = {m1}
  StackThreshold = 1
  ClaudeBriefs <- DraftBriefs
SYMMETRY Symmetry
INVARIANTS
  CountedOnce

  
