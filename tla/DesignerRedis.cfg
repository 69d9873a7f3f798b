SPECIFICATION DesignerSpec
CONSTANTS
  Offers = {o1}
  NoOffer = NoOffer
  Requests = {r1, r2, r3, r4}
  RedisEnabled = TRUE
  MayRestart = FALSE
  AuditMayFail = FALSE
  Members = {m1}
  StackThreshold = 3
  ClaudeBriefs <- DraftBriefs
SYMMETRY Symmetry
INVARIANTS
  DesignerTypeOK
  RefusedNeverStored
  
  
  ActiveWasApproved

  
