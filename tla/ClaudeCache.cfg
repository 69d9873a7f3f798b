SPECIFICATION ClaudeFairSpec
CONSTANTS
  a1 = a1
  a2 = a2
  b1 = b1
  c1 = c1
  ta = ta
  tb = tb
  tc = tc
  Requests = {a1, a2, b1, c1}
  Contexts = {p1}
  Texts = {ta, tb, tc}
  Normal <- NormalForm
  MaxSize = 2
  TTL = 1
  MayRestart = TRUE
  MaxCalls = 3
  Horizon = 2
INVARIANTS
  ClaudeTypeOK
  CacheBounded
  RecentIsCached
PROPERTIES
  EveryCallEnds
  CallsAdvance
  ImplementsPromise
