SPECIFICATION ScoutFairSpec
CONSTANTS
  m1 = m1
  e1 = e1
  e2 = e2
  e3 = e3
  Members = {m1}
  Events = {e1, e2, e3}
  Calls = {c1, c2}
  MemberOf <- OneMember
  HighValue = {e2}
  Refunds = {e3}
  Pilot = {m1}
  DayLength = 4
  QuietStart = 3
  QuietEnd = 1
  RateLimit = 1
  DedupWindow = 4
  Retention = 8
  MayRestart = TRUE
  Horizon = 10
INVARIANTS
  ScoutTypeOK
  DecisionsRespectLog
  
  MessagesAreCounted
PROPERTIES
  TakenIsAnswered
  HandlersAdvance
  ImplementsPromise
