SPECIFICATION ScoringSpec
CONSTANTS
  None = None
  Amounts = {25, 50, 199, 200}
  Categories = {"outdoor", "other"}
  Brands = {"tim_hortons", "other"}
  Hours = {9, 10}
  Counts = {1, 10}
  DaysAgo = {7, 8}
  Distances = {499, 999, 1500, 2000}
  StoreLists <- Lists
  Conditions = {"snow", "clear"}
  Temperatures <- Degrees
  Threshold = 70
INVARIANTS
  ScoringTypeOK
  FailureNeverHelps
  MoreNeverHurts
CHECK_DEADLOCK FALSE
