\* Every algorithm, two concurrent requests, two windows of two instants.
SPECIFICATION FairLimitersSpec
CONSTANTS
  Algorithm = {"fixed_window", "counter", "log", "fallback_log", "token_bucket", "leaky_bucket"}
  Instant = {2, 3, 4, 5}
  Duration = 2
  CalendarStarts = {}
  Proc = {p1, p2}
  Limit = 2
  Cost = {1, 2}
  MaxRetries = 2
  Capacity = 2
  Rate = 1
  BucketTTL = 2
  Stall = 1
  MaxAdmitted = 1
  Prompt = TRUE
INVARIANTS WindowBudget CounterIsCharged LogLimit 
PROPERTIES ContentionIsReal RollingEstimate EvaluationEnds
CHECK_DEADLOCK FALSE
