\* Two overlapping requests on a new token bucket, at one instant, no failures
\* needed: after a request is admitted no further one starts.
SPECIFICATION LimitersSpec
CONSTANTS
  Algorithm = {"token_bucket"}
  Instant = {2}
  Duration = 2
  CalendarStarts = {}
  Proc = {p1, p2}
  Limit = 2
  Cost = {1, 2}
  MaxRetries = 2
  Capacity = 2
  Rate = 1
  BucketTTL = 2
  Stall = 1
  MaxAdmitted = 1
  Prompt = TRUE
INVARIANT BurstRespected
CHECK_DEADLOCK FALSE
