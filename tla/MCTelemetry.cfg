SPECIFICATION MCSpec
CONSTANTS
  Worker = {w1, w2}
  N = 3
  Fields = {f, g}
  BufSize = 2
  Proc = {p, q}
  Id = {x, y}
  NoId = NoId
  Decision <- MCDecision
  Bound = 2
  maxCardinalityPerMap = 1
  Percent = {50, 99}
  MaxDecisions = 4
  Event = {1, 2, 3}
  Tag = {1, 2}
  maxAnalyticsKeys = 2
  Top = {0, 1}
  MaxEvents = 4
  Publisher = {p, q}
  Loop = Loop
  Callback = {f, g}
  Topic = {x, y}
  Buffer = 1
  MaxPublished = 3
INVARIANTS  EarlyRecordsWritten MetricsSound DeliveredOnce SummaryAddsUp
PROPERTY CallsEnd
CHECK_DEADLOCK FALSE
