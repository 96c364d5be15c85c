\* Two keys in two shards, and a sweep that may be slower than the clock; one
\* Redis key, with two units of the clock to the millisecond; two goroutines at
\* the breaker.
SPECIFICATION MCSpec
CONSTANTS
  Key = {k1, k2}
  LogKey = {k1}
  RedisKey = {k1}
  Shard = {k1, k2}
  shardFor <- MCshardFor
  Amount = {1, 2}
  TTL = {0, 1}
  RedisTTL = {0, 1, 2}
  Limit = {0, 2}
  Cost = {1}
  Instant = {1, 2}
  Milli = 2
  MaxTime = 3
  RedisMaxTime = 4
  MaxValue = 2
  Proc = {p1, p2}
  NoProc = none
  Threshold = 2
  MaxProbe = 2
PROPERTIES ImplementsTTLStore ExpiredItemsGoAway RedisImplementsTTLStore Recovers
CHECK_DEADLOCK FALSE
