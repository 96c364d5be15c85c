\* Two slots, three acquire requests, two release calls at a time.
SPECIFICATION FairSpec
CONSTANTS
  Lease = {l1, l2, l3}
  NoLease = none
  Caller = {c1, c2}
  Limit = 2
  LeaseTTL = 2
  MaxTime = 6
  Shadow = TRUE
  FailOpen = TRUE
  GRPC = TRUE
INVARIANTS SlotsRespected SlotsAccounted
PROPERTY SlotsComeBack
CHECK_DEADLOCK FALSE
