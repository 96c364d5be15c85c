\* Two callers, two namespaces and a cache for one of them.
SPECIFICATION FairCacheSpec
CONSTANTS
  Proc = {p1, p2}
  NoProc = none
  Namespace = {n1, n2}
  NoName = noname
  Unnamed = unnamed
  MaxItems = 1
  TTL = 1
  Stall = 1
  MaxTime = 5
  MaxVersion = 1
INVARIANTS OneLoadAtATime
PROPERTIES BoundedStaleness CallersReturn
CHECK_DEADLOCK FALSE
