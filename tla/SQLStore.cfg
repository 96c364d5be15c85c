\* Two transactions on a key of each table, in both databases.
SPECIFICATION StoreSpec
CONSTANTS
  Proc = {p1, p2}
  NoProc = noproc
  Absent = absent
  Value = {0, 1}
  TTL = 1
  Limit = 1
  MaxTime = 3
  MaxValue = 1
  MaxHeld = 2
  Cost = {1, 2}
  Window = 2
  Instant = {2, 5}
  LogLimit = 2
  MaxEntries = 4
INVARIANTS RowReadIsStable LeaseLimit
PROPERTIES  TransactionsEnd
\* A log of MaxEntries entries takes no more requests: that is the bound, not the store.
CHECK_DEADLOCK FALSE
