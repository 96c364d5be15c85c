\* Weights of 5 and 7 overflow integers of 6 bits, below and above zero.
SPECIFICATION RegionSpec
CONSTANTS
  Region = {1, 2, 3}
  Weight = {0, 1, 3, 5, 7}
  GlobalLimit = 10
  HeartbeatTTL = 1
  MaxInt = 31
INVARIANTS  SharesFollowHealth AliveKeepsShare
