CONSTANTS
  c1 = c1 k = k x1 = x1 x2 = x2 x3 = x3
  Keeper = k
  Call = {k, x1, x2, x3}
  Channel = {c1}
  Deposits = {4}
  Amounts = {1, 2}
  Overlap = TRUE
  MaxFaults = 1
  ThresholdUnit = 10000000
  Policies <- EveryPolicy
  Horizon = 2
  Unset = Unset
  NoChannel = NoChannel NoRecord = NoRecord NoPayout = NoPayout
SPECIFICATION KeeperFairSpec
INVARIANTS
  DrawdownIsTold
PROPERTIES
  DueUntilUsed
  DueChannelSettles
