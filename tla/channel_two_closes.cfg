CONSTANTS
  Call = {x1, x2, x3}
  Channel = {c1}
  Deposits <- DepositInputs
  Amounts <- AmountInputs
  Overlap = TRUE
  Suppressed = {}
  MaxFaults = 0
  NoChannel = NoChannel NoRecord = NoRecord NoPayout = NoPayout
SPECIFICATION Spec
INVARIANTS
  OneCloseReachesAdapter
