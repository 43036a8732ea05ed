CONSTANTS
  Call = {x1, x2, x3, x4, x5}
  Channel = {c1}
  Deposits <- DepositInputs
  Amounts <- AmountInputs
  Overlap = FALSE
  Suppressed = {}
  MaxFaults = 2
  NoChannel = NoChannel NoRecord = NoRecord NoPayout = NoPayout
SPECIFICATION FairSpec
INVARIANTS
  CloseReconciles
PROPERTIES
  ImplementsChannel
  ClosingEnds
