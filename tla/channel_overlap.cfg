CONSTANTS
  Call = {x1, x2, x3, x4, x5}
  Channel = {c1}
  Deposits <- DepositInputs
  Amounts <- AmountInputs
  Overlap = TRUE
  Suppressed = {}
  MaxFaults = 1
  NoChannel = NoChannel NoRecord = NoRecord NoPayout = NoPayout
SPECIFICATION Spec
SYMMETRY Symmetry
INVARIANTS
  TypeOK
  CommitmentsWithinDeposit
  NeverOvercharged
  NoSequenceGap
  CleanCloseIsPaid
  LateCommitShows
