CONSTANTS
  Pay = {x1, x2, x3}
  s1 = s1 s2 = s2
  Payee = {s1, s2}
  Asset = {usdc}
  Amounts <- OfferAmounts
  Offered <- AnyOffer
  Forced = {NoModel, "mpp-channel"}
  HasRouter = TRUE
  EnabledModels = {"x402", "mpp-channel"}
  MinChannelDeposit = 2
  DailyBudget = 3
  TotalBudget = 4
  ServiceCap <- OnlyFirstCapped
  RequestsPerMinute = 2
  MaxSpendPerMinute = 3
  NoLimit = NoLimit
  Minute = 1
  Day = 2
  MaxTime = 4
  MaxFaults = 1
  h1 = h1 h2 = h2
  Handler = {h1, h2}
  Throwing = {h1}
  NoIntent = NoIntent NoTime = NoTime NoModel = NoModel
SPECIFICATION Spec
SYMMETRY Symmetry
CONSTRAINT Bounds
INVARIANTS
  BudgetsExceededOnlyByUnseen
  WindowsExceededOnlyByUnseen
  CountersMatchPayments
  EveryEndIsHeard
