CONSTANTS
  a1 = a1 a2 = a2 n1 = n1 n2 = n2 g1 = g1 g2 = g2 p1 = p1 p2 = p2 c1 = c1
  Agent = {a1, a2}
  Request <- FlowRequests
  PathOf <- SamePath
  EnvelopeOf <- OwnEnvelope
  MockEnvelope = n1
  ServiceModels <- X402Only
  Gate = {g1, g2}
  Process = {p1, p2}
  Cache = {c1}
  Redis = {c1}
  Payment = {n1, n2}
  Offer <- FlowOffers
  ProcessOf <- TwoProcesses
  CacheOf <- OneCache
  OffersOf <- RolloutOf
  RoutesOf <- FirstModelOf
  ChargeGates = {}
  HookThrows = FALSE
  MaxFaults = 1
  Adapters = {"express", "next"}
  NoRequest = NoRequest NoReceipt = NoReceipt NoCache = NoCache NoPayment = NoPayment NoData = NoData
  NoOffer = NoOffer
SPECIFICATION FlowSpec
INVARIANTS
  ReceiptMatchesChallenge
  RunsFailForAReason
