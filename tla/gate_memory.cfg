CONSTANTS
  Request = {r1, r2, r3}
  g1 = g1 g2 = g2 p1 = p1 p2 = p2 c1 = c1 o1 = o1 o2 = o2
  Gate = {g1, g2}
  Process = {p1}
  Cache = {c1}
  Redis = {}
  Payment = {n1}
  Offer = {o1, o2}
  ProcessOf <- OneProcessOf
  CacheOf <- FirstCachesOf
  OffersOf <- AnyOfferOf
  RoutesOf <- RefusingRoutesOf
  ChargeGates = {g1}
  Adapters = {"express", "fastify", "hono", "next"}
  HookThrows = FALSE
  MaxFaults = 2
  NoRequest = NoRequest NoReceipt = NoReceipt NoCache = NoCache NoPayment = NoPayment NoData = NoData
SPECIFICATION PaywallSpec
SYMMETRY Symmetry
INVARIANTS
  OneAttemptPerGate
  ServedReceiptIsBound
  MismatchIsReal
  WaiterAgreesWithOwner
  ChargesJustified
  ServedIsPaid
