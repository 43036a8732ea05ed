CONSTANTS
  Request = {r1, r2, r3}
  g1 = g1 g2 = g2 p1 = p1 p2 = p2 c1 = c1 o1 = o1 o2 = o2
  Gate = {g1, g2}
  Process = {p1, p2}
  Cache = {c1}
  Redis = {c1}
  Payment = {n1}
  Offer = {o1}
  ProcessOf <- RedisProcessOf
  CacheOf <- FirstCachesOf
  OffersOf <- SameOfferOf
  RoutesOf <- X402Of
  ChargeGates = {}
  Adapters = {"next"}
  HookThrows = FALSE
  MaxFaults = 1
  NoRequest = NoRequest NoReceipt = NoReceipt NoCache = NoCache NoPayment = NoPayment NoData = NoData
SPECIFICATION PaywallFairSpec
PROPERTIES
  EveryRequestAnswered
  SignedReceiptReachesPayer
  LockIsFreed
