CONSTANTS
  i1 = i1 i2 = i2 a1 = a1 a2 = a2 p1 = p1 p2 = p2 r1 = r1 r2 = r2 r3 = r3
  Instance = {i1, i2}
  Key = {k1, k2}
  NamesOf <- DemoNames
  Input <- Inputs
  Id = {d1, d2}
  Payer = {a1, a2}
  Payee = {p1, p2}
  Amounts <- MetricAmounts
  Stamps <- IsoStamps
  MaxMetrics = 2
  Mount <- TwoMounts
  Row = {r1, r2, r3}
  Tampered = {r2}
  Unreadable = {r3}
  MaxRuns = 3
  MaxFaults = 1
  NoName = NoName NoKey = NoKey Bad = Bad Garbled = Garbled
  NotInteger = NotInteger Unset = Unset NoRow = NoRow NoSnapshot = NoSnapshot
SPECIFICATION PartSpec
INVARIANTS
  OnlyIssuedVerify
  MetricsAgree
  WindowErrsByNotationOnly
  ScreenTellsTheTruth
