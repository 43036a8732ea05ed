CONSTANTS
  Emit = {e1}
  Handler = {h1, h2}
  Webhook = {w1, w2, w3}
  Matching = {w1, w2}
  MaxAttempts = 3
  TimeLimit = TRUE
  HookThrows = TRUE
SPECIFICATION Spec
INVARIANTS
  NothingSwallowed
  FailuresAreFinal
  RepeatsAreUnsure
PROPERTIES
  EmitEnds
