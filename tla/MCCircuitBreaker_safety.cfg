SPECIFICATION Spec
CONSTANTS
  openrouter = openrouter
  openai = openai
  anthropic = anthropic
  r1 = r1
  r2 = r2
  r3 = r3
  Chain <- TwoProviders
  Anthropic = anthropic
  ModelProvider = {openai}
  Request = {r1, r2, r3}
  FailureThreshold = 2
  ResetTimeoutMs = 2
  MaxTime = 3
SYMMETRY RequestSymmetry
CHECK_DEADLOCK FALSE
INVARIANTS TypeOK CircuitsConsistent UncalledNeverBlamed FailuresAreReported
PROPERTIES KeepsCircuitPromise
