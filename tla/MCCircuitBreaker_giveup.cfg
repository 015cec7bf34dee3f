SPECIFICATION Spec
CONSTANTS
  openrouter = openrouter
  openai = openai
  anthropic = anthropic
  r1 = r1
  r2 = r2
  r3 = r3
  Chain <- TwoProviders
  Anthropic = anthropic
  ModelProvider = {openai}
  Request = {r1}
  FailureThreshold = 2
  ResetTimeoutMs = 1
  MaxTime = 1
CHECK_DEADLOCK FALSE
PROPERTIES GivesUpOnlyWhenExhausted
