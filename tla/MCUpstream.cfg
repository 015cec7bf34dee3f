SPECIFICATION FairUpstream
CONSTANTS
  openrouter = openrouter
  openai = openai
  r1 = r1
  r2 = r2
  Chain <- TwoProviders
  Anthropic = anthropic
  ModelProvider = {openai}
  Request = {r1, r2}
  FailureThreshold = 2
  ResetTimeoutMs = 1
  MaxTime = 2
  Retries = 2
CHECK_DEADLOCK FALSE
PROPERTIES RequestsAreAnswered
