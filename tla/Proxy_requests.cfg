SPECIFICATION ProxyFairSpec
CONSTANTS
  glm = glm
  Requests = {r1, r2}
  Models = {glm}
  ModelOf <- MCModelOf
  MAX_RETRIES = 3
INVARIANTS ProxyTypeOK OneSource
PROPERTIES EveryRequestEnds GoneClientIsReleased
CHECK_DEADLOCK FALSE
