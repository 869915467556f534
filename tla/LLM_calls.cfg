SPECIFICATION FairSpec
CONSTANTS
  astron = astron
  anthropic = anthropic
  batch = batch
  other = other
  Threads = {batch, other}
  Calls <- MCCalls
  Providers = {astron, anthropic}
  RawConfigs <- MCRawConfigs
  BatchSize = 2
  InTries = 3
  MaxRetries = 2
INVARIANTS TypeOK GivesUpAfterAll
PROPERTIES OwnCooldownHonoured ImplementsContract
