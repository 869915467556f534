SPECIFICATION FairSpec
CONSTANTS
  s1 = s1
  s2 = s2
  s3 = s3
  c1 = c1
  c2 = c2
  story = story
  Signals = {s1, s2, s3}
  KeyOf <- MCKeyOf
  Confidence <- MCConfidence
  Dated = {s1, s2, s3}
  Injected = {"webhook", "bot"}
  Window = 2
  Chats = {c1, c2}
  Wants <- MCWants
  Rows <- MCRows
  MaxQuota = 1
  Workers = 2
  DayLength = 2
  Horizon = 2
  BotConfigs <- MCBotConfigs
  MaxEdits = 2
INVARIANTS TypeOK DedupHolds QuotaIsEarned
PROPERTIES LapsedIsMarked OldRowsExpireLapsed
CHECK_DEADLOCK FALSE
