SPECIFICATION FairSpec
CONSTANTS
  Users = {u1}
  Daemon = daemon
  Crawls = {a, b}
  Requests = {r1}
  NumGroups = 1
  None = None
PROPERTY LoopUnblocks
