\* The table: two requests for one agent, a client, shutdown at any time.
SPECIFICATION FairSpec
CONSTANTS
  Runs = {r1, r2}
  Ids = {a}
  Clients = {c}
  TTL = 1
  MaxTime = 1
  NoRun = NoRun
INVARIANTS
  NoOrphanRun
  RetentionIsRight
  StoppedIsEmpty
  NotFoundIsJustified
PROPERTIES
  UnwantedRunsEnd
