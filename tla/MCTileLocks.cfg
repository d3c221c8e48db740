CONSTANTS
  Server = {s1, s2}
  MaxTile = 3
  Requests = {{3}, {1, 3}, {2, 3}, {1, 2, 3}}
  Reading = {s1}
  Crashing = {s2}
  BulkMin = 2
SPECIFICATION FairSpec
INVARIANTS TypeOK DeadlockNeedsError
PROPERTIES RefinesLockTable LockedOrError WaitsEnd
