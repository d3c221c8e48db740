CONSTANTS
  g1 = g1
  g2 = g2
  s1 = s1
  s2 = s2
  a1 = a1
  a2 = a2
  Group = {g1, g2}
  Server = {s1, s2}
  Owner <- OneServerEach
  Hosts <- OneHost
  Owning = {g1, g2}
  Restarts = {g1}
  MinServers = 1
  Admin = {a1, a2}
  Commands <- TwoAdministrators
  Client = Client
  Worker = Worker
  MaxFaults = 1
SPECIFICATION FairSpec
INVARIANTS TypeOK CallsVisitListedGroups StopTakesEffect NoFreeServerMissed
PROPERTIES RemovalSparesServers GroupsServe
