CONSTANTS
  Server = {s1, s2}
  NoServer = NoServer
  Port <- MCPort
  InitialConfig <- TwoServerGroup
  Changes <- NoChanges
  MaxClients = 1
  Modulus = 3
  MaxSessionNo = 1
  MaxCrashes = 1
  ForkMayFail = FALSE
SPECIFICATION FairSpec
PROPERTIES DeadServersRemoved StartingServersResolved MinAvailableKept
