CONSTANTS
  Server = {s1, s2, s3}
  NoServer = NoServer
  Port <- MCPort
  InitialConfig <- RestartingGroup
  Changes <- NumberChanges
  MaxClients = 1
  Modulus = 3
  MaxSessionNo = 1
  MaxCrashes = 1
  ForkMayFail = FALSE
SYMMETRY MCServers
SPECIFICATION Spec
INVARIANTS PortOwnership NeverOutOfPorts StopSparesOnlyRestarting
PROPERTY RefinesPortPool
