CONSTANTS
  Server = {s1, s2, s3}
  NoServer = NoServer
  Port <- MCPort
  InitialConfig <- SmallGroup
  Changes <- PortChanges
  MaxClients = 1
  Modulus = 3
  MaxSessionNo = 1
  MaxCrashes = 1
  ForkMayFail = TRUE
SYMMETRY MCServers
SPECIFICATION Spec
INVARIANTS TypeOK PortOwnership NeverOutOfPorts StopSparesOnlyRestarting
PROPERTY RefinesPortPool
