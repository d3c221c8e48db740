CONSTANTS
  Client = {c1, c2}
  Server = {s1}
  Handler = {h1, h2}
  Worker = Worker
  None = None
  SessionNo = {1, 2}
  MaxClients = 1
  Modulus = 4
  Sequential = FALSE
  Faults = {"call", "silent", "forget", "crash", "db"}
SYMMETRY Symmetry
SPECIFICATION Spec
INVARIANTS TypeOK NoLockCycle RecordedSessionsAreAssigned
