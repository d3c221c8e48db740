CONSTANTS
  Client = {c1, c2, c3}
  Server = {s1, s2}
  Handler = {h1, h2, h3}
  Worker = Worker
  None = None
  SessionNo = {1, 2}
  MaxClients = 1
  Modulus = 8
  Sequential = TRUE
  Faults = {}
SYMMETRY Symmetry
SPECIFICATION Spec
INVARIANTS SessionsWithinCapacity ClientsWithinCapacity CleanExit
PROPERTY RefinesSessionTable
