CONSTANTS
  Client = {c1, c2}
  Server = {s1}
  Handler = {h1, h2}
  Worker = Worker
  None = None
  SessionNo = {1}
  MaxClients = 1
  Modulus = 4
  Sequential = TRUE
  Faults = {"silent", "forget", "crash"}
SPECIFICATION LiveSpec
PROPERTIES SilentClientsLeave
