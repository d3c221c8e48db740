CONSTANTS
  Host = {h1, h2}
  HostName = {n1, n2}
  Db = {d1, d2}
  DbName = {a, b}
  Group = {g1, g2}
  Session = {i1}
  None = None
  NewHosts = {}
  NewDbNames = {a, b}
SYMMETRY Symmetry
SPECIFICATION Spec
INVARIANTS GroupHostsAreKept OpenSessionsHaveDatabase
