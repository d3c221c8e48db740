CONSTANTS
  Host = {h1, h2}
  HostName = {n1, n2}
  Db = {d1, d2}
  DbName = {a}
  Group = {g1, g2}
  Session = {i1, i2}
  None = None
  NewHosts = {n1, n2}
  NewDbNames = {}
SYMMETRY Symmetry
SPECIFICATION Spec
INVARIANTS TypeOK SessionsCounted
