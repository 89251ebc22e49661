SPECIFICATION FairSpec
CONSTANTS
  Procs = {p1, p2}
  Clients = {c1, c2}
  Workers = {w1, w2}
  Timeout = 3
  MaxAge = 1
  MaxRuntime = 3
  Ttl = 5
  Mishaps = 1
  None = None
INVARIANTS TypeOK OneCallPerContext
PROPERTIES PendingEnds NeverShut
