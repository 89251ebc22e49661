SPECIFICATION FairSpec
CONSTANTS
  Keys = {k1, k2}
  Payloads = {p1}
  Malformed = {}
  Projections = {k2}
  Confirmations = {}
  Clients = {c1}
  Workers = {w1, w2}
  BatchLimit = 2
  Faults = {"network", "after"}
  NoPayload = NoPayload
  NoKey = NoKey
INVARIANTS NoOrphanForwarding
PROPERTIES EventuallyReceipted
