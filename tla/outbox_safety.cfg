SPECIFICATION Spec
CONSTANTS
  Keys = {k1, k2}
  Payloads = {p1, p2, bad}
  Malformed = {bad}
  Projections = {k2}
  Confirmations = {k2}
  Clients = {c1, c2}
  Workers = {w1, w2}
  BatchLimit = 1
  Faults = {"network", "reject", "crash", "write", "after"}
  NoPayload = NoPayload
  NoKey = NoKey
SYMMETRY Symmetry
INVARIANTS TypeOK ForwardedImpliesVaulted
PROPERTIES Implements ForwardedUnlessStale
