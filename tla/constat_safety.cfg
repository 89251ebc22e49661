SPECIFICATION FairSpec
CONSTANTS
  Pairs = {p1}
  Ids = {i1, i2, i3}
  Runners = {r1, r2}
  MaxTries = 3
  Faults = {"network", "core", "refused", "crash"}
  None = None
INVARIANTS TypeOK ReceivedIsGenerated TransmittedIsReceived
PROPERTIES Implements TransmissionEnds
