\* Nothing is left to do once every event is in Odoo and every job has ended.
CHECK_DEADLOCK FALSE
SPECIFICATION FairSpec
CONSTANTS
  Invoices = {i1}
  Payments = {p1}
  Events <- MCEvents
  Ranges <- MCRanges
  Jobs = {j1}
  Runners = {r1, r2}
  JobLimit = 1
  BatchSize = 2
  RetryMax = 1
  Faults = {"network", "timeout", "refused", "read", "write", "crash"}
  MaxLate = 1
  Mishaps = 1
  None = None
INVARIANTS TypeOK AppliedOnce CompletedIsHandled InvoicesFirst
PROPERTIES JobEnds
