SPECIFICATION CalendarSpec
CONSTANTS
  MaxMonth = 3
  Days <- MCDays
  Hours = 3
  Docs = {d1, d2}
  Instants = {"whole", "fraction"}
  Manual = TRUE
  Faults = {"error"}
  None = None
SYMMETRY Symmetry
INVARIANTS CalendarTypeOK CountedOnce CompleteUnlessEarly MidnightRuns
