SPECIFICATION CalendarSpec
CONSTANTS
  MaxMonth = 3
  Days <- MCDays
  Hours = 3
  Docs = {d1, d2}
  Instants = {"whole"}
  Manual = FALSE
  Faults = {}
  None = None
SYMMETRY Symmetry
INVARIANTS EveryMonthRuns
