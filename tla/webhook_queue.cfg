\* Nothing is left to do once every event has come to its end.
CHECK_DEADLOCK FALSE
SPECIFICATION FairSpec
CONSTANTS
  Events = {e1, e2, e3, e4}
  Dead = {e1}
  Malformed = {e3}
  Workers = {w1, w2}
  MaxRetries = 3
  Mishaps = 2
  None = None
INVARIANTS TypeOK Accounted
PROPERTIES EventEnds
