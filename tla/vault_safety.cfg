SPECIFICATION Spec
CONSTANTS
  Keys = {k1, k2}
  Contents = {p1, p2}
  Clients = {c1, c2}
  MaxDocs = 3
  NoKey = NoKey
SYMMETRY Symmetry
INVARIANTS TypeOK AnswerIsHeld RepeatIsFound
