CONSTANTS
  Lists = {r1, r2}
  Writes = {w1, w2}
  Keys = {k1, k2}
  MaxVersion = 2
  None = None
SPECIFICATION Spec
SYMMETRY Symmetry
CHECK_DEADLOCK FALSE
INVARIANTS
  TypeOK
  StaleOnlyByOverlap
