SPECIFICATION Spec
CONSTANTS
  Alternatives = {a, b}
  Time = {1, 2}
  Limits = {0, 1, 2}
  MaxRows = 3
  MaxInserts = 2
SYMMETRY Symmetry
CHECK_DEADLOCK FALSE
INVARIANT NothingSkipped
INVARIANT NothingMissed
INVARIANT MissesAreDepartures
INVARIANT RepeatsAreInserts
