SPECIFICATION WatchSpec
CONSTANTS
  a = a
  b = b
  untimed = untimed
  garbage = garbage
  blank = blank
  Texts <- MCTexts
  KindOf <- MCKindOf
  TextOf <- MCMixed
  FragmentText = blank
  LineBytes = 2
  MaxBytes = 6
  MaxFiles = 2
  MaxTruncations = 0
  BufferSize = 4
  BatchSize = 2
  NoLimit = NoLimit
  MaxEvents = NoLimit
  MaxQueue = 1
  Failures = TRUE
CHECK_DEADLOCK FALSE
PROPERTY LinesArrive
PROPERTY StopEnds
