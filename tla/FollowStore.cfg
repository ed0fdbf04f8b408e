SPECIFICATION WatchSpec
CONSTANTS
  a = a
  b = b
  untimed = untimed
  garbage = garbage
  blank = blank
  Texts <- MCTexts
  KindOf <- MCKindOf
  TextOf <- MCFirst
  FragmentText = blank
  LineBytes = 2
  MaxBytes = 6
  MaxFiles = 2
  MaxTruncations = 1
  BufferSize = 4
  BatchSize = 2
  NoLimit = NoLimit
  MaxEvents = 2
  MaxQueue = 1
  Failures = TRUE
CHECK_DEADLOCK FALSE
INVARIANT FollowLosesNothing
INVARIANT NoGap
INVARIANT InOrderOnce
