SPECIFICATION Spec
CONSTANTS
  LineBytes = 3
  MaxBytes = 8
  MaxFiles = 3
  MaxTruncations = 0
  BufferSize = 2
CHECK_DEADLOCK FALSE
INVARIANT IntactLines
INVARIANT OneSplit
PROPERTY CurrentFileDelivered
