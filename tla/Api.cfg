SPECIFICATION FairSpec
CONSTANTS
  Commands = {"c1", "c2"}
  Processes = {"c1", "c2", "api"}
  Clients = {"u1", "u2"}
  Statements = 2
  MaxRows = 2
  MaxStarts = 2
  MaxSignals = 2
  Casts <- MCCasts
CHECK_DEADLOCK FALSE
INVARIANT IndexIsMade
INVARIANT StartInOrder
INVARIANT CommandsEndWell
INVARIANT AcceptedIsAnswered
PROPERTY BlameIsRight
PROPERTY SignalEnds
PROPERTY SentIsAnswered
