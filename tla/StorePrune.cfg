SPECIFICATION FairSpec
CONSTANTS
  i1 = i1
  i2 = i2
  q1 = q1
  api = api
  cli = cli
  a = a
  b = b
  c = c
  t1 = t1
  t2 = t2
  Raw = {a, b, c}
  Time = {1, 2}
  NoTime = NoTime
  Tag = {t1, t2}
  NoTag = NoTag
  Ingesters = {i2}
  Pruners = {q1}
  Readers = {cli}
  Proc = {i2, q1, cli}
  ReadOnly = {}
  Malformed = Malformed
  Blank = Blank
  Source <- MCSource
  TagOption <- MCTagOption
  StampNow <- MCStampNow
  Now = 2
  BatchLines <- MCBatchLines
  BatchSize = 2
  Cutoff <- MCCutoff
  InitialRows <- OldRow
  MayDie = {i2,q1}
  Timeouts = TRUE
  MaxRuns = 2
INVARIANT CommittedChunksStay
PROPERTY ImplementsLogIndex
PROPERTY IngestsEnd
PROPERTY WritersCommit
