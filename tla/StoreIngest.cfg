SPECIFICATION Spec
CONSTANTS
  i1 = i1
  i2 = i2
  q1 = q1
  api = api
  cli = cli
  a = a
  b = b
  c = c
  t1 = t1
  t2 = t2
  Raw = {a, b, c}
  Time = {1, 2}
  NoTime = NoTime
  Tag = {t1, t2}
  NoTag = NoTag
  Ingesters = {i1,i2}
  Pruners = {}
  Readers = {api}
  Proc = {i1, i2, api}
  ReadOnly = {api}
  Malformed = Malformed
  Blank = Blank
  Source <- MCSource
  TagOption <- MCTagOption
  StampNow <- MCStampNow
  Now = 2
  BatchLines <- MCLongBatch
  BatchSize = 2
  Cutoff <- MCCutoff
  InitialRows <- NoRows
  MayDie = {i1,i2}
  Timeouts = TRUE
  MaxRuns = 2
INVARIANT TypeOK
INVARIANT UniqueRaw
INVARIANT CompleteIngest
INVARIANT SummaryIsExact
INVARIANT AnswerIsBehind
