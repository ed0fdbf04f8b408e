SPECIFICATION Spec
CONSTANTS
  Digit <- MCDigit
  Letter <- MCLetter
  Space <- MCSpace
  WideSpace <- MCWideSpace
  Timestamp <- MCTimestamp
  Level <- MCLevel
  Message <- MCMessage
  Tag <- MCTag
  FieldsName <- MCFieldsName
  RawName <- MCRawName
  NullText <- MCNullText
  CaseFold <- MCCaseFold
  ToLowercase <- MCToLowercase
  Sessions <- MCSessions
CHECK_DEADLOCK FALSE
INVARIANT TokensAreWhole
INVARIANT PairsAreLocal
INVARIANT LinesReadBack
INVARIANT FieldsAreFound
INVARIANT OutputReadsBack
PROPERTY EarlierTokensStay
