SPECIFICATION Spec
CONSTANTS
  Lower <- MCLower
  FieldNames <- MCFieldNames
  Decimals <- MCDecimals
  U64 <- MCU64
  I64 <- MCI64
  NumberOf <- MCNumberOf
  NumberText <- MCNumberText
  Instant <- MCInstant
  CutoffText <- NoCutoff
  ByteOrder <- MCByteOrder
  Inside <- MCInside
  Sessions <- MCSessions
CHECK_DEADLOCK FALSE
INVARIANT ParsedAsMeant
INVARIANT RefusedAtFault
INVARIANT SelectsAsMeant
