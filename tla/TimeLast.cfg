SPECIFICATION Spec
CONSTANTS
  Ticks = 2
  Rests <- MCRests
  Order <- MCOrder
  Fraction <- MCFraction
  Offset <- MCOffset
  UtcRest <- MCUtcRest
  ZuluRest <- MCZuluRest
  Locals <- MCLocals
  Amounts <- MCAmounts
  Units <- MCUnits
  UnitSeconds <- MCUnitSeconds
  I64Max = 24
  DeltaMax = 20
  InstantMin <- MCInstantMin
  MaxNow = 8
  MaxRows = 1
INVARIANT LargeLastSaturates
