SPECIFICATION Spec
CONSTANTS
  Sized <- SmallTypes
  Word <- TwoBytes
  MaxLen = 5
  IsizeMax = 31
INVARIANTS FreedAsAllocated PanicsIffTooLarge ElementsFound
CHECK_DEADLOCK FALSE
