CONSTANTS
  CHECK = 4  LONG = 8  FOREVER = 10
SPECIFICATION Spec
INVARIANTS TypeOK ResetMeansLongPress NoSpikes
PROPERTY LongPressResets
