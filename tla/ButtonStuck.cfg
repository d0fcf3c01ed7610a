CONSTANTS
  CHECK = 4  LONG = 8  FOREVER = 10
SPECIFICATION FairSpec
PROPERTY PressHasEffect
