CONSTANTS
  RING = 6  MARGIN = 4  INITIAL = 2  CAPACITY = 2  TURNS = 4
SPECIFICATION Spec
INVARIANT NoGapInFragment
