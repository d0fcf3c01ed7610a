CONSTANTS
  BANK = 1  HEADER = 0  CARDS = 2  TRIES = 2
  SPECTS = 2  DIFFS = 2  BASES = 2  DECISIONS = 3
  RANGE = 48  SELECT = 8  MIN = 20  MAX = 36  FFT = 4
  WIDTH = 3  LINES = 16  FIXED = 32768
  Outcomes <- MCOutcomes
  Cards <- MCCards
  Recordings <- MCRecordings
SPECIFICATION FairSpec
INVARIANTS TypeOK ComparedWhole WordNamed StatusShown
           NoFalsePanic FragmentWhole ProfileFilled
PROPERTY AnalysisEnds
