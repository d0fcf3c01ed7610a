CONSTANTS
  RING = 6  MARGIN = 4  INITIAL = 1  CAPACITY = 1  TURNS = 4
SPECIFICATION FairSpec
INVARIANTS TypeOK FreshOnly TriggerKept
PROPERTIES TimedRecordingEnds ResetAnswered
