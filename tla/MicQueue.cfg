CONSTANTS
  Raw <- RawSamples
  STANDARD_QUEUE_SIZE = 2
  HwCapacity = 3
  MAX_SAMPLES_IN_ONE_ISR = 2
  MAX_POT_ERRORS = 2
SPECIFICATION FairSpec
INVARIANTS TypeOK FullNeverReported RingConsistent
PROPERTIES IsChannel FullFifoRecovers
