SPECIFICATION FairSpec
CONSTANTS
  MaxGeneration = 2
  MaxRevision = 3
  MaxRequests = 2
  MaxFaults = 1
  CommandRetries = 1
CHECK_DEADLOCK FALSE
INVARIANT TypeOK
INVARIANT SessionSound
PROPERTY ViewForward
PROPERTY CatchesUp
PROPERTY CommandAnswered
