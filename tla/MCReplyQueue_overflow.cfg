\* The requests of one pass outnumber what the queue holds.
SPECIFICATION FairSpec
CONSTANTS
  QUEUE_SIZE = 4
  Burst = 4
  MaxRequests = 6
INVARIANT InBounds
