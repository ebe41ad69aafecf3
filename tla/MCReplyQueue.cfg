\* Four slots hold three replies: the smallest buffer that wraps with a middle.
SPECIFICATION FairSpec
CONSTANTS
  QUEUE_SIZE = 4
  Burst = 3
  MaxRequests = 6
INVARIANTS TypeOK InBounds IdleIsDrained OnceInOrder QueueInv
PROPERTY ImplementsFifo
