\* The restarted agent's first writer may still be taken for alive, silent, or
\* reported lost at any later time.
SPECIFICATION FairSpec
CONSTANTS
  Writers <- MCWriters
  deviceID <- MCDeviceID
  Takers = {recv}
  recv_thread = recv
  Overlap = FALSE
INVARIANTS
  TypeOK
  ListSound
  RunningIsListed
  LostIsReported
PROPERTY GetsListed
