\* Two threads call while the interface changes and the server is stopped and
\* started again.
SPECIFICATION FairSpec
CONSTANTS
  Threads = {t1, t2}
  Order <- MCOrder
  Wireless <- MCWireless
  AutoDetect = TRUE
  Configured <- MCConfigured
  Avoided <- MCAvoidAll
INVARIANTS
  TypeOK
  NothingFreedInUse
  CountExact
  RunningIsConnected
  LifecycleInv
PROPERTIES
  ReplacedWhenQuiet
  ComesBack
  RequestHonoured
  StopReturns
