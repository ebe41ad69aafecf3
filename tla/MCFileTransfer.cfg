\* Two transfers fit into the horizon, and with reply_timeout 0 one may expire
\* and its reply still arrive while the second one runs.
SPECIFICATION FairSpec
CONSTANTS
  Clients = {c1}
  Devices = {d1, d2}
  StoreGroups <- MCAtomicStore
  FreshStatus = {"DONE"}
  REPLY_TIMEOUT = 0
  CallHorizon = 4
INVARIANTS
  TypeOK
  
  IdleSettled
  FreshResult
  TransferInv
PROPERTIES
  
  TransferTerminates
  ImplementsTransfers
\* The model's clock stops at MaxTime.
CHECK_DEADLOCK FALSE
