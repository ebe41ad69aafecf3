SPECIFICATION Spec
CONSTANTS
  Clients = {c1}
  Devices = {d1, d2}
  StoreGroups <- MCSourceOrder
  FreshStatus = {"DONE"}
  REPLY_TIMEOUT = 1
  CallHorizon = 5
INVARIANT IdleMeansSettled
SYMMETRY MCSymmetry
CHECK_DEADLOCK FALSE
