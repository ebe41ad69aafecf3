\* A device nobody sent a file to is asked for its result.
SPECIFICATION Spec
CONSTANTS
  Clients = {c1}
  Devices = {d1, d2}
  StoreGroups <- MCAtomicStore
  FreshStatus = {"DONE", "RUNNING", "SERVER_ERROR", "AGENT_ERROR"}
  REPLY_TIMEOUT = 1
  CallHorizon = 5
INVARIANT RunningWasAsked
CHECK_DEADLOCK FALSE
