SPECIFICATION FairSpec
CONSTANTS
  t1 = t1
  t2 = t2
  d1 = d1
  d2 = d2
  Threads = {t1, t2}
  Devices = {d1, d2}
  Calls <- MCCalls
  REPLY_TIMEOUT = 0
  CallHorizon = 4
INVARIANTS
  TypeOK
  OwnReplies
  OwnValues
PROPERTIES
  NoReplyLost
  CallReturns
  ImplementsInquiry
\* After CallHorizon no call is made, and the last ones return.
CHECK_DEADLOCK FALSE
