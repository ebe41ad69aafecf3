\* One thread and the recv thread are enough.
SPECIFICATION FairSpec
CONSTANTS
  Threads = {t1}
  Order <- MCOrder
  Wireless <- MCWireless
  AutoDetect = TRUE
  Configured <- MCConfigured
  Avoided <- MCAvoidButEntry
INVARIANT NothingFreedInUse
