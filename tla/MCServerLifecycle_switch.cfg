\* The wireless interface comes up while the wired one is in use.
SPECIFICATION FairSpec
CONSTANTS
  Threads = {t1}
  Order <- MCOrder
  Wireless <- MCWireless
  AutoDetect = TRUE
  Configured <- MCConfigured
  Avoided <- MCAvoidAll
PROPERTY SwitchedWhenDown
