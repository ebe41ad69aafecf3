\* The application starts and stops the agent while its interfaces come and go,
\* an address changes, and domains cannot always be created.
SPECIFICATION FairSpec
CONSTANTS
  Order <- MCOrder
  Wireless <- MCWireless
  Ethernet <- MCEthernet
  Adlink <- MCAdlink
  MacTail <- MCMacTail
  Addresses <- MCAddresses
  Infos <- MCInfos
  ConfigFile <- MCConfigFile
  Configs <- MCConfigs
  Avoided <- Coincidences
INVARIANTS
  TypeOK
  NoBadUse
  DomainExact
  ToldLatest
  IdKept
PROPERTIES
  Settles
