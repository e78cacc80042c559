SPECIFICATION FairSpec
CONSTANTS
  Settings <- Configurations
  MaxPackets = 4
  MaxTries = 2
CHECK_DEADLOCK FALSE
INVARIANT TelnetInv
PROPERTY SessionEnds
