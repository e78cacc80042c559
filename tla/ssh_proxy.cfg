SPECIFICATION FairSpec
CONSTANTS
  shell = shell  tunnel = tunnel
  Chan <- Channels
  Kind <- KindOf
  Settings <- Configurations
  MaxLogins = 3
  MaxStrays = 1
CHECK_DEADLOCK FALSE
INVARIANT ProxyInv
PROPERTY RaisesOnlyWhileOpening
PROPERTY ReturnedAsUsed
PROPERTY SessionEnds
