SPECIFICATION FairSpec
CONSTANTS
  v1 = v1  v2 = v2  v3 = v3  v4 = v4
  x1 = x1  x2 = x2  x3 = x3
  c1 = c1  c2 = c2  a1 = a1  a2 = a2  p1 = p1
  NoVm = NoVm  NoConn = NoConn  NoCall = NoCall
  SrcIp <- SrcIp1
  Configs <- ConfigsSizes
  Vm = {v1, v2, v3}
  Address = {x1, x2, x3}
  AddressOf <- ThreeVms
  Conn = {c1}
  Ip = {a1}
  Producer = {p1}
  IdWrap = 2
  SshPort = TRUE
  TelnetPort = TRUE
  UseNat = FALSE
  Recycle = TRUE
  CreateMayRaise = TRUE
  DestroyMayFail = FALSE
  ListenersMayClose = FALSE
  MaxConnected = 0
CONSTRAINT SaneCounts
INVARIANT PoolWithinLimit
PROPERTY GrantsUsable
PROPERTY CondemnedLeave
PROPERTY Refilled
CHECK_DEADLOCK FALSE
