SPECIFICATION Spec
CONSTANTS
  v1 = v1  v2 = v2  v3 = v3  v4 = v4
  x1 = x1  x2 = x2  x3 = x3
  c1 = c1  c2 = c2  a1 = a1  a2 = a2  p1 = p1
  NoVm = NoVm  NoConn = NoConn  NoCall = NoCall
  SrcIp <- SrcIp2
  Configs <- ConfigsShared
  Vm = {v1, v2, v3, v4}
  Address = {x1, x2}
  AddressOf <- FourVmsTwoAddresses
  Conn = {c1, c2}
  Ip = {a1, a2}
  Producer = {p1}
  IdWrap = 4
  SshPort = TRUE
  TelnetPort = TRUE
  UseNat = TRUE
  Recycle = FALSE
  CreateMayRaise = FALSE
  DestroyMayFail = FALSE
  ListenersMayClose = TRUE
  MaxConnected = 1
CONSTRAINT FirstIds
SYMMETRY SymVmsAttackers
INVARIANT LeasesCounted
INVARIANT NatReachesLease
PROPERTY OnlyIdleOrDeadMarked
CHECK_DEADLOCK FALSE
