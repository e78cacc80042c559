SPECIFICATION FairSpec
CONSTANTS
  cd = cd  exit = exit  su = su  whoami = whoami  missing = missing  top = top
  vi = vi  wget = wget  df = df  ss = ss  disk = disk  sockets = sockets
  NoFact = NoFact  NoCmd = NoCmd
  Cmd <- AllCmds
  Kind <- KindOf
  Fact = {disk, sockets}
  Family <- FamilyOf
  Lines <- AllLines
  Settings <- Configurations
  MaxCommands = 2
  MaxTokens = 1
  Spend = {1}
  Window = 2
  MaxLines = 3
CHECK_DEADLOCK FALSE
INVARIANT NoLineStranded
INVARIANT WithinCommandCap
INVARIANT TokenOvershootOne
INVARIANT ClaimsTruthful
PROPERTY NoSpendAfterHangup
PROPERTY RequestValid
PROPERTY PromptReturns
