SPECIFICATION Spec
SYMMETRY Sym
CONSTRAINT FewOps
CONSTANTS
    Conns = {a, b}
    Ips = {i1, i2}
    Pairs = {"p", "q"}
    Hosts = {g, h}
    Configs <- MCConfigs
    RuleFiles <- MCRuleFiles
    MinTry = 2
    MaxTry = 1
    MaxCache = 1
    MaxRequests = 1
    Window = 2
    MaxKeys = 1
    AuthTimeout = 1
    IdleTimeout = 1
    InteractiveTimeout = 1
    MaxOps = 3
    a = a
    b = b
    i1 = i1
    i2 = i2
    g = g
    h = h
INVARIANTS
    AccessInv
    FirstMatchDecides
    LimitHolds
PROPERTY EnoughTries
CHECK_DEADLOCK FALSE
