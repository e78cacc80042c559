CONSTANTS
    Text <- Lines
    Execs <- First
    Typed <- TypedLines
    MaxKeys = 2
SPECIFICATION ShellSpec
INVARIANTS
    ShellInv
    
PROPERTY ShellSettles
CHECK_DEADLOCK FALSE
