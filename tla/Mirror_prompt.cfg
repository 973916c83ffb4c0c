CONSTANTS
    MaxBlocks = 3
    MaxConns = 3
    Window = 3
    CounterMod = 10
    Prompt = TRUE
    Rejects = TRUE
SPECIFICATION FairSpec
INVARIANTS TypeOK NoLoss
PROPERTY AllConfirmed
CHECK_DEADLOCK FALSE
