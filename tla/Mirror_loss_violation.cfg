CONSTANTS
    MaxBlocks = 2
    MaxConns = 2
    Window = 3
    CounterMod = 10
    Prompt = FALSE
    Rejects = FALSE
SPECIFICATION Spec
INVARIANT NoLoss
CHECK_DEADLOCK FALSE
