CONSTANTS
    MaxBlocks = 3
    MaxConns = 2
    Window = 3
    CounterMod = 10
    Prompt = FALSE
    Rejects = TRUE
SPECIFICATION Spec
INVARIANT OncePerConnection
CHECK_DEADLOCK FALSE
