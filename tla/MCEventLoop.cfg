SPECIFICATION BaseSpec
CONSTANTS
    c1 = c1
    c2 = c2
    Contexts <- MCContexts
    None = None
    MaxQueue = 3
    MaxDepth = 5
    MaxOps = 3
INVARIANTS TypeOK NoLostWakeup NoNestedCallback NoStaleCallback IdempotentFlagExact TreesRight
PROPERTIES QueuedRunInOrder
