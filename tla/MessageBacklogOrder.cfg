SPECIFICATION Spec
CONSTANTS
    MaxBatch = 1
    MaxClientPosts = 4
    MaxAgentPosts = 0
    MaxDisconnects = 2
INVARIANT InOrder
CHECK_DEADLOCK FALSE
