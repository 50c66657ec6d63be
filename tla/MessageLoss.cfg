SPECIFICATION Spec
CONSTANTS
    MaxBatch = 2
    MaxClientPosts = 2
    MaxAgentPosts = 0
    MaxDisconnects = 1
INVARIANT NothingLost
CHECK_DEADLOCK FALSE
