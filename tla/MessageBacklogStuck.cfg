SPECIFICATION FairSpec
CONSTANTS
    MaxBatch = 1
    MaxClientPosts = 2
    MaxAgentPosts = 0
    MaxDisconnects = 1
PROPERTY Drains
CHECK_DEADLOCK FALSE
