SPECIFICATION MCSpec
CONSTANTS
    MaxBatch = 3
    MaxClientPosts = 3
    MaxAgentPosts = 1
    MaxDisconnects = 2
INVARIANTS TypeOK ResumedBoth ResumeIsValid ConservesMessages
PROPERTIES ImplementsLog Recovers Drains StrandedInSetupOnly MigrationEnds
CHECK_DEADLOCK FALSE
