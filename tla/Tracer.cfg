SPECIFICATION MCSpec
CONSTANTS
    Pids = {"p1", "p2", "p3"}
    RingSize = 2
    PromptStop = FALSE
    MaxExecs = 2
INVARIANTS EventsAreOwn StoppedIsKnown
PROPERTIES TracedGoesOn
CHECK_DEADLOCK FALSE
