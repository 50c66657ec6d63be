CONSTANTS
    ControlConn = {c1, c2, a1}
    NodeConn = {n1, n2, m1, m2}
    LocalChannel = {local}
    SessionId = {s1}
    Tag = {}
    Pid = {1}
    Name = {app}
    Serial = {1}
    AuthEndpoint = {a1, m1, m2}
    NULL = NULL
SPECIFICATION Spec
SYMMETRY Symmetry
ACTION_CONSTRAINT SessionScenariosNext
CHECK_DEADLOCK FALSE
INVARIANTS TypeOK ControllerOwnership NodeOwnership UnownedExpires PeersHaveEntries
PROPERTIES TeardownReleases PersistentSurvives OrphanedOnlyByAttach
