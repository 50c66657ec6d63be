CONSTANTS
    ControlConn = {c1}
    NodeConn = {n1, n2}
    LocalChannel = {local}
    SessionId = {}
    Tag = {t}
    Pid = {1, 2}
    Name = {app}
    Serial = {1, 2}
    AuthEndpoint = {}
    NULL = NULL
SPECIFICATION Spec
SYMMETRY Symmetry
CONSTRAINT NoRestart
CHECK_DEADLOCK FALSE
INVARIANTS Registered SpawnsAwaitGaters GatersAreControllers
