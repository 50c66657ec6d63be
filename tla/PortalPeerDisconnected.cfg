CONSTANTS
    ControlConn = {c1, c2}
    NodeConn = {}
    LocalChannel = {}
    SessionId = {}
    Tag = {}
    Pid = {1}
    Name = {app}
    Serial = {1}
    AuthEndpoint = {}
    NULL = NULL
SPECIFICATION Spec
SYMMETRY Symmetry
CHECK_DEADLOCK FALSE
INVARIANTS PeersAreConnected
