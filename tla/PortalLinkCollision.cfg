CONSTANTS
    ControlConn = {c1, c2, c3}
    NodeConn = {n1}
    LocalChannel = {}
    SessionId = {s1}
    Tag = {}
    Pid = {1}
    Name = {app}
    Serial = {1}
    AuthEndpoint = {}
    NULL = NULL
SPECIFICATION Spec
SYMMETRY Symmetry
CONSTRAINT SessionsOnly
CHECK_DEADLOCK FALSE
INVARIANTS NeverAborts
