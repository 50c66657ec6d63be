-------------------------- MODULE PortalTypeProofs --------------------------
(* The portal keeps the types of its variables, and what its invariants depend on. *)
EXTENDS PortalService, TLAPS

\* What AgentSessionEntry's operations return is an entry.
LEMMA DetachTypes ==
    ASSUME NEW e \in AgentSessionEntry
    PROVE  /\ DetachController(e) \in AgentSessionEntry
           /\ DetachNodeAndController(e) \in AgentSessionEntry
           /\ [e EXCEPT !.session = TRUE] \in AgentSessionEntry
BY Zenon DEF AgentSessionEntry, DetachController, DetachNodeAndController

\* What the detach operations change.
LEMMA DetachFields ==
    ASSUME NEW e \in AgentSessionEntry
    PROVE  /\ DetachController(e).controller = NULL
           /\ DetachController(e).node = e.node
           /\ DetachController(e).expiry_timer = TRUE
           /\ DetachNodeAndController(e).controller = NULL
           /\ DetachNodeAndController(e).node = NULL
           /\ DetachNodeAndController(e).expiry_timer = TRUE
BY DEF AgentSessionEntry, DetachController, DetachNodeAndController

\* attach_controller () yields an entry.
LEMMA EntryController ==
    ASSUME NEW e \in AgentSessionEntry, NEW c \in Controller
    PROVE  AttachController(e, c) \in AgentSessionEntry
BY Zenon DEF AgentSessionEntry, AttachController

\* So does attach_node ().
LEMMA EntryNode ==
    ASSUME NEW e \in AgentSessionEntry, NEW n \in NodeConn
    PROVE  [e EXCEPT !.node = n] \in AgentSessionEntry
BY DEF AgentSessionEntry

\* Each part of the invariant survives a step that leaves what it speaks about alone.
LEMMA LifecycleFrame ==
    ASSUME PeerLifecycle, UNCHANGED <<wire, object, setup, connections, peers>>
    PROVE  PeerLifecycle'
BY DEF PeerLifecycle

\* The node maps depend on the nodes that are connected.
LEMMA RegisteredFrame ==
    ASSUME Registered,
           UNCHANGED <<object, connections, application, node_by_pid, node_by_identifier>>
    PROVE  Registered'
BY DEF Registered, LiveNode

\* Pending spawns depend on the gaters and the registered pids.
LEMMA SpawnsFrame ==
    ASSUME SpawnsAwaitGaters, UNCHANGED <<pending_spawn, spawn_gaters, node_by_pid>>
    PROVE  SpawnsAwaitGaters'
BY DEF SpawnsAwaitGaters

\* Gaters depend on the channels and their entries.
LEMMA GatersFrame ==
    ASSUME GatersAreControllers, UNCHANGED <<spawn_gaters, object, connections>>
    PROVE  GatersAreControllers'
BY DEF GatersAreControllers, LiveController

\* An attach () in progress depends on the session tables.
LEMMA UnopenedFrame ==
    ASSUME UnopenedIsUnknown,
           UNCHANGED <<attaching, sessions, controller_sessions, node_sessions, entry>>
    PROVE  UnopenedIsUnknown'
BY DEF UnopenedIsUnknown

\* Ownership by controllers depends on the channels and the session tables.
LEMMA ControllerFrame ==
    ASSUME ControllerOwnership, UNCHANGED <<object, sessions, controller_sessions, entry>>
    PROVE  ControllerOwnership'
BY DEF ControllerOwnership, LiveController

\* Ownership by nodes depends on the nodes and the session tables.
LEMMA NodeFrame ==
    ASSUME NodeOwnership, UNCHANGED <<object, sessions, node_sessions, entry>>
    PROVE  NodeOwnership'
BY DEF NodeOwnership, LiveNode

\* The timers depend on the entries.
LEMMA ExpiryFrame ==
    ASSUME UnownedExpires, UNCHANGED <<sessions, entry>>
    PROVE  UnownedExpires'
BY DEF UnownedExpires

\* Inactive peers leave no trace as long as nothing refers to them anew.
LEMMA TraceFrame ==
    ASSUME InactiveLeavesNoTrace, UNCHANGED <<object, setup, connections>>,
           \A c \in Conn \cup LocalChannel : Unused(c) => Unused(c)'
    PROVE  InactiveLeavesNoTrace'
BY DEF InactiveLeavesNoTrace

\* Nothing refers to a peer anew when no table changes.
LEMMA UnusedFrame ==
    ASSUME UNCHANGED <<controller_sessions, spawn_gaters, entry, node_sessions, application>>
    PROVE  \A c \in Conn \cup LocalChannel : Unused(c) => Unused(c)'
BY DEF Unused

\* The initial state is well typed.
LEMMA TypeInit == Init => TypeOK
<1> SUFFICES ASSUME Init PROVE TypeOK
  OBVIOUS
<1>1. NoEntry \in AgentSessionEntry
  BY DEF NoEntry, AgentSessionEntry
<1>2. /\ DOMAIN node_by_pid = {} /\ DOMAIN node_by_identifier = {}
      /\ DOMAIN pending_spawn = {}
  BY DEF Init
<1>3. /\ node_by_pid \in [{} -> NodeConn] /\ node_by_identifier \in [{} -> NodeConn]
      /\ pending_spawn \in [{} -> SUBSET Controller]
  BY DEF Init
<1>4. QED
  BY <1>1, <1>2, <1>3, Zenon DEF Init, TypeOK

\* Teardown () keeps the types of the tables it rewrites.
LEMMA TypeTeardown ==
    ASSUME TypeOK, NEW C \in SUBSET Controller, NEW N \in SUBSET NodeConn, Teardown(C, N)
    PROVE  /\ sessions' \subseteq SessionId
           /\ entry' \in [SessionId -> AgentSessionEntry]
           /\ controller_sessions' \in [Controller -> SUBSET SessionId]
           /\ node_sessions' \in [NodeConn -> SUBSET SessionId]
           /\ exports' \subseteq Conn \X SessionId
           /\ spawn_gaters' \subseteq Controller
           /\ DOMAIN pending_spawn' \subseteq Pid
           /\ pending_spawn' \in [DOMAIN pending_spawn' -> SUBSET Controller]
           /\ DOMAIN node_by_pid' \subseteq Pid
           /\ node_by_pid' \in [DOMAIN node_by_pid' -> NodeConn]
           /\ DOMAIN node_by_identifier' \subseteq Identifier
           /\ node_by_identifier' \in [DOMAIN node_by_identifier' -> NodeConn]
           /\ application' \in [NodeConn -> Application \cup {NoApplication}]
           /\ attaching' \in [SessionId -> {"no", "opening", "open", "closed"}]
           /\ links' \subseteq Link
           /\ aborted' \in BOOLEAN
<1>1. sessions' \subseteq SessionId
  BY DEF TypeOK, Teardown
<1>2. entry' \in [SessionId -> AgentSessionEntry]
  BY DetachTypes, Zenon DEF TypeOK, Teardown
<1>3. controller_sessions' \in [Controller -> SUBSET SessionId]
  BY DEF TypeOK, Teardown, LeaveController
<1>4. node_sessions' \in [NodeConn -> SUBSET SessionId]
  BY DEF TypeOK, Teardown, LeaveNode
<1>5. exports' \subseteq Conn \X SessionId
  BY DEF TypeOK, Teardown, Remaining
<1>6. spawn_gaters' \subseteq Controller
  BY DEF TypeOK, Teardown, StopGating
<1>7. DOMAIN pending_spawn' \subseteq Pid /\ pending_spawn' \in [DOMAIN pending_spawn' -> SUBSET Controller]
  BY DEF TypeOK, Teardown, Resumed, Without
<1>8. DOMAIN node_by_pid' \subseteq Pid /\ node_by_pid' \in [DOMAIN node_by_pid' -> NodeConn]
  BY DEF TypeOK, Teardown, Without
<1>9. DOMAIN node_by_identifier' \subseteq Identifier /\ node_by_identifier' \in [DOMAIN node_by_identifier' -> NodeConn]
  BY DEF TypeOK, Teardown, Without
<1>10. QED
  BY <1>1, <1>2, <1>3, <1>4, <1>5, <1>6, <1>7, <1>8, <1>9, Zenon DEF TypeOK, Teardown

\* Every step keeps the variables well typed.
LEMMA TypeStep == TypeOK /\ UnopenedIsUnknown /\ [Next]_vars => TypeOK'
<1> SUFFICES ASSUME TypeOK, UnopenedIsUnknown, [Next]_vars PROVE TypeOK'
  OBVIOUS
<1> USE DEF Conn
<1>1. CASE ServiceStep
  <2>1. CASE Start
    BY <2>1, Zenon DEF TypeOK, Start, NoTeardown, nodeVars, spawnVars, sessionVars
  <2>2. CASE StartFinished
    BY <2>2 DEF TypeOK, StartFinished, NoTeardown, nodeVars, spawnVars, sessionVars
  <2>3. ASSUME NEW flavor \in {"cluster", "control"}, Listen(flavor) PROVE TypeOK'
    BY <2>3 DEF TypeOK, Listen, NoTeardown, nodeVars, spawnVars, sessionVars
  <2>4. CASE Stop
    <3>1. peers \cap ControlConn \in SUBSET Controller /\ peers \cap NodeConn \in SUBSET NodeConn
      BY DEF Controller
    <3>2. QED
      BY <2>4, <3>1, TypeTeardown, Zenon DEF TypeOK, Stop
  <2>5. QED
    BY <1>1, <2>1, <2>2, <2>3, <2>4 DEF ServiceStep
<1>2. CASE ConnectionStep
  <2>1. ASSUME NEW c \in Conn, Incoming(c) PROVE TypeOK'
    BY <2>1 DEF TypeOK, Incoming, NoTeardown, nodeVars, spawnVars, sessionVars
  <2>2. ASSUME NEW c \in Conn, SetupFinished(c) PROVE TypeOK'
    BY <2>2 DEF TypeOK, SetupFinished, NoTeardown, nodeVars, spawnVars, sessionVars
  <2>3. ASSUME NEW c \in Conn, Closed(c) PROVE TypeOK'
    <3>1. {c} \cap ControlConn \in SUBSET Controller /\ {c} \cap NodeConn \in SUBSET NodeConn
      BY DEF Controller
    <3>2. CASE c \in peers /\ object[c] # "auth"
      BY <2>3, <3>1, <3>2, TypeTeardown, ZenonT(30) DEF TypeOK, Closed
    <3>3. CASE ~(c \in peers /\ object[c] # "auth")
      BY <2>3, <3>3 DEF TypeOK, Closed, NoTeardown, nodeVars, spawnVars, sessionVars
    <3>4. QED
      BY <3>2, <3>3
  <2>4. ASSUME NEW c \in Conn, Authenticate(c) PROVE TypeOK'
    BY <2>4 DEF TypeOK, Authenticate, NoTeardown, nodeVars, spawnVars, sessionVars
  <2>5. ASSUME NEW c \in Conn, Authenticated(c) PROVE TypeOK'
    BY <2>5 DEF TypeOK, Authenticated, NoTeardown, nodeVars, spawnVars, sessionVars
  <2>6. ASSUME NEW c \in Conn, AuthenticationFailed(c) PROVE TypeOK'
    BY <2>6 DEF TypeOK, AuthenticationFailed, NoTeardown, nodeVars, spawnVars, sessionVars
  <2>7. ASSUME NEW c \in Conn, NEW t \in Tag, AddTag(c, t) PROVE TypeOK'
    BY <2>7 DEF TypeOK, AddTag, NoTeardown, nodeVars, spawnVars, sessionVars
  <2>8. ASSUME NEW c \in Conn, NEW t \in Tag, RemoveTag(c, t) PROVE TypeOK'
    BY <2>8 DEF TypeOK, RemoveTag, NoTeardown, nodeVars, spawnVars, sessionVars
  <2>9. ASSUME NEW l \in LocalChannel, CreateLocal(l) PROVE TypeOK'
    BY <2>9 DEF TypeOK, CreateLocal, NoTeardown, nodeVars, spawnVars, sessionVars
  <2>10. ASSUME NEW l \in LocalChannel, DestroyLocal(l) PROVE TypeOK'
    <3>1. {l} \in SUBSET Controller /\ {} \in SUBSET NodeConn
      BY DEF Controller
    <3>2. QED
      BY <2>10, <3>1, TypeTeardown, Zenon DEF TypeOK, DestroyLocal
  <2>11. QED
    BY <1>2, <2>1, <2>2, <2>3, <2>4, <2>5, <2>6, <2>7, <2>8, <2>9, <2>10 DEF ConnectionStep
<1>3. CASE SpawnStep
  <2>1. ASSUME NEW c \in Controller, EnableSpawnGating(c) PROVE TypeOK'
    BY <2>1 DEF TypeOK, EnableSpawnGating, connVars, nodeVars, sessionVars
  <2>2. ASSUME NEW c \in Controller, DisableSpawnGating(c) PROVE TypeOK'
    BY <2>2 DEF TypeOK, DisableSpawnGating, Resumed, connVars, nodeVars, sessionVars
  <2>3. ASSUME NEW c \in Controller, NEW p \in Pid, Resume(c, p) PROVE TypeOK'
    BY <2>3 DEF TypeOK, Resume, Resumed, connVars, nodeVars, sessionVars
  <2>4. QED
    BY <1>3, <2>1, <2>2, <2>3 DEF SpawnStep
<1>4. CASE NodeStep
  <2>1. ASSUME NEW n \in NodeConn, NEW ids \in SUBSET SessionId, Reclaim(n, ids)
        PROVE  /\ entry' \in [SessionId -> AgentSessionEntry]
               /\ node_sessions' \in [NodeConn -> SUBSET SessionId]
    BY <2>1, EntryNode DEF TypeOK, Reclaim
  <2>2. ASSUME NEW n \in NodeConn, NEW acl \in Acl, Announce(n, acl)
        PROVE  tags' \in [Conn -> {NULL} \cup SUBSET Tag]
    BY <2>2 DEF TypeOK, Announce, Acl
  <2>3. ASSUME NEW n \in NodeConn, NEW pid \in Pid, NEW identifier \in Identifier,
               NEW suspended \in BOOLEAN, NEW acl \in Acl, NEW interrupted \in SUBSET Live,
               Join(n, pid, identifier, suspended, acl, interrupted)
        PROVE  TypeOK'
    <3>1. /\ entry' \in [SessionId -> AgentSessionEntry]
          /\ node_sessions' \in [NodeConn -> SUBSET SessionId]
          /\ tags' \in [Conn -> {NULL} \cup SUBSET Tag]
      BY <2>1, <2>2, <2>3 DEF Join, TypeOK
    <3>2. application' \in [NodeConn -> Application \cup {NoApplication}]
      BY <2>3 DEF Join, TypeOK, Application
    <3>3. /\ DOMAIN node_by_pid' \subseteq Pid
          /\ node_by_pid' \in [DOMAIN node_by_pid' -> NodeConn]
      BY <2>3 DEF Join, TypeOK
    <3>4. /\ DOMAIN node_by_identifier' \subseteq Identifier
          /\ node_by_identifier' \in [DOMAIN node_by_identifier' -> NodeConn]
      BY <2>3 DEF Join, TypeOK
    <3>5. /\ DOMAIN pending_spawn' \subseteq Pid
          /\ pending_spawn' \in [DOMAIN pending_spawn' -> SUBSET Controller]
      BY <2>3 DEF Join, TypeOK
    <3>6. QED
      BY <2>3, <3>1, <3>2, <3>3, <3>4, <3>5 DEF Join, Reclaim, TypeOK
  <2>4. ASSUME NEW n \in NodeConn, NEW acl \in Acl, NEW interrupted \in SUBSET Live,
               JoinRejected(n, acl, interrupted)
        PROVE  TypeOK'
    <3>1. /\ entry' \in [SessionId -> AgentSessionEntry]
          /\ node_sessions' \in [NodeConn -> SUBSET SessionId]
          /\ tags' \in [Conn -> {NULL} \cup SUBSET Tag]
      BY <2>1, <2>2, <2>4 DEF JoinRejected, TypeOK
    <3>2. QED
      BY <2>4, <3>1 DEF JoinRejected, Reclaim, TypeOK, nodeVars, spawnVars
  <2>5. ASSUME NEW n \in NodeConn, NEW id \in SessionId, SessionClosed(n, id) PROVE TypeOK'
    BY <2>5 DEF TypeOK, SessionClosed, LeaveController, Remaining, connVars, nodeVars, spawnVars
  <2>6. QED
    BY <1>4, <2>3, <2>4, <2>5 DEF NodeStep
<1>5. CASE SessionStep
  <2>1. ASSUME NEW c \in Controller, NEW p \in Pid, NEW id \in SessionId,
               NEW persist \in BOOLEAN, Attach(c, p, id, persist)
        PROVE  TypeOK'
    BY <2>1 DEF TypeOK, Attach, AgentSessionEntry, connVars, nodeVars, spawnVars
  <2>2. ASSUME NEW id \in SessionId, Opened(id) PROVE TypeOK'
    <3>1. entry[id] \in AgentSessionEntry /\ attaching[id] = "opening"
      BY <2>2 DEF TypeOK, Opened
    <3>2. entry[id].node \in NodeConn /\ entry[id].controller \in Controller
      BY <3>1 DEF UnopenedIsUnknown, AgentSessionEntry
    <3>3. links' \subseteq Link
      BY <2>2, <3>2 DEF TypeOK, Opened, Link
    <3>4. QED
      BY <2>2, <3>2, <3>3 DEF TypeOK, Opened, connVars, nodeVars, spawnVars
  <2>3. ASSUME NEW id \in SessionId, OpenFailed(id) PROVE TypeOK'
    BY <2>3 DEF TypeOK, OpenFailed, connVars, nodeVars, spawnVars
  <2>4. ASSUME NEW id \in SessionId, Expired(id) PROVE TypeOK'
    BY <2>4 DEF TypeOK, Expired, LeaveNode, Remaining, connVars, nodeVars, spawnVars
  <2>5. ASSUME NEW c \in Controller, NEW id \in SessionId, Reattach(c, id) PROVE TypeOK'
    <3>1. entry[id] \in AgentSessionEntry /\ entry[id].node \in NodeConn
      BY <2>5 DEF TypeOK, Reattach, AgentSessionEntry
    <3>2. links' \subseteq Link
      BY <2>5, <3>1 DEF TypeOK, Reattach, Link, Controller
    <3>3. entry' \in [SessionId -> AgentSessionEntry]
      BY <2>5, <3>1, EntryController DEF TypeOK, Reattach
    <3>4. QED
      BY <2>5, <3>2, <3>3 DEF TypeOK, Reattach, connVars, nodeVars, spawnVars
  <2>6. ASSUME NEW c \in LocalChannel, NEW id \in SessionId, UnlinkAgentSession(c, id)
        PROVE  TypeOK'
    BY <2>6 DEF TypeOK, UnlinkAgentSession, connVars, nodeVars, spawnVars
  <2>7. ASSUME NEW l \in links, SessionLinked(l) PROVE TypeOK'
    <3>1. l \in Link /\ l.id \in SessionId
      BY DEF TypeOK, Link
    <3>2. [l EXCEPT !.stage = IF l.requester \in LocalChannel THEN "provider" ELSE "sink_proxy"]
             \in Link
      BY <3>1 DEF Link, Controller
    <3>3. links' \subseteq Link
      BY <2>7, <3>2 DEF TypeOK, SessionLinked
    <3>4. entry' \in [SessionId -> AgentSessionEntry]
      BY <2>7, <3>1, DetachTypes DEF TypeOK, SessionLinked
    <3>5. QED
      BY <2>7, <3>3, <3>4 DEF TypeOK, SessionLinked, Remaining, connVars, nodeVars, spawnVars
  <2>8. ASSUME NEW l \in links, SinkLinked(l) PROVE TypeOK'
    <3>1. l.id \in SessionId /\ {l.requester, l.node} \subseteq Conn
      BY <2>8 DEF TypeOK, SinkLinked, Link
    <3>2. QED
      BY <2>8, <3>1 DEF TypeOK, SinkLinked, Export, Remaining, connVars, nodeVars, spawnVars
  <2>9. ASSUME NEW l \in links, LinkAgentSession(l) PROVE TypeOK'
    <3>1. l.id \in SessionId /\ entry[l.id] \in AgentSessionEntry
      BY DEF TypeOK, Link
    <3>2. CASE entry[l.id].node # NULL /\ Export(l, {entry[l.id].node})
      <4>1. {entry[l.id].node} \subseteq Conn
        BY <3>1, <3>2 DEF AgentSessionEntry
      <4>2. QED
        BY <3>1, <3>2, <4>1 DEF TypeOK, Export, Remaining, connVars, nodeVars, spawnVars
    <3>3. CASE Dropped(l)
      BY <3>3 DEF TypeOK, Dropped, connVars, nodeVars, spawnVars
    <3>4. CASE /\ aborted' = TRUE
               /\ UNCHANGED <<sessions, entry, controller_sessions, node_sessions, attaching,
                              links, exports, connVars, nodeVars, spawnVars>>
      BY <3>4 DEF TypeOK, connVars, nodeVars, spawnVars
    <3>5. QED
      BY <2>9, <3>2, <3>3, <3>4, Zenon DEF LinkAgentSession
  <2>10. ASSUME NEW l \in links, LinkCancelled(l) PROVE TypeOK'
    BY <2>10 DEF TypeOK, LinkCancelled, Dropped, connVars, nodeVars, spawnVars
  <2>11. QED
    BY <1>5, <2>1, <2>2, <2>3, <2>4, <2>5, <2>6, <2>7, <2>8, <2>9, <2>10 DEF SessionStep
<1>6. CASE UNCHANGED vars
  BY <1>6 DEF TypeOK, vars, connVars, nodeVars, spawnVars, sessionVars
<1>7. QED
  BY <1>1, <1>2, <1>3, <1>4, <1>5, <1>6 DEF Next
=============================================================================
