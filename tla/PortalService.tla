--------------------------- MODULE PortalService ---------------------------
(***************************************************************************)
(* The portal of src/src/portal-service.vala: cluster nodes (instrumented  *)
(* processes) join it over one endpoint, controllers over another, and it  *)
(* brokers agent sessions and spawn gating between them.                   *)
(*                                                                         *)
(* The service runs on one main context: the code between two `yield`s is  *)
(* one step here, and every `yield` ends a step.  A connection object is   *)
(* never reused, so a connection id stands for the DBusConnection, for its *)
(* ConnectionEntry and for the peer objects exported on it.                *)
(***************************************************************************)
EXTENDS Naturals, FiniteSets

CONSTANTS
    ControlConn,    \* connections to the control endpoint
    NodeConn,       \* connections to the cluster endpoint
    LocalChannel,   \* ControlChannels without a connection (PortalService.device)
    SessionId,      \* AgentSessionId.generate () draws from these
    Tag,            \* strings used as connection tags and ACL entries
    Pid,            \* pids a node can report or be given when it joins
    Name,           \* identifiers that nodes report when they join
    Serial,         \* numbers that tell apart nodes of the same identifier
    AuthEndpoint,   \* connections whose EndpointParameters have an auth_service
    NULL

Conn == ControlConn \cup NodeConn

Controller == ControlConn \cup LocalChannel

ASSUME DisjointPeers ==
    /\ ControlConn \cap NodeConn = {}
    /\ LocalChannel \cap Conn = {}
    /\ NULL \notin Conn \cup LocalChannel
    /\ \A T \in SUBSET Tag : T # NULL

ASSUME NaturalPids == Pid \subseteq Nat \ {0} /\ Serial \subseteq Nat \ {0}

VARIABLES
    state,              \* PortalService.state
    listening,          \* flavors whose WebService accepts connections
    io_cancelled,       \* io_cancellable was cancelled and not replaced since
    wire,               \* is the DBusConnection not yet made, open or closed
    object,             \* the Peer exported on a connection (or local channel)
    setup,              \* the coroutine of a connection's set-up, if one is suspended
    connections,        \* keys of `connections`
    peers,              \* keys of `peers`
    tags,               \* ConnectionEntry.tags, NULL when never assigned
    application,        \* ClusterNode.application
    node_by_pid,
    node_by_identifier,
    spawn_gaters,
    pending_spawn,      \* pid -> pending_approvers
    sessions,           \* keys of `sessions`
    entry,              \* the AgentSessionEntry objects
    controller_sessions, \* ControlChannel.sessions
    node_sessions,      \* ClusterNode.sessions
    attaching,          \* progress of the attach () that generated an id
    links,              \* suspended link_session () coroutines
    exports,            \* sessions and sinks exported by link_session (), by connection
    aborted             \* an assertion of the service failed

connVars == <<state, listening, io_cancelled, wire, object, setup, connections, peers, tags>>
nodeVars == <<application, node_by_pid, node_by_identifier>>
spawnVars == <<spawn_gaters, pending_spawn>>
sessionVars == <<sessions, entry, controller_sessions, node_sessions, attaching,
                 links, exports, aborted>>
vars == <<connVars, nodeVars, spawnVars, sessionVars>>
-----------------------------------------------------------------------------
(* Types *)

Identifier == Name \X Serial

Application == [pid : Pid, identifier : Identifier]

NoApplication == [pid |-> 0, identifier |-> NULL]

AgentSessionEntry ==
    [node : NodeConn \cup {NULL}, controller : Controller \cup {NULL},
     session : BOOLEAN, persist : BOOLEAN, expiry_timer : BOOLEAN]

Link ==
    [id : SessionId, requester : Controller, node : NodeConn,
     stage : {"session_proxy", "provider"}]
    \cup [id : SessionId, requester : ControlConn, node : NodeConn, stage : {"sink_proxy"}]

NoEntry == [node |-> NULL, controller |-> NULL, session |-> FALSE,
            persist |-> FALSE, expiry_timer |-> FALSE]

\* Type of every variable of the service.
TypeOK ==
    /\ state \in {"STOPPED", "STARTING", "STARTED"}
    /\ listening \subseteq {"cluster", "control"}
    /\ io_cancelled \in BOOLEAN
    /\ wire \in [Conn -> {"new", "open", "closed"}]
    /\ object \in [Conn \cup LocalChannel -> {"none", "auth", "control", "node", "closed"}]
    /\ setup \in [Conn -> {"none", "authenticating", "setting_up"}]
    /\ connections \subseteq Conn
    /\ peers \subseteq Conn
    /\ tags \in [Conn -> {NULL} \cup SUBSET Tag]
    /\ application \in [NodeConn -> Application \cup {NoApplication}]
    /\ DOMAIN node_by_pid \subseteq Pid
    /\ node_by_pid \in [DOMAIN node_by_pid -> NodeConn]
    /\ DOMAIN node_by_identifier \subseteq Identifier
    /\ node_by_identifier \in [DOMAIN node_by_identifier -> NodeConn]
    /\ spawn_gaters \subseteq Controller
    /\ DOMAIN pending_spawn \subseteq Pid
    /\ pending_spawn \in [DOMAIN pending_spawn -> SUBSET Controller]
    /\ sessions \subseteq SessionId
    /\ entry \in [SessionId -> AgentSessionEntry]
    /\ controller_sessions \in [Controller -> SUBSET SessionId]
    /\ node_sessions \in [NodeConn -> SUBSET SessionId]
    /\ attaching \in [SessionId -> {"no", "opening", "open", "closed"}]
    /\ links \subseteq Link
    /\ exports \subseteq Conn \X SessionId
    /\ aborted \in BOOLEAN
-----------------------------------------------------------------------------
Init ==
    /\ state = "STOPPED"
    /\ listening = {}
    /\ io_cancelled = FALSE
    /\ wire = [c \in Conn |-> "new"]
    /\ object = [c \in Conn \cup LocalChannel |-> "none"]
    /\ setup = [c \in Conn |-> "none"]
    /\ connections = {}
    /\ peers = {}
    /\ tags = [c \in Conn |-> NULL]
    /\ application = [n \in NodeConn |-> NoApplication]
    /\ node_by_pid = [p \in {} |-> NULL]
    /\ node_by_identifier = [i \in {} |-> NULL]
    /\ spawn_gaters = {}
    /\ pending_spawn = [p \in {} |-> {}]
    /\ sessions = {}
    /\ entry = [id \in SessionId |-> NoEntry]
    /\ controller_sessions = [c \in Controller |-> {}]
    /\ node_sessions = [n \in NodeConn |-> {}]
    /\ attaching = [id \in SessionId |-> "no"]
    /\ links = {}
    /\ exports = {}
    /\ aborted = FALSE
-----------------------------------------------------------------------------
(* Helpers *)

\* A peer's D-Bus methods can be called: its objects are exported and its
\* connection is up.  A local channel is called directly.
Callable(c) ==
    /\ object[c] = "control"
    /\ c \in ControlConn => wire[c] = "open"

\* can_access () and the filter of all_spawn_gaters_with_access_to ().
CanAccess(n, c) ==
    IF c \in LocalChannel \/ tags[n] = NULL
    THEN TRUE
    ELSE tags[c] # NULL /\ tags[n] \cap tags[c] # {}

\* The entry object is referenced by the map or by a suspended link_session ().
Referenced(ids, pending) ==
    ids \cup {l.id : l \in {k \in pending : k.stage # "provider"}}

\* What stays exported of X once the sessions in `detached` ran unregister_all ()
\* and the entries that are no longer referenced were destroyed, which does the
\* same.  Both only reach the connections of the entry's current node and controller.
Remaining(X, detached, ids, pending) ==
    {x \in X : ~(/\ x[2] \in detached \/ x[2] \notin Referenced(ids, pending)
                 /\ x[1] \in {entry[x[2]].node, entry[x[2]].controller})}

\* Faulty variants of the definitions below, each a plausible slip: the properties
\* at the end of the module tell them from the code.
LeaveNobody(ids) == controller_sessions

LeaveNoNode(ids) == node_sessions

DetachWithoutTimer(e) == [e EXCEPT !.controller = NULL]

DetachNothing(e) == [e EXCEPT !.expiry_timer = TRUE]

AttachWithoutStoppingTimer(e, c) == [e EXCEPT !.controller = c]

ResumedNever(P, C) ==
    [p \in DOMAIN pending_spawn |-> IF p \in P THEN pending_spawn[p] \ C ELSE pending_spawn[p]]

DropsPersistent(id) == ~entry[id].persist \/ entry[id].controller # NULL

KeepGating(C) == spawn_gaters

\* Sets of session ids after controller.sessions.remove () or node.sessions.remove ()
\* for each of the ids.
LeaveController(ids) ==
    [c \in Controller |-> controller_sessions[c] \ {id \in ids : entry[id].controller = c}]

LeaveNode(ids) ==
    [n \in NodeConn |-> node_sessions[n] \ {id \in ids : entry[id].node = n}]

\* AgentSessionEntry.detach_controller (), detach_node_and_controller () and
\* attach_controller ().
DetachController(e) == [e EXCEPT !.controller = NULL, !.expiry_timer = TRUE]

DetachNodeAndController(e) ==
    [e EXCEPT !.session = FALSE, !.controller = NULL, !.node = NULL, !.expiry_timer = TRUE]

AttachController(e, c) == [e EXCEPT !.controller = c, !.expiry_timer = FALSE]

\* resume () of every pid in P on behalf of the requesters in C.
Resumed(P, C) ==
    [p \in {q \in DOMAIN pending_spawn : ~(q \in P /\ pending_spawn[q] \subseteq C)}
        |-> IF p \in P THEN pending_spawn[p] \ C ELSE pending_spawn[p]]

Without(f, S) == [x \in DOMAIN f \ S |-> f[x]]
-----------------------------------------------------------------------------
(* teardown_control_channel () and disable_spawn_gating () for every channel *)
(* in C, teardown_cluster_node () for every node in N.                       *)

Drops(id) == ~entry[id].persist \/ ~entry[id].session

StopGating(C) == spawn_gaters \ C

Teardown(C, N) ==
    LET ofControllers == UNION {controller_sessions[c] : c \in C}
        ofNodes == UNION {node_sessions[n] : n \in N}
        dropped == {id \in ofControllers \cup ofNodes : Drops(id)}
        kept == (ofControllers \cup ofNodes) \ dropped
        leaving == {n \in N : application[n] # NoApplication}
        pids == {application[n].pid : n \in leaving}
        gaters == C \cap spawn_gaters
        resumed == Resumed(IF gaters = {} THEN {} ELSE DOMAIN pending_spawn, gaters)
    IN  /\ sessions' = sessions \ dropped
        /\ entry' = [id \in SessionId |->
              IF id \in kept \cap ofNodes THEN DetachNodeAndController(entry[id])
              ELSE IF id \in kept THEN DetachController(entry[id])
              ELSE entry[id]]
        /\ controller_sessions' = LeaveController(ofNodes)
        /\ node_sessions' = LeaveNode(dropped \cap ofControllers)
        /\ exports' = Remaining(exports, kept, sessions \ dropped, links)
        /\ spawn_gaters' = StopGating(C)
        /\ pending_spawn' = Without(resumed, pids)
        /\ node_by_pid' = Without(node_by_pid, pids)
        /\ node_by_identifier' =
              Without(node_by_identifier, {application[n].identifier : n \in leaving})
        /\ UNCHANGED <<application, attaching, links, aborted>>

NoTeardown == UNCHANGED <<nodeVars, spawnVars, sessionVars>>
-----------------------------------------------------------------------------
(* The service and its connections *)

Start ==
    /\ state = "STOPPED"
    /\ state' = "STARTING"
    /\ io_cancelled' = FALSE
    /\ UNCHANGED <<listening, wire, object, setup, connections, peers, tags>>
    /\ NoTeardown

\* The cluster services are started before the control services.
Listen(flavor) ==
    /\ state = "STARTING"
    /\ flavor = "control" => "cluster" \in listening
    /\ listening' = listening \cup {flavor}
    /\ UNCHANGED <<state, io_cancelled, wire, object, setup, connections, peers, tags>>
    /\ NoTeardown

\* start () fails when a service cannot bind; those already started keep listening.
StartFinished ==
    /\ state = "STARTING"
    /\ \/ state' = "STARTED" /\ listening = {"cluster", "control"}
       \/ state' = "STOPPED"
    /\ UNCHANGED <<listening, io_cancelled, wire, object, setup, connections, peers, tags>>
    /\ NoTeardown

StopWithoutTeardown ==
    /\ state = "STARTED"
    /\ state' = "STOPPED"
    /\ listening' = {}
    /\ io_cancelled' = TRUE
    /\ object' = [c \in Conn \cup LocalChannel |-> IF c \in peers THEN "closed" ELSE object[c]]
    /\ peers' = {}
    /\ UNCHANGED <<wire, setup, connections, tags>>
    /\ NoTeardown

\* stop () closes every peer; the web services close the sockets on the D-Bus
\* thread, so the connections report their closure after `peers` was cleared.
\* Cancelling io_cancellable makes a get_proxy () of setup_cluster_node () fail.
Stop ==
    /\ state = "STARTED"
    /\ state' = "STOPPED"
    /\ listening' = {}
    /\ io_cancelled' = TRUE
    /\ Teardown(peers \cap ControlConn, peers \cap NodeConn)
    /\ object' = [c \in Conn \cup LocalChannel |->
          IF c \in peers \/ (c \in NodeConn /\ setup[c] = "setting_up")
          THEN "closed" ELSE object[c]]
    /\ setup' = [c \in Conn |->
          IF c \in NodeConn /\ setup[c] = "setting_up" THEN "none" ELSE setup[c]]
    /\ peers' = {}
    /\ UNCHANGED <<wire, connections, tags>>

\* handle_incoming_connection () once the DBusConnection exists: the entry is
\* registered, and the peer is installed at once when it has to authenticate.
Incoming(c) ==
    /\ (IF c \in NodeConn THEN "cluster" ELSE "control") \in listening
    /\ wire[c] = "new"
    /\ wire' = [wire EXCEPT ![c] = "open"]
    /\ connections' = connections \cup {c}
    /\ IF c \in AuthEndpoint
       THEN /\ object' = [object EXCEPT ![c] = "auth"]
            /\ peers' = peers \cup {c}
            /\ UNCHANGED setup
       ELSE /\ object' = [object EXCEPT ![c] = IF c \in NodeConn THEN "node" ELSE "control"]
            /\ setup' = [setup EXCEPT ![c] = "setting_up"]
            /\ UNCHANGED peers
    /\ UNCHANGED <<state, listening, io_cancelled, tags>>
    /\ NoTeardown

SetupFinishedUnchecked(c) ==
    /\ setup[c] = "setting_up"
    /\ setup' = [setup EXCEPT ![c] = "none"]
    /\ peers' = peers \cup {c}
    /\ UNCHANGED <<state, listening, io_cancelled, wire, object, connections, tags>>
    /\ NoTeardown

\* The rest of handle_incoming_connection () or promote_authentication_channel ()
\* after setup_authorized_peer () yielded: install the peer if its entry is there.
SetupFinished(c) ==
    /\ setup[c] = "setting_up"
    /\ setup' = [setup EXCEPT ![c] = "none"]
    /\ IF c \in connections
       THEN peers' = peers \cup {c} /\ UNCHANGED object
       ELSE object' = [object EXCEPT ![c] = "closed"] /\ UNCHANGED peers
    /\ UNCHANGED <<state, listening, io_cancelled, wire, connections, tags>>
    /\ NoTeardown

\* A client calls AuthenticationChannel.authenticate (), one call at a time.
Authenticate(c) ==
    /\ object[c] = "auth" /\ wire[c] = "open" /\ setup[c] = "none"
    /\ setup' = [setup EXCEPT ![c] = "authenticating"]
    /\ UNCHANGED <<state, listening, io_cancelled, wire, object, connections, peers, tags>>
    /\ NoTeardown

\* The auth_service accepted the token: promote_authentication_channel () up to
\* the yield of setup_authorized_peer (), which fails at once for a node whose
\* get_proxy () is handed a cancelled io_cancellable.
Authenticated(c) ==
    LET fails == c \in NodeConn /\ io_cancelled
    IN  /\ setup[c] = "authenticating"
        /\ peers' = peers \ {c}
        /\ object' = [object EXCEPT ![c] =
              IF fails THEN "closed" ELSE IF c \in NodeConn THEN "node" ELSE "control"]
        /\ setup' = [setup EXCEPT ![c] = IF fails THEN "none" ELSE "setting_up"]
        /\ UNCHANGED <<state, listening, io_cancelled, wire, connections, tags>>
        /\ NoTeardown

\* The auth_service refused the token or failed; a refusal also kicks the client,
\* which Closed covers.
AuthenticationFailed(c) ==
    /\ setup[c] = "authenticating"
    /\ setup' = [setup EXCEPT ![c] = "none"]
    /\ UNCHANGED <<state, listening, io_cancelled, wire, object, connections, peers, tags>>
    /\ NoTeardown

\* on_connection_closed (): the peer vanished, its ping timer fired, kick () or
\* the web service closed the connection.
Closed(c) ==
    /\ wire[c] = "open"
    /\ wire' = [wire EXCEPT ![c] = "closed"]
    /\ IF c \in peers
       THEN /\ peers' = peers \ {c}
            /\ connections' = connections \ {c}
            /\ object' = [object EXCEPT ![c] = "closed"]
            /\ IF object[c] = "auth" THEN NoTeardown
               ELSE Teardown({c} \cap ControlConn, {c} \cap NodeConn)
       ELSE UNCHANGED <<peers, connections, object>> /\ NoTeardown
    /\ UNCHANGED <<state, listening, io_cancelled, setup, tags>>

\* PortalHostSessionProvider.create () and destroy ().
CreateLocal(l) ==
    /\ \A k \in LocalChannel : object[k] # "control"
    /\ object[l] = "none"
    /\ object' = [object EXCEPT ![l] = "control"]
    /\ UNCHANGED <<state, listening, io_cancelled, wire, setup, connections, peers, tags>>
    /\ NoTeardown

DestroyLocal(l) ==
    /\ object[l] = "control"
    /\ object' = [object EXCEPT ![l] = "closed"]
    /\ Teardown({l}, {})
    /\ UNCHANGED <<state, listening, io_cancelled, wire, setup, connections, peers, tags>>

\* do_tag () and do_untag () on an entry.
AddTag(c, t) ==
    /\ c \in connections
    /\ tags' = [tags EXCEPT ![c] = (IF @ = NULL THEN {} ELSE @) \cup {t}]
    /\ UNCHANGED <<state, listening, io_cancelled, wire, object, setup, connections, peers>>
    /\ NoTeardown

RemoveTag(c, t) ==
    /\ c \in connections
    /\ tags[c] # NULL
    /\ tags' = [tags EXCEPT ![c] = @ \ {t}]
    /\ UNCHANGED <<state, listening, io_cancelled, wire, object, setup, connections, peers>>
    /\ NoTeardown
-----------------------------------------------------------------------------
(* Spawn gating and cluster membership *)

EnableSpawnGating(c) ==
    /\ Callable(c)
    /\ spawn_gaters' = spawn_gaters \cup {c}
    /\ pending_spawn' = [p \in DOMAIN pending_spawn |->
          IF CanAccess(node_by_pid[p], c) THEN pending_spawn[p] \cup {c} ELSE pending_spawn[p]]
    /\ UNCHANGED <<connVars, nodeVars, sessionVars>>

DisableSpawnGating(c) ==
    /\ Callable(c)
    /\ c \in spawn_gaters
    /\ spawn_gaters' = spawn_gaters \ {c}
    /\ pending_spawn' = Resumed(DOMAIN pending_spawn, {c})
    /\ UNCHANGED <<connVars, nodeVars, sessionVars>>

Resume(c, p) ==
    /\ Callable(c)
    /\ p \in DOMAIN pending_spawn
    /\ pending_spawn' = Resumed({p}, {c})
    /\ UNCHANGED <<spawn_gaters, connVars, nodeVars, sessionVars>>

AnyPid(reported, pid) == pid = reported

\* handle_join_request () probes upwards from the reported pid ...
FirstFreePid(reported, pid) ==
    /\ pid >= reported /\ pid \notin DOMAIN node_by_pid
    /\ reported .. pid - 1 \subseteq DOMAIN node_by_pid

\* ... and, when the reported identifier is taken, appends [2], [3], ... to it.
FirstFreeIdentifier(name, serial) ==
    /\ <<name, serial>> \notin DOMAIN node_by_identifier
    /\ \A k \in 1 .. serial - 1 : <<name, k>> \in DOMAIN node_by_identifier

\* The ACL a node announces is added to its entry's tags, before anything can fail.
Announce(n, acl) ==
    tags' = [tags EXCEPT ![n] =
        IF acl = NULL THEN @ ELSE (IF @ = NULL THEN {} ELSE @) \cup acl]

\* attach_node () for each session a node reclaims.
Reclaim(n, ids) ==
    /\ entry' = [id \in SessionId |->
          IF id \in ids THEN [entry[id] EXCEPT !.node = n] ELSE entry[id]]
    /\ node_sessions' = [node_sessions EXCEPT ![n] = @ \cup ids]
    /\ UNCHANGED <<sessions, controller_sessions, attaching, links, exports, aborted>>

\* A node joins, having reported the sessions in `interrupted`.
Join(n, pid, identifier, suspended, acl, interrupted) ==
    LET known == interrupted \cap sessions
    IN  /\ n \in peers /\ object[n] = "node" /\ wire[n] = "open"
        /\ application[n] = NoApplication
        /\ \A id \in known : entry[id].node = NULL
        /\ \E reported \in Pid : FirstFreePid(reported, pid)
        /\ FirstFreeIdentifier(identifier[1], identifier[2])
        /\ Announce(n, acl)
        /\ Reclaim(n, known)
        /\ application' = [application EXCEPT ![n] = [pid |-> pid, identifier |-> identifier]]
        /\ node_by_pid' = [q \in DOMAIN node_by_pid \cup {pid} |->
              IF q = pid THEN n ELSE node_by_pid[q]]
        /\ node_by_identifier' = [i \in DOMAIN node_by_identifier \cup {identifier} |->
              IF i = identifier THEN n ELSE node_by_identifier[i]]
        /\ LET gaters == {c \in spawn_gaters : CanAccess(n, c)'}
           IN  pending_spawn' = IF suspended /\ gaters # {}
                                THEN [q \in DOMAIN pending_spawn \cup {pid} |->
                                        IF q = pid THEN gaters ELSE pending_spawn[q]]
                                ELSE pending_spawn
        /\ UNCHANGED <<state, listening, io_cancelled, wire, object, setup, connections,
                       peers, spawn_gaters>>

\* A reported session still has a node: join fails, having reclaimed the sessions
\* that were reported before it.
JoinRejected(n, acl, interrupted) ==
    /\ n \in peers /\ object[n] = "node" /\ wire[n] = "open"
    /\ application[n] = NoApplication
    /\ \E id \in interrupted \cap sessions : entry[id].node # NULL
    /\ Announce(n, acl)
    /\ \E ids \in SUBSET {id \in interrupted \cap sessions : entry[id].node = NULL} :
          Reclaim(n, ids)
    /\ UNCHANGED <<state, listening, io_cancelled, wire, object, setup, connections, peers,
                   nodeVars, spawnVars>>
-----------------------------------------------------------------------------
(* Agent sessions *)

AttachToPid(c, p, id, persist) ==
    /\ Callable(c)
    /\ p \in DOMAIN node_by_pid
    /\ attaching[id] = "no"
    /\ attaching' = [attaching EXCEPT ![id] = "opening"]
    /\ entry' = [entry EXCEPT ![id].node = p, ![id].controller = c]
    /\ UNCHANGED <<sessions, controller_sessions, node_sessions, links, exports, aborted,
                   connVars, nodeVars, spawnVars>>

\* attach () up to the yield of open_session ().  The entry is filled in here
\* with what the coroutine captured; it enters the map in Opened.
Attach(c, p, id, persist) ==
    /\ Callable(c)
    /\ p \in DOMAIN node_by_pid
    /\ CanAccess(node_by_pid[p], c)
    /\ attaching[id] = "no"
    /\ attaching' = [attaching EXCEPT ![id] = "opening"]
    /\ entry' = [entry EXCEPT ![id] =
          [node |-> node_by_pid[p], controller |-> c, session |-> FALSE,
           persist |-> persist, expiry_timer |-> FALSE]]
    /\ UNCHANGED <<sessions, controller_sessions, node_sessions, links, exports, aborted,
                   connVars, nodeVars, spawnVars>>

\* The node opened the session: the rest of attach () up to the first yield of
\* link_session ().
Opened(id) ==
    LET n == entry[id].node
        c == entry[id].controller
    IN  /\ attaching[id] = "opening"
        /\ wire[n] = "open"
        /\ attaching' = [attaching EXCEPT ![id] = "open"]
        /\ node_sessions' = [node_sessions EXCEPT ![n] = @ \cup {id}]
        /\ controller_sessions' = [controller_sessions EXCEPT ![c] = @ \cup {id}]
        /\ sessions' = sessions \cup {id}
        /\ links' = links \cup {[id |-> id, requester |-> c, node |-> n,
                                 stage |-> "session_proxy"]}
        /\ UNCHANGED <<entry, exports, aborted, connVars, nodeVars, spawnVars>>

OpenFailed(id) ==
    /\ attaching[id] = "opening"
    /\ attaching' = [attaching EXCEPT ![id] = "closed"]
    /\ UNCHANGED <<sessions, entry, controller_sessions, node_sessions, links, exports,
                   aborted, connVars, nodeVars, spawnVars>>

\* reattach () up to the first yield of link_session ().
Reattach(c, id) ==
    /\ Callable(c)
    /\ id \in sessions
    /\ entry[id].controller = NULL
    /\ entry[id].node # NULL
    /\ entry' = [entry EXCEPT ![id] = AttachController(@, c)]
    /\ controller_sessions' = [controller_sessions EXCEPT ![c] = @ \cup {id}]
    /\ links' = links \cup {[id |-> id, requester |-> c, node |-> entry[id].node,
                             stage |-> IF ~entry[id].session THEN "session_proxy"
                                       ELSE IF c \in LocalChannel THEN "provider"
                                       ELSE "sink_proxy"]}
    /\ UNCHANGED <<sessions, node_sessions, attaching, exports, aborted, connVars, nodeVars,
                   spawnVars>>

\* link_session () has the session's proxy.  A local requester is done with
\* link_session () and goes on to link_agent_session () of the provider.
SessionLinked(l) ==
    LET rest == (links \ {l}) \cup
                {[l EXCEPT !.stage = IF l.requester \in LocalChannel
                                     THEN "provider" ELSE "sink_proxy"]}
    IN  /\ l.stage = "session_proxy"
        /\ entry' = [entry EXCEPT ![l.id].session = TRUE]
        /\ links' = rest
        /\ exports' = Remaining(exports, {}, sessions, rest)
        /\ UNCHANGED <<sessions, controller_sessions, node_sessions, attaching, aborted,
                       connVars, nodeVars, spawnVars>>

\* Exporting at a path that is taken reaches assert_not_reached ().
Export(l, where) ==
    LET rest == links \ {l}
        added == where \X {l.id}
    IN  /\ links' = rest
        /\ aborted' = (added \cap exports # {})
        /\ exports' = Remaining(exports \cup added, {}, sessions, rest)
        /\ UNCHANGED <<sessions, entry, controller_sessions, node_sessions, attaching,
                       connVars, nodeVars, spawnVars>>

\* link_session () has the controller's sink: export the session to the
\* controller and the sink to the node.
SinkLinked(l) ==
    /\ l.stage = "sink_proxy"
    /\ Export(l, {l.requester, l.node})

Dropped(l) ==
    /\ links' = links \ {l}
    /\ UNCHANGED <<sessions, entry, controller_sessions, node_sessions, attaching, exports,
                   aborted, connVars, nodeVars, spawnVars>>

\* PortalHostSessionProvider.link_agent_session (), for the local device.  It
\* dereferences entry.node without a check.
LinkAgentSession(l) ==
    /\ l.stage = "provider"
    /\ IF object[l.requester] = "control" /\ l.id \in sessions
       THEN \/ entry[l.id].node # NULL /\ Export(l, {entry[l.id].node})
            \/ /\ entry[l.id].node = NULL
               /\ aborted' = TRUE
               /\ UNCHANGED <<sessions, entry, controller_sessions, node_sessions, attaching,
                              links, exports, connVars, nodeVars, spawnVars>>
       ELSE Dropped(l)

\* The application cancels a local attach () or reattach ().
LinkCancelled(l) ==
    /\ l.stage = "session_proxy"
    /\ l.requester \in LocalChannel
    /\ Dropped(l)

\* PortalHostSessionProvider.unlink_agent_session (), which does not look at whose
\* session it is: a Device may give up a session that another controller took over.
UnlinkAgentSession(c, id) ==
    /\ object[c] = "control"
    /\ id \in sessions
    /\ exports' = exports \ {<<entry[id].node, id>>}
    /\ UNCHANGED <<sessions, entry, controller_sessions, node_sessions, attaching, links,
                   aborted, connVars, nodeVars, spawnVars>>

\* The expiry timer of an entry: on_agent_session_expired ().
Expired(id) ==
    /\ id \in sessions
    /\ entry[id].expiry_timer
    /\ sessions' = sessions \ {id}
    /\ node_sessions' = LeaveNode({id})
    /\ exports' = Remaining(exports, {}, sessions \ {id}, links)
    /\ UNCHANGED <<entry, controller_sessions, attaching, links, aborted, connVars, nodeVars,
                   spawnVars>>

\* A node's session provider reports that a session closed.  A session is with
\* the latest connection that its process made.
SessionClosed(n, id) ==
    /\ wire[n] = "open"
    /\ attaching[id] = "open"
    /\ id \in node_sessions[n]
    /\ entry[id].node \in {n, NULL}
    /\ attaching' = [attaching EXCEPT ![id] = "closed"]
    /\ node_sessions' = [node_sessions EXCEPT ![n] = @ \ {id}]
    /\ sessions' = sessions \ {id}
    /\ controller_sessions' = LeaveController({id} \cap sessions)
    /\ exports' = Remaining(exports, {}, sessions \ {id}, links)
    /\ UNCHANGED <<entry, links, aborted, connVars, nodeVars, spawnVars>>
-----------------------------------------------------------------------------
Acl == {NULL} \cup SUBSET Tag

Live == {id \in SessionId : attaching[id] = "open"}

ServiceStep ==
    \/ Start \/ StartFinished \/ Stop
    \/ \E flavor \in {"cluster", "control"} : Listen(flavor)

ConnectionStep ==
    \/ \E c \in Conn :
          \/ Incoming(c) \/ SetupFinished(c) \/ Closed(c)
          \/ Authenticate(c) \/ Authenticated(c) \/ AuthenticationFailed(c)
          \/ \E t \in Tag : AddTag(c, t) \/ RemoveTag(c, t)
    \/ \E l \in LocalChannel : CreateLocal(l) \/ DestroyLocal(l)

SpawnStep ==
    \E c \in Controller :
        \/ EnableSpawnGating(c) \/ DisableSpawnGating(c)
        \/ \E p \in Pid : Resume(c, p)

NodeStep ==
    \E n \in NodeConn :
        \/ \E pid \in Pid, identifier \in Identifier, suspended \in BOOLEAN, acl \in Acl,
              interrupted \in SUBSET Live :
              Join(n, pid, identifier, suspended, acl, interrupted)
        \/ \E acl \in Acl, interrupted \in SUBSET Live : JoinRejected(n, acl, interrupted)
        \/ \E id \in SessionId : SessionClosed(n, id)

SessionStep ==
    \/ \E id \in SessionId :
          \/ Opened(id) \/ OpenFailed(id) \/ Expired(id)
          \/ \E c \in Controller :
                \/ Reattach(c, id)
                \/ \E p \in Pid, persist \in BOOLEAN : Attach(c, p, id, persist)
          \/ \E c \in LocalChannel : UnlinkAgentSession(c, id)
    \/ \E l \in links :
          SessionLinked(l) \/ SinkLinked(l) \/ LinkAgentSession(l) \/ LinkCancelled(l)

Next ==
    /\ ~aborted
    /\ ServiceStep \/ ConnectionStep \/ SpawnStep \/ NodeStep \/ SessionStep

Spec == Init /\ [][Next]_vars
-----------------------------------------------------------------------------
(* Properties *)

LiveController(c) == object[c] = "control"

LiveNode(n) == object[n] = "node"

\* A controller's and the portal's idea of who owns a session agree: what a live
\* ControlChannel lists is in `sessions` under that channel, and the reverse.
\* teardown_control_channel () dereferences sessions[id] on the strength of this.
ControllerOwnership ==
    \A c \in Controller : LiveController(c) =>
        controller_sessions[c] = {id \in sessions : entry[id].controller = c}

\* The same for the nodes: teardown_cluster_node () dereferences sessions[id].
NodeOwnership ==
    \A n \in NodeConn : LiveNode(n) =>
        node_sessions[n] = {id \in sessions : entry[id].node = n}

\* A session has no controller exactly while its expiry timer runs, and one that
\* lost its node has no controller: a detached session cannot stay forever and one
\* that a controller took back (attach_controller ()) cannot expire under it.
UnownedExpires ==
    \A id \in sessions :
        /\ entry[id].controller = NULL <=> entry[id].expiry_timer
        /\ entry[id].node = NULL => entry[id].controller = NULL

\* The nodes that have joined and are still connected are exactly the values of
\* node_by_pid and of node_by_identifier, each under its own pid and identifier,
\* and the ConnectionEntry that the access checks dereference is there.
Registered ==
    LET joined == {n \in NodeConn : LiveNode(n) /\ application[n] # NoApplication}
    IN  /\ {node_by_pid[p] : p \in DOMAIN node_by_pid} = joined
        /\ {node_by_identifier[i] : i \in DOMAIN node_by_identifier} = joined
        /\ \A p \in DOMAIN node_by_pid : application[node_by_pid[p]].pid = p
        /\ \A i \in DOMAIN node_by_identifier :
              application[node_by_identifier[i]].identifier = i
        /\ joined \subseteq connections

\* A suspended process waits for at least one spawn gater, only for spawn gaters,
\* and is still there: the assertion of resume () holds and no process is left
\* suspended because the last controller it waited for went away.
SpawnsAwaitGaters ==
    \A p \in DOMAIN pending_spawn :
        /\ p \in DOMAIN node_by_pid
        /\ pending_spawn[p] # {}
        /\ pending_spawn[p] \subseteq spawn_gaters

\* Gaters are channels that were not torn down, with an entry for the ACL checks.
GatersAreControllers ==
    \A c \in spawn_gaters : LiveController(c) /\ c \in connections \cup LocalChannel

\* Every installed peer has its ConnectionEntry, which on_connection_closed ()
\* takes out and dereferences: setup_authorized_peer () looks for it because the
\* connection can close while the auth_service is being asked.
PeersHaveEntries == peers \subseteq connections

\* Nothing refers to a peer that has not been active yet.
Unused(c) ==
    /\ c \in Controller =>
          /\ controller_sessions[c] = {} /\ c \notin spawn_gaters
          /\ \A id \in SessionId : entry[id].controller # c
    /\ c \in NodeConn =>
          /\ node_sessions[c] = {} /\ application[c] = NoApplication
          /\ \A id \in SessionId : entry[id].node # c

\* A connection that is still authenticating, that closed before it could be
\* promoted, or whose node is not installed yet, has left no trace in the session,
\* spawn and cluster tables, so nothing needs to be torn down when it fails.
InactiveLeavesNoTrace ==
    /\ \A c \in Conn \cup LocalChannel : object[c] \in {"none", "auth"} => Unused(c)
    /\ \A c \in Conn :
          (\/ setup[c] = "authenticating"
           \/ setup[c] = "setting_up" /\ c \in NodeConn
           \/ c \notin connections /\ object[c] # "closed") => Unused(c)

\* How the state of a connection, its exported object, its entry, its place among
\* the peers and a suspended set-up go together.
PeerLifecycle ==
    /\ \A l \in LocalChannel : object[l] \in {"none", "control", "closed"}
    /\ \A c \in Conn :
          LET role == IF c \in NodeConn THEN "node" ELSE "control"
          IN  /\ object[c] \in {"none", "auth", "closed", role}
              /\ wire[c] = "new" => object[c] = "none"
              /\ object[c] = "none" => wire[c] = "new" /\ setup[c] = "none" /\ c \notin peers
              /\ object[c] = "auth" => c \in peers
              /\ c \in peers => c \in connections /\ object[c] \in {"auth", role}
              /\ setup[c] = "setting_up" => c \notin peers /\ object[c] = role
              /\ setup[c] = "authenticating" => object[c] \in {"auth", "closed"}
              /\ wire[c] = "open" => c \in connections

\* An id is in no table until its session was opened.
UnopenedIsUnknown ==
    \A id \in SessionId : attaching[id] \in {"no", "opening"} =>
        /\ id \notin sessions
        /\ \A c \in Controller : id \notin controller_sessions[c]
        /\ \A n \in NodeConn : id \notin node_sessions[n]
        /\ attaching[id] = "opening" =>
              entry[id].node # NULL /\ entry[id].controller # NULL /\ ~entry[id].expiry_timer

\* A step after which a peer is gone leaves no session in its hands.
Releases ==
    /\ \A c \in Controller : LiveController(c) /\ ~LiveController(c)' =>
          \A id \in sessions' : entry'[id].controller # c
    /\ \A n \in NodeConn : LiveNode(n) /\ ~LiveNode(n)' =>
          \A id \in sessions' : entry'[id].node # n

\* However a channel or a node goes away (closed, stopped, destroyed, found dead at
\* the end of its set-up), the teardown_* () of that step leaves it no session.
TeardownReleases == [][Releases]_vars

\* A session in the hands of a channel or a node that is gone: no teardown will release it.
Orphaned(id) ==
    /\ id \in sessions
    /\ \/ entry[id].controller # NULL /\ object[entry[id].controller] = "closed"
       \/ entry[id].node # NULL /\ object[entry[id].node] = "closed"

\* A step that orphans a session is the one that opens it.
OrphansAtBirth == \A id \in SessionId : Orphaned(id)' => Orphaned(id) \/ attaching[id] = "opening"

\* attach () suspends in open_session (), and what it registers when it goes on may be owned by a
\* channel or a node that went away meanwhile: it then stays until the agent ends it.  No other
\* step, and no reattach (), leaves a session to a peer that is gone.
OrphanedOnlyByAttach == [][OrphansAtBirth]_vars

\* A session with persist_timeout whose proxy is linked outlives every disconnect:
\* only its timer or its agent ends it.
PersistentSurvives ==
    [][\A id \in sessions \ sessions' : entry[id].persist /\ entry[id].session =>
          \/ entry[id].expiry_timer /\ UNCHANGED object
          \/ attaching'[id] = "closed"]_vars

\* A peer is only installed for a connection that is up, as the "Peer disconnected"
\* error of setup_authorized_peer () intends.
PeersAreConnected == \A c \in peers : wire[c] = "open"

\* link_session () and link_agent_session () never reach assert_not_reached ().
NeverAborts == ~aborted
=============================================================================
