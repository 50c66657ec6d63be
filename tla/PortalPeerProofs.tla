-------------------------- MODULE PortalPeerProofs --------------------------
(* The inductive invariant of the portal, and its preservation by the steps of the
   service, of its connections and of spawn gating. *)
EXTENDS PortalTypeProofs

-----------------------------------------------------------------------------
(* The inductive invariant.  The ownership of sessions, the registration of    *)
(* nodes and the spawns only hold together with how a connection's object, its *)
(* entry and its set-up go together: a channel that is promoted after its      *)
(* connection closed must not own anything.                                    *)

TableInv ==
    /\ UnopenedIsUnknown
    /\ ControllerOwnership
    /\ NodeOwnership
    /\ UnownedExpires
    /\ Registered
    /\ SpawnsAwaitGaters
    /\ GatersAreControllers

IInv == TypeOK /\ PeerLifecycle /\ InactiveLeavesNoTrace /\ TableInv

\* The inductive invariant holds initially.
LEMMA InvInit == Init => IInv
<1> SUFFICES ASSUME Init PROVE IInv
  OBVIOUS
<1>1. TypeOK
  BY TypeInit
<1>2. PeerLifecycle
  BY DEF Init, PeerLifecycle
<1>3. InactiveLeavesNoTrace
  BY DisjointPeers DEF Init, InactiveLeavesNoTrace, Unused, NoEntry, Conn, Controller
<1>4. UnopenedIsUnknown /\ ControllerOwnership /\ NodeOwnership /\ UnownedExpires
  BY DEF Init, UnopenedIsUnknown, ControllerOwnership, NodeOwnership, UnownedExpires,
         LiveController, LiveNode, Conn, Controller
<1>5. Registered /\ SpawnsAwaitGaters /\ GatersAreControllers
  BY DEF Init, Registered, SpawnsAwaitGaters, GatersAreControllers, LiveNode, NoApplication
<1>6. QED
  BY <1>1, <1>2, <1>3, <1>4, <1>5 DEF IInv, TableInv

\* A step that leaves the tables alone, and that only changes the object or drops
\* the entry of a peer nothing refers to, preserves the invariants of the tables.
LEMMA QuietStep ==
    ASSUME IInv, NoTeardown,
           \A c \in Conn \cup LocalChannel :
              object'[c] # object[c] \/ c \in connections \ connections' => Unused(c)
    PROVE  TableInv'
<1> USE DEF IInv, TableInv, NoTeardown, nodeVars, spawnVars, sessionVars
<1>1. UnopenedIsUnknown'
  BY DEF UnopenedIsUnknown
<1>2. ControllerOwnership'
  BY DEF ControllerOwnership, LiveController, Unused, Controller, Conn, TypeOK
<1>3. NodeOwnership'
  BY DEF NodeOwnership, LiveNode, Unused, Conn, TypeOK
<1>4. UnownedExpires'
  BY DEF UnownedExpires
<1>5. Registered'
  BY DEF Registered, LiveNode, Unused, Conn
<1>6. SpawnsAwaitGaters'
  BY DEF SpawnsAwaitGaters
<1>7. GatersAreControllers'
  BY DEF GatersAreControllers, LiveController, Unused, Controller, Conn, TypeOK
<1>8. QED
  BY <1>1, <1>2, <1>3, <1>4, <1>5, <1>6, <1>7

\* Closing the channels C and the nodes N, and with them at most peers nothing
\* refers to, preserves the invariants of the tables.
LEMMA TeardownStep ==
    ASSUME IInv, NEW C \in SUBSET Controller, NEW N \in SUBSET NodeConn, Teardown(C, N),
           \A c \in C : object[c] \in {"auth", "control"} /\ object'[c] = "closed",
           \A n \in N : object[n] \in {"auth", "node"} /\ object'[n] = "closed",
           \A c \in Conn \cup LocalChannel :
              object'[c] # object[c] \/ c \in connections \ connections' =>
                 c \in C \cup N \/ Unused(c)
    PROVE  TableInv'
<1> USE DEF IInv, TableInv
<1> DEFINE ofControllers == UNION {controller_sessions[c] : c \in C}
           ofNodes == UNION {node_sessions[n] : n \in N}
           dropped == {id \in ofControllers \cup ofNodes : Drops(id)}
           kept == (ofControllers \cup ofNodes) \ dropped
<1>1. /\ sessions' = sessions \ dropped
      /\ controller_sessions' = LeaveController(ofNodes)
      /\ node_sessions' = LeaveNode(dropped \cap ofControllers)
      /\ attaching' = attaching
      /\ entry' = [id \in SessionId |->
              IF id \in kept \cap ofNodes THEN DetachNodeAndController(entry[id])
              ELSE IF id \in kept THEN DetachController(entry[id])
              ELSE entry[id]]
  BY DEF Teardown
<1>2. ofControllers = {id \in sessions : entry[id].controller \in C}
  BY DEF ControllerOwnership, LiveController, InactiveLeavesNoTrace, Unused, Controller, Conn, TypeOK
<1>3. ofNodes = {id \in sessions : entry[id].node \in N}
  BY DEF NodeOwnership, LiveNode, InactiveLeavesNoTrace, Unused, Conn, TypeOK
<1> HIDE DEF ofControllers, ofNodes
<1>4. \A id \in SessionId :
         /\ entry'[id].controller = IF id \in kept THEN NULL ELSE entry[id].controller
         /\ entry'[id].node = IF id \in kept \cap ofNodes THEN NULL ELSE entry[id].node
         /\ entry'[id].expiry_timer = IF id \in kept THEN TRUE ELSE entry[id].expiry_timer
  BY <1>1, DetachFields, Zenon DEF TypeOK
<1>5. dropped \cup kept = ofControllers \cup ofNodes /\ dropped \cap kept = {}
  OBVIOUS
<1> HIDE DEF dropped, kept
<1>6. UnopenedIsUnknown'
  BY <1>1, <1>2, <1>3, <1>4, <1>5
  DEF UnopenedIsUnknown, LeaveController, LeaveNode, TypeOK
<1>7. ControllerOwnership'
  <2> SUFFICES ASSUME NEW c \in Controller, LiveController(c)'
               PROVE  controller_sessions'[c] = {id \in sessions' : entry'[id].controller = c}
    BY DEF ControllerOwnership
  <2>1. c \notin C /\ NULL # c
    BY DisjointPeers DEF LiveController, Controller, Conn
  <2>2. controller_sessions[c] = {id \in sessions : entry[id].controller = c}
    BY <2>1, DisjointPeers
    DEF LiveController, ControllerOwnership, Controller, Conn, Unused, TypeOK
  <2>3. \A id : id \in controller_sessions'[c] <=>
           id \in controller_sessions[c] /\ ~(id \in ofNodes /\ entry[id].controller = c)
    BY <1>1 DEF LeaveController
  <2>4. \A id : id \in sessions' /\ entry'[id].controller = c <=>
           id \in sessions /\ id \notin dropped \cup kept /\ entry[id].controller = c
    BY <1>1, <1>4, <1>5, <2>1, Zenon DEF TypeOK
  <2>5. QED
    BY <1>2, <1>3, <1>5, <2>1, <2>2, <2>3, <2>4
<1>8. NodeOwnership'
  <2> SUFFICES ASSUME NEW n \in NodeConn, LiveNode(n)'
               PROVE  node_sessions'[n] = {id \in sessions' : entry'[id].node = n}
    BY DEF NodeOwnership
  <2>1. n \notin N /\ NULL # n
    BY DisjointPeers DEF LiveNode, Conn
  <2>2. node_sessions[n] = {id \in sessions : entry[id].node = n}
    BY <2>1, DisjointPeers DEF LiveNode, NodeOwnership, Conn, Unused, Controller, TypeOK
  <2>3. \A id : id \in node_sessions'[n] <=>
           id \in node_sessions[n] /\ ~(id \in dropped \cap ofControllers /\ entry[id].node = n)
    BY <1>1 DEF LeaveNode
  <2>4. \A id : id \in sessions' /\ entry'[id].node = n <=>
           id \in sessions /\ id \notin dropped /\ id \notin ofNodes /\ entry[id].node = n
    BY <1>1, <1>3, <1>4, <1>5, <2>1, Zenon DEF TypeOK
  <2>5. QED
    BY <1>2, <1>3, <1>5, <2>1, <2>2, <2>3, <2>4
<1>9. UnownedExpires'
  BY <1>1, <1>4, Zenon DEF UnownedExpires, TypeOK
<1> DEFINE joined == {n \in NodeConn : LiveNode(n) /\ application[n] # NoApplication}
           leaving == {n \in N : application[n] # NoApplication}
           pids == {application[n].pid : n \in leaving}
           identifiers == {application[n].identifier : n \in leaving}
<1>10. /\ node_by_pid' = Without(node_by_pid, pids)
       /\ node_by_identifier' = Without(node_by_identifier, identifiers)
       /\ application' = application
  BY DEF Teardown
<1>11. leaving \subseteq joined
  BY DEF InactiveLeavesNoTrace, Unused, Conn, LiveNode
<1>12. {n \in NodeConn : LiveNode(n)' /\ application[n] # NoApplication} = joined \ leaving
  BY <1>11, DisjointPeers DEF LiveNode, Unused, Conn, Controller
<1>13. Registered'
  <2>1. \A p \in DOMAIN node_by_pid : p \in pids <=> node_by_pid[p] \in leaving
    BY <1>11 DEF Registered
  <2>2. \A i \in DOMAIN node_by_identifier :
           i \in identifiers <=> node_by_identifier[i] \in leaving
    BY <1>11 DEF Registered
  <2>3. {node_by_pid'[p] : p \in DOMAIN node_by_pid'} = joined \ leaving
    BY <1>10, <2>1 DEF Registered, Without
  <2>4. {node_by_identifier'[i] : i \in DOMAIN node_by_identifier'} = joined \ leaving
    BY <1>10, <2>2 DEF Registered, Without
  <2>5. joined \ leaving \subseteq connections'
    BY DisjointPeers DEF Registered, Unused, Conn, Controller
  <2>6. QED
    BY <1>10, <1>12, <2>3, <2>4, <2>5, Zenon DEF Registered, Without, LiveNode
<1>14. SpawnsAwaitGaters'
  BY <1>10 DEF SpawnsAwaitGaters, Teardown, Resumed, Without, StopGating
<1>15. GatersAreControllers'
  BY DisjointPeers
  DEF GatersAreControllers, Teardown, StopGating, LiveController, Unused, Conn, Controller, TypeOK
<1>16. QED
  BY <1>6, <1>7, <1>8, <1>9, <1>13, <1>14, <1>15

\* Neither a teardown nor a step that leaves the tables alone adds a reference.
LEMMA UnusedStays ==
    ASSUME TypeOK, NEW C \in SUBSET Controller, NEW N \in SUBSET NodeConn,
           NoTeardown \/ Teardown(C, N), NEW c \in Conn \cup LocalChannel, Unused(c)
    PROVE  Unused(c)'
<1>1. CASE NoTeardown
  BY <1>1, Zenon DEF Unused, NoTeardown, nodeVars, spawnVars, sessionVars
<1>2. CASE Teardown(C, N)
  <2>1. \A id \in SessionId : /\ entry'[id].controller \in {NULL, entry[id].controller}
                              /\ entry'[id].node \in {NULL, entry[id].node}
    BY <1>2, DetachFields, Zenon DEF Teardown, TypeOK
  <2>2. c # NULL
    BY DisjointPeers
  <2>3. /\ c \in Controller => controller_sessions'[c] \subseteq controller_sessions[c]
        /\ c \in NodeConn => node_sessions'[c] \subseteq node_sessions[c]
    BY <1>2, Zenon DEF Teardown, LeaveController, LeaveNode
  <2>4. spawn_gaters' \subseteq spawn_gaters /\ application' = application
    BY <1>2, Zenon DEF Teardown, StopGating
  <2>5. QED
    BY <2>1, <2>2, <2>3, <2>4 DEF Unused
<1>3. QED
  BY <1>1, <1>2

\* The steps of the service and of its connections preserve the invariant.
LEMMA ServiceInv == IInv /\ ServiceStep => PeerLifecycle' /\ InactiveLeavesNoTrace' /\ TableInv'
<1> SUFFICES ASSUME IInv, ServiceStep PROVE PeerLifecycle' /\ InactiveLeavesNoTrace' /\ TableInv'
  OBVIOUS
<1> USE DEF IInv
<1>1. CASE ~Stop
  <2>1. NoTeardown /\ UNCHANGED <<wire, object, setup, connections, peers>>
    BY <1>1 DEF ServiceStep, Start, StartFinished, Listen
  <2>2. TableInv'
    BY <2>1, QuietStep
  <2>3. PeerLifecycle'
    BY <2>1 DEF PeerLifecycle
  <2>4. InactiveLeavesNoTrace'
    BY <2>1, UnusedStays DEF InactiveLeavesNoTrace, Conn
  <2>5. QED
    BY <2>2, <2>3, <2>4
<1>2. CASE Stop
  <2> DEFINE C == peers \cap ControlConn
             N == peers \cap NodeConn
  <2>1. C \in SUBSET Controller /\ N \in SUBSET NodeConn /\ Teardown(C, N)
    BY <1>2 DEF Stop, Controller
  <2>2. /\ \A c \in C : object[c] \in {"auth", "control"} /\ object'[c] = "closed"
        /\ \A n \in N : object[n] \in {"auth", "node"} /\ object'[n] = "closed"
    BY <1>2, DisjointPeers DEF Stop, PeerLifecycle, Conn
  <2>3. /\ connections' = connections
        /\ \A c \in Conn \cup LocalChannel :
              object'[c] # object[c] => c \in C \cup N \/ Unused(c)
    BY <1>2 DEF Stop, InactiveLeavesNoTrace, Conn, TypeOK
  <2>4. TableInv'
    BY <2>1, <2>2, <2>3, TeardownStep
  <2>5. PeerLifecycle'
    BY <1>2 DEF Stop, PeerLifecycle, TypeOK
  <2>6. InactiveLeavesNoTrace'
    <3>1. \A c \in Conn \cup LocalChannel : Unused(c) => Unused(c)'
      BY <2>1, UnusedStays
    <3>2. QED
      BY <1>2, <3>1 DEF Stop, InactiveLeavesNoTrace, TypeOK
  <2>7. QED
    BY <2>4, <2>5, <2>6
<1>3. QED
  BY <1>1, <1>2

\* So do those of the connections and of the local device's channels.
LEMMA ConnectionInv ==
    IInv /\ ConnectionStep => PeerLifecycle' /\ InactiveLeavesNoTrace' /\ TableInv'
<1> SUFFICES ASSUME IInv, ConnectionStep
             PROVE  PeerLifecycle' /\ InactiveLeavesNoTrace' /\ TableInv'
  OBVIOUS
<1> USE DEF IInv
<1> DEFINE Goal == PeerLifecycle' /\ InactiveLeavesNoTrace' /\ TableInv'
<1>q. ASSUME NoTeardown PROVE \A c \in Conn \cup LocalChannel : Unused(c) => Unused(c)'
  BY <1>q, UnusedStays
<1>1. ASSUME NEW c \in Conn, Incoming(c) PROVE Goal
  <2>1. object[c] = "none" /\ Unused(c)
    BY <1>1 DEF Incoming, PeerLifecycle, InactiveLeavesNoTrace
  <2>2. TableInv'
    BY <1>1, <2>1, QuietStep DEF Incoming, TypeOK
  <2>3. PeerLifecycle'
    BY <1>1, <2>1, DisjointPeers DEF Incoming, PeerLifecycle, TypeOK, Conn
  <2>4. InactiveLeavesNoTrace'
    BY <1>1, <1>q, <2>1 DEF Incoming, InactiveLeavesNoTrace, TypeOK
  <2>5. QED
    BY <2>2, <2>3, <2>4
<1>2. ASSUME NEW c \in Conn, SetupFinished(c) PROVE Goal
  <2>1. c \notin connections => Unused(c)
    BY <1>2 DEF SetupFinished, PeerLifecycle, InactiveLeavesNoTrace
  <2>2. TableInv'
    BY <1>2, <2>1, QuietStep DEF SetupFinished, TypeOK
  <2>3. PeerLifecycle'
    BY <1>2 DEF SetupFinished, PeerLifecycle, TypeOK
  <2>4. InactiveLeavesNoTrace'
    BY <1>2, <1>q, <2>1 DEF SetupFinished, InactiveLeavesNoTrace, TypeOK
  <2>5. QED
    BY <2>2, <2>3, <2>4
<1>3. ASSUME NEW c \in Conn, Closed(c) PROVE Goal
  <2>1. CASE c \in peers /\ object[c] # "auth"
    <3> DEFINE C == {c} \cap ControlConn
               N == {c} \cap NodeConn
    <3>1. C \in SUBSET Controller /\ N \in SUBSET NodeConn /\ Teardown(C, N)
      BY <1>3, <2>1 DEF Closed, Controller
    <3>2. /\ \A k \in C : object[k] \in {"auth", "control"} /\ object'[k] = "closed"
          /\ \A n \in N : object[n] \in {"auth", "node"} /\ object'[n] = "closed"
      BY <1>3, <2>1, DisjointPeers DEF Closed, PeerLifecycle, Conn, TypeOK
    <3>3. \A k \in Conn \cup LocalChannel :
             object'[k] # object[k] \/ k \in connections \ connections' => k \in C \cup N
      BY <1>3, <2>1 DEF Closed, Conn, TypeOK
    <3>4. TableInv'
      BY <3>1, <3>2, <3>3, TeardownStep
    <3>5. PeerLifecycle'
      <4>1. /\ UNCHANGED setup
            /\ \A k \in (Conn \cup LocalChannel) \ {c} : object'[k] = object[k]
            /\ \A k \in Conn \ {c} : wire'[k] = wire[k] /\ (k \in peers' <=> k \in peers)
                                    /\ (k \in connections' <=> k \in connections)
            /\ object'[c] = "closed" /\ wire'[c] = "closed"
            /\ c \notin peers' /\ c \notin connections'
        BY <1>3, <2>1 DEF Closed, TypeOK
      <4>2. setup[c] # "setting_up" /\ c \notin LocalChannel
        BY <2>1, DisjointPeers DEF PeerLifecycle
      <4>3. QED
        BY <4>1, <4>2 DEF PeerLifecycle
    <3>6. InactiveLeavesNoTrace'
      <4>1. \A k \in Conn \cup LocalChannel : Unused(k) => Unused(k)'
        BY <3>1, UnusedStays
      <4>2. QED
        BY <1>3, <2>1, <4>1 DEF Closed, InactiveLeavesNoTrace, TypeOK
    <3>7. QED
      BY <3>4, <3>5, <3>6
  <2>2. CASE ~(c \in peers /\ object[c] # "auth")
    <3>1. NoTeardown
      BY <1>3, <2>2 DEF Closed
    <3>2. \A k \in Conn \cup LocalChannel :
             object'[k] # object[k] \/ k \in connections \ connections' => Unused(k)
      BY <1>3, <2>2 DEF Closed, InactiveLeavesNoTrace, TypeOK
    <3>3. TableInv'
      BY <3>1, <3>2, QuietStep
    <3>4. PeerLifecycle'
      BY <1>3, <2>2 DEF Closed, PeerLifecycle, TypeOK
    <3>5. InactiveLeavesNoTrace'
      BY <1>3, <1>q, <2>2, <3>1 DEF Closed, InactiveLeavesNoTrace, TypeOK
    <3>6. QED
      BY <3>3, <3>4, <3>5
  <2>3. QED
    BY <2>1, <2>2
<1>4. ASSUME NEW c \in Conn, Authenticate(c) PROVE Goal
  <2>1. TableInv'
    BY <1>4, QuietStep DEF Authenticate
  <2>2. PeerLifecycle'
    BY <1>4 DEF Authenticate, PeerLifecycle, TypeOK
  <2>3. InactiveLeavesNoTrace'
    BY <1>4, <1>q DEF Authenticate, InactiveLeavesNoTrace, TypeOK
  <2>4. QED
    BY <2>1, <2>2, <2>3
<1>5. ASSUME NEW c \in Conn, Authenticated(c) PROVE Goal
  <2>1. Unused(c)
    BY <1>5 DEF Authenticated, InactiveLeavesNoTrace
  <2>2. TableInv'
    BY <1>5, <2>1, QuietStep DEF Authenticated, TypeOK
  <2>3. PeerLifecycle'
    BY <1>5, DisjointPeers DEF Authenticated, PeerLifecycle, TypeOK, Conn
  <2>4. InactiveLeavesNoTrace'
    BY <1>5, <1>q, <2>1 DEF Authenticated, InactiveLeavesNoTrace, TypeOK
  <2>5. QED
    BY <2>2, <2>3, <2>4
<1>6. ASSUME NEW c \in Conn, AuthenticationFailed(c) PROVE Goal
  <2>1. TableInv'
    BY <1>6, QuietStep DEF AuthenticationFailed
  <2>2. PeerLifecycle'
    BY <1>6 DEF AuthenticationFailed, PeerLifecycle, TypeOK
  <2>3. InactiveLeavesNoTrace'
    BY <1>6, <1>q DEF AuthenticationFailed, InactiveLeavesNoTrace, TypeOK
  <2>4. QED
    BY <2>1, <2>2, <2>3
<1>7. ASSUME NEW c \in Conn, NEW t \in Tag, AddTag(c, t) \/ RemoveTag(c, t) PROVE Goal
  <2>1. NoTeardown /\ UNCHANGED <<wire, object, setup, connections, peers>>
    BY <1>7 DEF AddTag, RemoveTag
  <2>2. QED
    <3>1. TableInv'
      BY <2>1, QuietStep
    <3>2. PeerLifecycle'
      BY <2>1, LifecycleFrame
    <3>3. InactiveLeavesNoTrace'
      BY <1>q, <2>1, TraceFrame
    <3>4. QED
      BY <3>1, <3>2, <3>3
<1>8. ASSUME NEW l \in LocalChannel, CreateLocal(l) PROVE Goal
  <2>1. object[l] = "none" /\ Unused(l)
    BY <1>8 DEF CreateLocal, InactiveLeavesNoTrace
  <2>2. TableInv'
    BY <1>8, <2>1, QuietStep DEF CreateLocal, TypeOK
  <2>3. PeerLifecycle'
    BY <1>8, DisjointPeers DEF CreateLocal, PeerLifecycle, TypeOK
  <2>4. InactiveLeavesNoTrace'
    BY <1>8, <1>q, DisjointPeers DEF CreateLocal, InactiveLeavesNoTrace, TypeOK
  <2>5. QED
    BY <2>2, <2>3, <2>4
<1>9. ASSUME NEW l \in LocalChannel, DestroyLocal(l) PROVE Goal
  <2>1. {l} \in SUBSET Controller /\ {} \in SUBSET NodeConn /\ Teardown({l}, {})
    BY <1>9 DEF DestroyLocal, Controller
  <2>2. TableInv'
    <3>1. /\ \A k \in {l} : object[k] \in {"auth", "control"} /\ object'[k] = "closed"
          /\ \A k \in Conn \cup LocalChannel : object'[k] # object[k] => k \in {l} \cup {}
          /\ connections' = connections
      BY <1>9 DEF DestroyLocal, TypeOK
    <3>2. QED
      BY <2>1, <3>1, TeardownStep
  <2>3. PeerLifecycle'
    BY <1>9, DisjointPeers DEF DestroyLocal, PeerLifecycle, TypeOK
  <2>4. InactiveLeavesNoTrace'
    <3>1. \A k \in Conn \cup LocalChannel : Unused(k) => Unused(k)'
      BY <2>1, UnusedStays
    <3>2. QED
      BY <1>9, <3>1, DisjointPeers DEF DestroyLocal, InactiveLeavesNoTrace, TypeOK
  <2>5. QED
    BY <2>2, <2>3, <2>4
<1>10. QED
  BY <1>1, <1>2, <1>3, <1>4, <1>5, <1>6, <1>7, <1>8, <1>9 DEF ConnectionStep

\* Whoever can be called is an active controller with an entry.
LEMMA CallableIsActive ==
    ASSUME IInv, NEW c \in Controller, Callable(c)
    PROVE  /\ LiveController(c) /\ c \in connections \cup LocalChannel
           /\ c \in Conn => setup[c] # "authenticating"
BY DEF IInv, PeerLifecycle, Callable, LiveController, Controller, Conn

\* Spawn gating only touches spawn_gaters and pending_spawn.
LEMMA SpawnInv == IInv /\ SpawnStep => PeerLifecycle' /\ InactiveLeavesNoTrace' /\ TableInv'
<1> SUFFICES ASSUME IInv, NEW c \in Controller,
                    \/ EnableSpawnGating(c) \/ DisableSpawnGating(c)
                    \/ \E p \in Pid : Resume(c, p)
             PROVE  PeerLifecycle' /\ InactiveLeavesNoTrace' /\ TableInv'
  BY DEF SpawnStep
<1> USE DEF IInv, TableInv
<1>1. Callable(c) /\ UNCHANGED <<connVars, nodeVars, sessionVars>>
  BY Zenon DEF EnableSpawnGating, DisableSpawnGating, Resume
<1>2. /\ LiveController(c) /\ c \in connections \cup LocalChannel
      /\ c \in Conn => setup[c] # "authenticating"
  BY <1>1, CallableIsActive
<1>3. spawn_gaters' \subseteq spawn_gaters \cup {c}
  BY Zenon DEF EnableSpawnGating, DisableSpawnGating, Resume
<1>4. PeerLifecycle'
  BY <1>1, LifecycleFrame DEF connVars
<1>5. InactiveLeavesNoTrace'
  <2>1. \A k \in Conn \cup LocalChannel : k # c /\ Unused(k) => Unused(k)'
    BY <1>1, <1>3 DEF Unused, nodeVars, sessionVars
  <2>2. QED
    BY <1>1, <1>2, <2>1, DisjointPeers
    DEF InactiveLeavesNoTrace, LiveController, Controller, Conn, connVars
<1>6. /\ UnopenedIsUnknown' /\ ControllerOwnership' /\ NodeOwnership' /\ UnownedExpires'
      /\ Registered'
  BY <1>1, UnopenedFrame, ControllerFrame, NodeFrame, ExpiryFrame, RegisteredFrame
  DEF connVars, nodeVars, sessionVars
<1>7. GatersAreControllers'
  BY <1>1, <1>2, <1>3 DEF GatersAreControllers, LiveController, connVars
<1>8. SpawnsAwaitGaters'
  <2>1. CASE EnableSpawnGating(c)
    BY <2>1 DEF EnableSpawnGating, SpawnsAwaitGaters, nodeVars
  <2>2. CASE DisableSpawnGating(c)
    BY <2>2 DEF DisableSpawnGating, Resumed, SpawnsAwaitGaters, nodeVars
  <2>3. ASSUME NEW p \in Pid, Resume(c, p) PROVE SpawnsAwaitGaters'
    BY <2>3 DEF Resume, Resumed, SpawnsAwaitGaters, nodeVars
  <2>4. QED
    BY <2>1, <2>2, <2>3
<1>9. QED
  BY <1>4, <1>5, <1>6, <1>7, <1>8
=============================================================================
