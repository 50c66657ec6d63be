------------------------ MODULE PortalSessionProofs -------------------------
(* The steps of nodes and sessions preserve the inductive invariant. *)
EXTENDS PortalPeerProofs

\* Reclaiming sessions without a node keeps the ownership of sessions.
LEMMA ReclaimInv ==
    ASSUME IInv, NEW n \in NodeConn, NEW ids \in SUBSET sessions, Reclaim(n, ids), LiveNode(n),
           n \in peers, \A id \in ids : entry[id].node = NULL, object' = object
    PROVE  UnopenedIsUnknown' /\ ControllerOwnership' /\ NodeOwnership' /\ UnownedExpires'
<1> USE DEF IInv, TableInv
<1>1. \A id \in SessionId :
         /\ entry'[id].controller = entry[id].controller
         /\ entry'[id].expiry_timer = entry[id].expiry_timer
         /\ entry'[id].node = IF id \in ids THEN n ELSE entry[id].node
  BY DEF Reclaim, TypeOK, AgentSessionEntry
<1>2. /\ UNCHANGED <<sessions, controller_sessions, attaching>>
      /\ node_sessions' = [node_sessions EXCEPT ![n] = @ \cup ids]
      /\ n # NULL
  BY DisjointPeers DEF Reclaim, Conn
<1>3. UnopenedIsUnknown'
  BY <1>1, <1>2 DEF UnopenedIsUnknown, TypeOK
<1>4. ControllerOwnership'
  BY <1>1, <1>2 DEF ControllerOwnership, LiveController, TypeOK
<1>5. NodeOwnership'
  <2> SUFFICES ASSUME NEW m \in NodeConn, LiveNode(m)
               PROVE  node_sessions'[m] = {id \in sessions : entry'[id].node = m}
    BY <1>2 DEF NodeOwnership, LiveNode
  <2>1. node_sessions[m] = {id \in sessions : entry[id].node = m} /\ m # NULL
    BY DisjointPeers DEF NodeOwnership, Conn
  <2>2. node_sessions'[m] = IF m = n THEN node_sessions[m] \cup ids ELSE node_sessions[m]
    BY <1>2, Zenon DEF TypeOK
  <2>3. \A id \in sessions : entry'[id].node = m <=> id \in node_sessions'[m]
    BY <1>1, <2>1, <2>2 DEF TypeOK
  <2>4. node_sessions'[m] \subseteq sessions
    BY <2>1, <2>2
  <2>5. QED
    BY <2>3, <2>4
<1>6. UnownedExpires'
  BY <1>1, <1>2 DEF UnownedExpires, TypeOK
<1>7. QED
  BY <1>3, <1>4, <1>5, <1>6

\* An installed node is active: it may be referred to.
LEMMA InstalledNode ==
    ASSUME IInv, NEW n \in NodeConn, n \in peers, object[n] = "node"
    PROVE  LiveNode(n) /\ n \in connections /\ setup[n] = "none"
BY DEF IInv, TypeOK, PeerLifecycle, LiveNode, Conn

\* References to an installed node alone do not disturb the inactive peers.
LEMMA NodeTraces ==
    ASSUME IInv, NEW n \in NodeConn, n \in peers, object[n] = "node",
           UNCHANGED <<object, setup, connections, controller_sessions, spawn_gaters>>,
           \A m \in NodeConn \ {n} : /\ node_sessions'[m] = node_sessions[m]
                                     /\ application'[m] = application[m],
           \A id \in SessionId : /\ entry'[id].controller = entry[id].controller
                                 /\ entry'[id].node \in {n, entry[id].node}
    PROVE  InactiveLeavesNoTrace'
<1>1. LiveNode(n) /\ n \in connections /\ setup[n] = "none"
  BY InstalledNode
<1>2. \A c \in Conn \cup LocalChannel : c # n /\ Unused(c) => Unused(c)'
  BY DEF Unused, IInv, TypeOK
<1>3. QED
  BY <1>1, <1>2 DEF IInv, InactiveLeavesNoTrace, LiveNode, Conn

\* handle_join_request () preserves the invariant when it succeeds.
LEMMA JoinInv ==
    ASSUME IInv, NEW n \in NodeConn, NEW pid \in Pid, NEW identifier \in Identifier,
           NEW suspended \in BOOLEAN, NEW acl \in Acl, NEW interrupted \in SUBSET Live,
           Join(n, pid, identifier, suspended, acl, interrupted)
    PROVE  PeerLifecycle' /\ InactiveLeavesNoTrace' /\ TableInv'
<1> USE DEF IInv, TableInv
<1>1. /\ n \in peers /\ object[n] = "node" /\ application[n] = NoApplication
      /\ UNCHANGED <<wire, object, setup, connections, peers, spawn_gaters>>
      /\ Reclaim(n, interrupted \cap sessions)
      /\ \A id \in interrupted \cap sessions : entry[id].node = NULL
  BY DEF Join
<1>2. LiveNode(n) /\ n \in connections /\ setup[n] = "none"
  BY <1>1, InstalledNode
<1>3. PeerLifecycle'
  BY <1>1 DEF PeerLifecycle
<1>4. UnopenedIsUnknown' /\ ControllerOwnership' /\ NodeOwnership' /\ UnownedExpires'
  BY <1>1, <1>2, ReclaimInv
<1>5. application' = [application EXCEPT ![n] = [pid |-> pid, identifier |-> identifier]]
  BY DEF Join
<1>6. InactiveLeavesNoTrace'
  <2>1. \A m \in NodeConn \ {n} : node_sessions'[m] = node_sessions[m] /\ application'[m] = application[m]
    BY <1>1, <1>5 DEF Reclaim, TypeOK
  <2>2. \A id \in SessionId : /\ entry'[id].controller = entry[id].controller
                              /\ entry'[id].node \in {n, entry[id].node}
    BY <1>1 DEF Reclaim, TypeOK, AgentSessionEntry
  <2>3. controller_sessions' = controller_sessions
    BY <1>1 DEF Reclaim
  <2>4. QED
    BY <1>1, <2>1, <2>2, <2>3, NodeTraces
<1>7. /\ pid \notin DOMAIN node_by_pid
      /\ identifier \notin DOMAIN node_by_identifier
  BY DEF Join, FirstFreePid, FirstFreeIdentifier, Identifier
<1>8. Registered'
  <2> DEFINE joined == {m \in NodeConn : LiveNode(m) /\ application[m] # NoApplication}
  <2>1. [pid |-> pid, identifier |-> identifier] # NoApplication
    BY NaturalPids DEF NoApplication
  <2>2. {m \in NodeConn : LiveNode(m)' /\ application'[m] # NoApplication} = joined \cup {n}
    BY <1>1, <1>2, <1>5, <2>1 DEF LiveNode, TypeOK
  <2>3. /\ node_by_pid' = [q \in DOMAIN node_by_pid \cup {pid} |->
              IF q = pid THEN n ELSE node_by_pid[q]]
        /\ node_by_identifier' = [i \in DOMAIN node_by_identifier \cup {identifier} |->
              IF i = identifier THEN n ELSE node_by_identifier[i]]
    BY DEF Join
  <2>4. {node_by_pid'[p] : p \in DOMAIN node_by_pid'} = joined \cup {n}
    BY <1>7, <2>3, ZenonT(30) DEF Registered
  <2>5. {node_by_identifier'[i] : i \in DOMAIN node_by_identifier'} = joined \cup {n}
    BY <1>7, <2>3, ZenonT(30) DEF Registered
  <2>6. \A m \in joined : application'[m] = application[m]
    BY <1>1, <1>5 DEF TypeOK
  <2>7. /\ \A p \in DOMAIN node_by_pid' : application'[node_by_pid'[p]].pid = p
        /\ \A i \in DOMAIN node_by_identifier' :
              application'[node_by_identifier'[i]].identifier = i
    BY <1>5, <2>3, <2>6 DEF Registered, TypeOK
  <2>8. QED
    BY <1>1, <1>2, <2>2, <2>4, <2>5, <2>7 DEF Registered
<1>9. SpawnsAwaitGaters'
  BY DEF Join, SpawnsAwaitGaters
<1>10. GatersAreControllers'
  BY <1>1 DEF GatersAreControllers, LiveController
<1>11. QED
  BY <1>3, <1>4, <1>6, <1>8, <1>9, <1>10

\* So do the steps of the nodes: joins, rejected joins and closed sessions.
LEMMA NodeInv == IInv /\ NodeStep => PeerLifecycle' /\ InactiveLeavesNoTrace' /\ TableInv'
<1> SUFFICES ASSUME IInv, NodeStep PROVE PeerLifecycle' /\ InactiveLeavesNoTrace' /\ TableInv'
  OBVIOUS
<1> USE DEF IInv, TableInv
<1> DEFINE Goal == PeerLifecycle' /\ InactiveLeavesNoTrace' /\ TableInv'
<1>1. ASSUME NEW n \in NodeConn, NEW acl \in Acl, NEW interrupted \in SUBSET Live,
             JoinRejected(n, acl, interrupted)
      PROVE  Goal
  <2>1. /\ n \in peers /\ object[n] = "node"
        /\ UNCHANGED <<wire, object, setup, connections, peers>>
        /\ UNCHANGED <<nodeVars, spawnVars>>
    BY <1>1 DEF JoinRejected
  <2>2. PICK ids \in SUBSET {id \in interrupted \cap sessions : entry[id].node = NULL} :
           Reclaim(n, ids)
    BY <1>1 DEF JoinRejected
  <2>3. LiveNode(n)
    BY <2>1 DEF LiveNode
  <2>4. UnopenedIsUnknown' /\ ControllerOwnership' /\ NodeOwnership' /\ UnownedExpires'
    BY <2>1, <2>2, <2>3, ReclaimInv
  <2>5. InactiveLeavesNoTrace'
    <3>1. \A m \in NodeConn \ {n} : node_sessions'[m] = node_sessions[m]
      BY <2>2 DEF Reclaim, TypeOK
    <3>2. \A id \in SessionId : /\ entry'[id].controller = entry[id].controller
                                /\ entry'[id].node \in {n, entry[id].node}
      BY <2>2 DEF Reclaim, TypeOK, AgentSessionEntry
    <3>3. controller_sessions' = controller_sessions
      BY <2>2 DEF Reclaim
    <3>4. QED
      BY <2>1, <3>1, <3>2, <3>3, NodeTraces DEF nodeVars, spawnVars
  <2>6. PeerLifecycle'
    BY <2>1 DEF PeerLifecycle
  <2>7. Registered' /\ SpawnsAwaitGaters' /\ GatersAreControllers'
    BY <2>1, RegisteredFrame, SpawnsFrame, GatersFrame DEF nodeVars, spawnVars
  <2>8. QED
    BY <2>4, <2>5, <2>6, <2>7
<1>2. ASSUME NEW n \in NodeConn, NEW id \in SessionId, SessionClosed(n, id) PROVE Goal
  <2>1. UNCHANGED <<connVars, nodeVars, spawnVars, entry>>
    BY <1>2 DEF SessionClosed
  <2>2. PeerLifecycle' /\ Registered' /\ SpawnsAwaitGaters' /\ GatersAreControllers'
    BY <2>1, LifecycleFrame, RegisteredFrame, SpawnsFrame, GatersFrame
    DEF connVars, nodeVars, spawnVars
  <2>3. /\ \A c \in Controller : \A k :
             k \in controller_sessions'[c] <=>
                k \in controller_sessions[c]
                   /\ ~(k = id /\ id \in sessions /\ entry[id].controller = c)
        /\ \A m \in NodeConn : \A k :
             k \in node_sessions'[m] <=> k \in node_sessions[m] /\ ~(m = n /\ k = id)
        /\ sessions' = sessions \ {id}
        /\ \A k \in SessionId \ {id} : attaching'[k] = attaching[k]
        /\ attaching'[id] = "closed"
    <3>1. \A c \in Controller : controller_sessions'[c] =
             controller_sessions[c] \ {k \in {id} \cap sessions : entry[k].controller = c}
      BY <1>2 DEF SessionClosed, LeaveController
    <3>2. /\ node_sessions' = [node_sessions EXCEPT ![n] = @ \ {id}]
          /\ attaching' = [attaching EXCEPT ![id] = "closed"]
          /\ sessions' = sessions \ {id}
      BY <1>2 DEF SessionClosed
    <3>3. \A m \in NodeConn : \A k :
             k \in node_sessions'[m] <=> k \in node_sessions[m] /\ ~(m = n /\ k = id)
      BY <3>2 DEF TypeOK
    <3>4. /\ \A k \in SessionId \ {id} : attaching'[k] = attaching[k]
          /\ attaching'[id] = "closed"
      BY <3>2 DEF TypeOK
    <3>5. QED
      BY <3>1, <3>2, <3>3, <3>4
  <2>4. InactiveLeavesNoTrace'
    <3>1. \A c \in Conn \cup LocalChannel : Unused(c) => Unused(c)'
      BY <2>1, <2>3 DEF Unused, nodeVars, spawnVars
    <3>2. QED
      BY <2>1, <3>1 DEF InactiveLeavesNoTrace, connVars
  <2>5. UnopenedIsUnknown'
    BY <2>1, <2>3 DEF UnopenedIsUnknown
  <2>6. ControllerOwnership'
    <3> SUFFICES ASSUME NEW c \in Controller, LiveController(c)
                 PROVE  controller_sessions'[c] = {k \in sessions' : entry'[k].controller = c}
      BY <2>1 DEF ControllerOwnership, LiveController, connVars
    <3>1. controller_sessions[c] = {k \in sessions : entry[k].controller = c}
      BY DEF ControllerOwnership
    <3>2. QED
      BY <2>1, <2>3, <3>1
  <2>7. NodeOwnership'
    <3> SUFFICES ASSUME NEW m \in NodeConn, LiveNode(m)
                 PROVE  node_sessions'[m] = {k \in sessions' : entry'[k].node = m}
      BY <2>1 DEF NodeOwnership, LiveNode, connVars
    <3>1. node_sessions[m] = {k \in sessions : entry[k].node = m}
      BY DEF NodeOwnership
    <3>2. entry[id].node = m => m = n
      BY <1>2, DisjointPeers DEF SessionClosed, Conn
    <3>3. QED
      BY <2>1, <2>3, <3>1, <3>2
  <2>8. UnownedExpires'
    BY <2>1, <2>3 DEF UnownedExpires
  <2>9. QED
    BY <2>2, <2>4, <2>5, <2>6, <2>7, <2>8
<1>3. QED
  BY <1>1, <1>2, JoinInv DEF NodeStep

\* What the steps of a session leave alone.
LEMMA SessionFrame ==
    ASSUME IInv, SessionStep
    PROVE  /\ UNCHANGED <<connVars, nodeVars, spawnVars>>
           /\ PeerLifecycle' /\ Registered' /\ SpawnsAwaitGaters' /\ GatersAreControllers'
<1>1. UNCHANGED <<connVars, nodeVars, spawnVars>>
  BY ZenonT(30) DEF SessionStep, Attach, Opened, OpenFailed, Expired, Reattach, UnlinkAgentSession,
         SessionLinked, SinkLinked, LinkAgentSession, LinkCancelled, Export, Dropped
<1>2. QED
  BY <1>1, LifecycleFrame, RegisteredFrame, SpawnsFrame, GatersFrame
  DEF IInv, TableInv, connVars, nodeVars, spawnVars

\* The invariants that a step of a session can disturb.
SessionInv == InactiveLeavesNoTrace /\ UnopenedIsUnknown /\ ControllerOwnership
                /\ NodeOwnership /\ UnownedExpires

\* attach () up to its first yield: nothing is in the tables yet.
LEMMA AttachInv ==
    ASSUME IInv, UNCHANGED <<connVars, nodeVars, spawnVars>>, NEW c \in Controller, NEW p \in Pid,
           NEW id \in SessionId, NEW persist \in BOOLEAN, Attach(c, p, id, persist)
    PROVE  SessionInv'
<1> USE DEF IInv, TableInv
<1> DEFINE n == node_by_pid[p]
<1>1. /\ LiveController(c) /\ c \in connections \cup LocalChannel
      /\ c \in Conn => setup[c] # "authenticating"
  BY CallableIsActive DEF Attach
<1>2. n \in NodeConn /\ LiveNode(n) /\ application[n] # NoApplication
  BY DEF Attach, Registered
<1>3. /\ attaching[id] = "no"
      /\ attaching' = [attaching EXCEPT ![id] = "opening"]
      /\ entry' = [entry EXCEPT ![id] = [node |-> n, controller |-> c, session |-> FALSE,
                                         persist |-> persist, expiry_timer |-> FALSE]]
      /\ UNCHANGED <<sessions, controller_sessions, node_sessions>>
  BY DEF Attach
<1>4. /\ id \notin sessions
      /\ \A k \in SessionId \ {id} : entry'[k] = entry[k] /\ attaching'[k] = attaching[k]
      /\ entry'[id].controller = c /\ entry'[id].node = n /\ ~entry'[id].expiry_timer
      /\ attaching'[id] = "opening"
  BY <1>3 DEF UnopenedIsUnknown, TypeOK
<1>5. \A k \in sessions : entry'[k] = entry[k]
  BY <1>4 DEF TypeOK
<1>6. InactiveLeavesNoTrace'
  <2>1. \A k \in Conn \cup LocalChannel : k \notin {c, n} /\ Unused(k) => Unused(k)'
    BY <1>3, <1>4 DEF Unused, nodeVars, spawnVars
  <2>2. ~Unused(n)
    BY <1>2 DEF Unused
  <2>3. QED
    BY <1>1, <1>2, <2>1, <2>2, DisjointPeers
    DEF InactiveLeavesNoTrace, LiveController, Controller, Conn, connVars
<1>7. UnopenedIsUnknown'
  BY <1>2, <1>3, <1>4, DisjointPeers DEF UnopenedIsUnknown, Conn, Controller
<1>8. ControllerOwnership'
  BY <1>3, <1>5 DEF ControllerOwnership, LiveController, connVars
<1>9. NodeOwnership'
  BY <1>3, <1>5 DEF NodeOwnership, LiveNode, connVars
<1>10. UnownedExpires'
  BY <1>3, <1>5 DEF UnownedExpires
<1>11. QED
  BY <1>6, <1>7, <1>8, <1>9, <1>10 DEF SessionInv

\* The rest of attach (): the session enters the map and both owners' tables at once.
LEMMA OpenedInv ==
    ASSUME IInv, UNCHANGED <<connVars, nodeVars, spawnVars>>, NEW id \in SessionId, Opened(id)
    PROVE  SessionInv'
<1> USE DEF IInv, TableInv
<1> DEFINE n == entry[id].node
           c == entry[id].controller
<1>1. /\ n \in NodeConn /\ c \in Controller /\ ~entry[id].expiry_timer
      /\ n # NULL /\ c # NULL /\ attaching[id] = "opening"
  BY DEF Opened, UnopenedIsUnknown, TypeOK, AgentSessionEntry
<1>2. /\ \A k \in SessionId \ {id} : attaching'[k] = attaching[k]
      /\ attaching'[id] = "open"
      /\ sessions' = sessions \cup {id} /\ entry' = entry
      /\ \A m \in NodeConn : node_sessions'[m] = IF m = n THEN node_sessions[m] \cup {id}
                                                         ELSE node_sessions[m]
      /\ \A d \in Controller : controller_sessions'[d] =
            IF d = c THEN controller_sessions[d] \cup {id} ELSE controller_sessions[d]
  BY <1>1, Zenon DEF Opened, TypeOK
<1>3. InactiveLeavesNoTrace'
  <2>1. \A k \in Conn \cup LocalChannel : Unused(k) => Unused(k)'
    BY <1>1, <1>2, Zenon DEF Unused, nodeVars, spawnVars
  <2>2. QED
    BY <2>1 DEF InactiveLeavesNoTrace, connVars
<1>4. UnopenedIsUnknown'
  <2> SUFFICES ASSUME NEW k \in SessionId, attaching'[k] \in {"no", "opening"}
               PROVE  /\ k \notin sessions'
                      /\ \A d \in Controller : k \notin controller_sessions'[d]
                      /\ \A m \in NodeConn : k \notin node_sessions'[m]
                      /\ attaching'[k] = "opening" =>
                            entry[k].node # NULL /\ entry[k].controller # NULL /\ ~entry[k].expiry_timer
    BY <1>2 DEF UnopenedIsUnknown
  <2>1. k # id /\ attaching'[k] = attaching[k]
    BY <1>2
  <2>2. /\ k \notin sessions
        /\ \A d \in Controller : k \notin controller_sessions[d]
        /\ \A m \in NodeConn : k \notin node_sessions[m]
        /\ attaching[k] = "opening" =>
              entry[k].node # NULL /\ entry[k].controller # NULL /\ ~entry[k].expiry_timer
    BY <2>1 DEF UnopenedIsUnknown
  <2>3. k \notin sessions'
    BY <1>2, <2>1, <2>2
  <2>4. \A d \in Controller : k \notin controller_sessions'[d]
    <3> SUFFICES ASSUME NEW d \in Controller PROVE k \notin controller_sessions'[d]
      OBVIOUS
    <3>1. controller_sessions'[d] \in {controller_sessions[d], controller_sessions[d] \cup {id}}
      BY <1>2, Zenon
    <3>2. QED
      BY <2>1, <2>2, <3>1
  <2>5. \A m \in NodeConn : k \notin node_sessions'[m]
    <3> SUFFICES ASSUME NEW m \in NodeConn PROVE k \notin node_sessions'[m]
      OBVIOUS
    <3>1. node_sessions'[m] \in {node_sessions[m], node_sessions[m] \cup {id}}
      BY <1>2, Zenon
    <3>2. QED
      BY <2>1, <2>2, <3>1
  <2>6. QED
    BY <2>1, <2>2, <2>3, <2>4, <2>5
<1>5. ControllerOwnership'
  <2> SUFFICES ASSUME NEW d \in Controller, LiveController(d)
               PROVE  controller_sessions'[d] = {k \in sessions' : entry[k].controller = d}
    BY <1>2 DEF ControllerOwnership, LiveController, connVars
  <2>1. controller_sessions[d] = {k \in sessions : entry[k].controller = d}
    BY DEF ControllerOwnership
  <2>2. \A k : k \in controller_sessions'[d] <=> k \in sessions' /\ entry[k].controller = d
    <3>1. CASE entry[id].controller = d
      <4>1. controller_sessions'[d] = controller_sessions[d] \cup {id} /\ sessions' = sessions \cup {id}
        BY <1>2, <3>1, Zenon
      <4>2. QED
        BY <2>1, <3>1, <4>1
    <3>2. CASE entry[id].controller # d
      <4>1. controller_sessions'[d] = controller_sessions[d] /\ sessions' = sessions \cup {id}
        BY <1>2, <3>2, Zenon
      <4>2. QED
        BY <2>1, <3>2, <4>1
    <3>3. QED
      BY <3>1, <3>2
  <2>3. QED
    BY <2>2, <1>2, <2>1
<1>6. NodeOwnership'
  <2> SUFFICES ASSUME NEW m \in NodeConn, LiveNode(m)
               PROVE  node_sessions'[m] = {k \in sessions' : entry[k].node = m}
    BY <1>2 DEF NodeOwnership, LiveNode, connVars
  <2>1. node_sessions[m] = {k \in sessions : entry[k].node = m}
    BY DEF NodeOwnership
  <2>2. \A k : k \in node_sessions'[m] <=> k \in sessions' /\ entry[k].node = m
    <3>1. CASE entry[id].node = m
      <4>1. node_sessions'[m] = node_sessions[m] \cup {id} /\ sessions' = sessions \cup {id}
        BY <1>2, <3>1, Zenon
      <4>2. QED
        BY <2>1, <3>1, <4>1
    <3>2. CASE entry[id].node # m
      <4>1. node_sessions'[m] = node_sessions[m] /\ sessions' = sessions \cup {id}
        BY <1>2, <3>2, Zenon
      <4>2. QED
        BY <2>1, <3>2, <4>1
    <3>3. QED
      BY <3>1, <3>2
  <2>3. QED
    BY <2>2, <1>2, <2>1
<1>7. UnownedExpires'
  <2>1. \A k \in sessions : (entry[k].controller = NULL <=> entry[k].expiry_timer)
                              /\ (entry[k].node = NULL => entry[k].controller = NULL)
    BY DEF UnownedExpires
  <2>2. (entry[id].controller = NULL <=> entry[id].expiry_timer)
          /\ (entry[id].node = NULL => entry[id].controller = NULL)
    BY <1>1
  <2>3. QED
    BY <1>2, <2>1, <2>2 DEF UnownedExpires
<1>8. QED
  BY <1>3, <1>4, <1>5, <1>6, <1>7 DEF SessionInv

\* reattach () takes over a session that has no controller.
LEMMA ReattachInv ==
    ASSUME IInv, UNCHANGED <<connVars, nodeVars, spawnVars>>, NEW c \in Controller,
           NEW id \in SessionId, Reattach(c, id)
    PROVE  SessionInv'
<1> USE DEF IInv, TableInv
<1>1. /\ LiveController(c) /\ c \in connections \cup LocalChannel
      /\ c \in Conn => setup[c] # "authenticating"
  BY CallableIsActive DEF Reattach
<1>2. /\ id \in sessions /\ entry[id].controller = NULL /\ entry[id].node # NULL /\ c # NULL
      /\ UNCHANGED <<sessions, node_sessions, attaching>>
      /\ entry' = [entry EXCEPT ![id] = AttachController(@, c)]
      /\ controller_sessions' = [controller_sessions EXCEPT ![c] = @ \cup {id}]
  BY DisjointPeers DEF Reattach, Controller, Conn
<1>3. /\ \A k \in SessionId \ {id} : entry'[k] = entry[k]
      /\ entry'[id].controller = c /\ entry'[id].node = entry[id].node
      /\ ~entry'[id].expiry_timer
      /\ \A d \in Controller : controller_sessions'[d] =
            IF d = c THEN controller_sessions[d] \cup {id} ELSE controller_sessions[d]
  <2>1. /\ AttachController(entry[id], c).controller = c
        /\ AttachController(entry[id], c).node = entry[id].node
        /\ AttachController(entry[id], c).expiry_timer = FALSE
    BY DEF AttachController, TypeOK, AgentSessionEntry
  <2>2. entry'[id] = AttachController(entry[id], c) /\ \A k \in SessionId \ {id} : entry'[k] = entry[k]
    BY <1>2 DEF TypeOK
  <2>3. QED
    BY <1>2, <2>1, <2>2, ZenonT(30) DEF TypeOK
<1>4. InactiveLeavesNoTrace'
  <2>1. \A k \in Conn \cup LocalChannel : k # c /\ Unused(k) => Unused(k)'
    BY <1>2, <1>3 DEF Unused, nodeVars, spawnVars
  <2>2. QED
    BY <1>1, <2>1, DisjointPeers
    DEF InactiveLeavesNoTrace, LiveController, Controller, Conn, connVars
<1>5. UnopenedIsUnknown'
  BY <1>2, <1>3 DEF UnopenedIsUnknown
<1>6. ControllerOwnership'
  <2> SUFFICES ASSUME NEW d \in Controller, LiveController(d)
               PROVE  controller_sessions'[d] = {k \in sessions : entry'[k].controller = d}
    BY <1>2 DEF ControllerOwnership, LiveController, connVars
  <2>1. controller_sessions[d] = {k \in sessions : entry[k].controller = d} /\ d # NULL
    BY DisjointPeers DEF ControllerOwnership, Controller, Conn
  <2>2. QED
    BY <1>2, <1>3, <2>1 DEF TypeOK
<1>7. NodeOwnership'
  <2>1. \A k \in SessionId : entry'[k].node = entry[k].node
    BY <1>3
  <2>2. QED
    BY <1>2, <2>1 DEF NodeOwnership, LiveNode, connVars, TypeOK
<1>8. UnownedExpires'
  BY <1>2, <1>3 DEF UnownedExpires, TypeOK
<1>9. QED
  BY <1>4, <1>5, <1>6, <1>7, <1>8 DEF SessionInv

\* An expired session had no controller, and leaves its node's table.
LEMMA ExpiredInv ==
    ASSUME IInv, UNCHANGED <<connVars, nodeVars, spawnVars>>, NEW id \in SessionId, Expired(id)
    PROVE  SessionInv'
<1> USE DEF IInv, TableInv
<1>1. /\ id \in sessions /\ sessions' = sessions \ {id}
      /\ node_sessions' = LeaveNode({id})
      /\ UNCHANGED <<entry, controller_sessions, attaching>>
      /\ entry[id].controller = NULL
  BY DEF Expired, UnownedExpires
<1>2. \A n \in NodeConn : /\ node_sessions'[n] \subseteq node_sessions[n]
                          /\ \A k \in node_sessions[n] \ node_sessions'[n] : k = id
                          /\ entry[id].node = n => id \notin node_sessions'[n]
  BY <1>1 DEF LeaveNode
<1>3. InactiveLeavesNoTrace'
  <2>1. \A k \in Conn \cup LocalChannel : Unused(k) => Unused(k)'
    BY <1>1, <1>2, Zenon DEF Unused, nodeVars, spawnVars
  <2>2. QED
    BY <2>1 DEF InactiveLeavesNoTrace, connVars
<1>4. UnopenedIsUnknown'
  BY <1>1, <1>2, Zenon DEF UnopenedIsUnknown
<1>5. ControllerOwnership'
  <2> SUFFICES ASSUME NEW d \in Controller, LiveController(d)
               PROVE  controller_sessions[d] = {k \in sessions' : entry[k].controller = d}
    BY <1>1 DEF ControllerOwnership, LiveController, connVars
  <2>1. controller_sessions[d] = {k \in sessions : entry[k].controller = d} /\ d # NULL
    BY DisjointPeers DEF ControllerOwnership, Controller, Conn
  <2>2. QED
    BY <1>1, <2>1
<1>6. NodeOwnership'
  <2> SUFFICES ASSUME NEW m \in NodeConn, LiveNode(m)
               PROVE  node_sessions'[m] = {k \in sessions' : entry[k].node = m}
    BY <1>1, Zenon DEF NodeOwnership, LiveNode, connVars
  <2>1. node_sessions[m] = {k \in sessions : entry[k].node = m}
    BY DEF NodeOwnership
  <2>2. node_sessions'[m] = node_sessions[m] \ {k \in {id} : entry[k].node = m}
    BY <1>1 DEF LeaveNode
  <2>3. \A k : k \in node_sessions'[m] <=> k \in sessions' /\ entry[k].node = m
    BY <1>1, <2>1, <2>2, Zenon
  <2>4. QED
    BY <1>1, <2>1, <2>2, <2>3, Zenon
<1>7. UnownedExpires'
  BY <1>1 DEF UnownedExpires
<1>8. QED
  BY <1>3, <1>4, <1>5, <1>6, <1>7 DEF SessionInv

\* A failed attach () leaves the tables alone.
LEMMA OpenFailedInv ==
    ASSUME IInv, UNCHANGED <<connVars, nodeVars, spawnVars>>, NEW id \in SessionId, OpenFailed(id)
    PROVE  SessionInv'
<1> USE DEF IInv, TableInv
<1>1. /\ UNCHANGED <<sessions, entry, controller_sessions, node_sessions>>
      /\ \A k \in SessionId : attaching'[k] \in {"no", "opening"} => attaching'[k] = attaching[k]
  BY DEF OpenFailed, TypeOK
<1>2. QED
  <2>1. InactiveLeavesNoTrace'
    BY <1>1, UnusedFrame, TraceFrame DEF connVars, nodeVars, spawnVars
  <2>2. UnopenedIsUnknown'
    BY <1>1 DEF UnopenedIsUnknown
  <2>3. ControllerOwnership' /\ NodeOwnership' /\ UnownedExpires'
    BY <1>1, ControllerFrame, NodeFrame, ExpiryFrame DEF connVars
  <2>4. QED
    BY <2>1, <2>2, <2>3 DEF SessionInv

\* A link in progress changes only what its entry knows of the proxy.
LEMMA LinkInv ==
    ASSUME IInv, UNCHANGED <<connVars, nodeVars, spawnVars>>,
           UNCHANGED <<sessions, controller_sessions, node_sessions, attaching>>,
           \A k \in SessionId : /\ entry'[k].controller = entry[k].controller
                                /\ entry'[k].node = entry[k].node
                                /\ entry'[k].expiry_timer = entry[k].expiry_timer
    PROVE  SessionInv'
<1> USE DEF IInv, TableInv
<1>1. InactiveLeavesNoTrace' /\ UnopenedIsUnknown'
  <2>1. \A c \in Conn \cup LocalChannel : Unused(c) => Unused(c)'
    BY DEF Unused, nodeVars, spawnVars
  <2>2. InactiveLeavesNoTrace'
    BY <2>1, TraceFrame DEF connVars
  <2>3. UnopenedIsUnknown'
    BY DEF UnopenedIsUnknown
  <2>4. QED
    BY <2>2, <2>3
<1>2. ControllerOwnership' /\ NodeOwnership'
  <2>1. ControllerOwnership'
    BY DEF ControllerOwnership, LiveController, connVars, TypeOK
  <2>2. NodeOwnership'
    BY DEF NodeOwnership, LiveNode, connVars, TypeOK
  <2>3. QED
    BY <2>1, <2>2
<1>3. UnownedExpires'
  BY DEF UnownedExpires, TypeOK
<1>4. QED
  BY <1>1, <1>2, <1>3 DEF SessionInv

\* The steps of the sessions preserve the invariant.
LEMMA SessionStepInv ==
    ASSUME IInv, SessionStep
    PROVE  PeerLifecycle' /\ InactiveLeavesNoTrace' /\ TableInv'
<1>1. UNCHANGED <<connVars, nodeVars, spawnVars>>
  BY SessionFrame
<1>2. SessionInv'
  <2>1. ASSUME NEW id \in SessionId, Opened(id) PROVE SessionInv'
    BY <1>1, <2>1, OpenedInv
  <2>2. ASSUME NEW id \in SessionId, OpenFailed(id) PROVE SessionInv'
    BY <1>1, <2>2, OpenFailedInv
  <2>3. ASSUME NEW id \in SessionId, Expired(id) PROVE SessionInv'
    BY <1>1, <2>3, ExpiredInv
  <2>4. ASSUME NEW id \in SessionId, NEW c \in Controller, Reattach(c, id) PROVE SessionInv'
    BY <1>1, <2>4, ReattachInv
  <2>5. ASSUME NEW id \in SessionId, NEW c \in Controller, NEW p \in Pid,
               NEW persist \in BOOLEAN, Attach(c, p, id, persist)
        PROVE  SessionInv'
    BY <1>1, <2>5, AttachInv
  <2>6. ASSUME NEW id \in SessionId, NEW c \in LocalChannel, UnlinkAgentSession(c, id)
        PROVE  SessionInv'
    BY <1>1, <2>6, LinkInv DEF UnlinkAgentSession
  <2>7. ASSUME NEW l \in links, SessionLinked(l) PROVE SessionInv'
    <3>1. l.id \in SessionId
      BY DEF IInv, TypeOK, Link
    <3>2. \A k \in SessionId : /\ entry'[k].controller = entry[k].controller
                               /\ entry'[k].node = entry[k].node
                               /\ entry'[k].expiry_timer = entry[k].expiry_timer
      BY <2>7, <3>1 DEF SessionLinked, IInv, TypeOK, AgentSessionEntry
    <3>3. QED
      BY <1>1, <2>7, <3>2, LinkInv DEF SessionLinked
  <2>8. ASSUME NEW l \in links, SinkLinked(l) \/ LinkAgentSession(l) \/ LinkCancelled(l)
        PROVE  SessionInv'
    BY <1>1, <2>8, LinkInv DEF SinkLinked, LinkAgentSession, LinkCancelled, Export, Dropped
  <2>9. QED
    BY <2>1, <2>2, <2>3, <2>4, <2>5, <2>6, <2>7, <2>8 DEF SessionStep
<1>3. QED
  BY <1>2, SessionFrame DEF SessionInv, TableInv
=============================================================================
