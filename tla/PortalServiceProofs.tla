------------------------ MODULE PortalServiceProofs -------------------------
(* Theorems about the portal, for any sets of connections, sessions and pids. *)
EXTENDS PortalSessionProofs

-----------------------------------------------------------------------------
(* The theorems *)

\* Every step preserves the inductive invariant.
LEMMA InvStep == IInv /\ [Next]_vars => IInv'
<1> SUFFICES ASSUME IInv, [Next]_vars PROVE IInv'
  OBVIOUS
<1>1. TypeOK'
  BY TypeStep DEF IInv, TableInv
<1>2. PeerLifecycle' /\ InactiveLeavesNoTrace' /\ TableInv'
  <2>1. CASE Next
    BY <2>1, ServiceInv, ConnectionInv, SpawnInv, NodeInv, SessionStepInv DEF Next
  <2>2. CASE UNCHANGED vars
    BY <2>2
    DEF IInv, TableInv, PeerLifecycle, InactiveLeavesNoTrace, Unused, UnopenedIsUnknown,
        ControllerOwnership, NodeOwnership, UnownedExpires, Registered, SpawnsAwaitGaters,
        GatersAreControllers, LiveController, LiveNode, vars, connVars, nodeVars, spawnVars,
        sessionVars
  <2>3. QED
    BY <2>1, <2>2
<1>3. QED
  BY <1>1, <1>2 DEF IInv

\* The inductive invariant holds of every behaviour of the portal.
THEOREM Invariance == Spec => []IInv
BY InvInit, InvStep, PTL DEF Spec

\* Every variable of the portal keeps its type.
THEOREM TypeCorrect == Spec => []TypeOK
<1>1. IInv => TypeOK
  BY DEF IInv
<1>2. QED
  BY <1>1, Invariance, PTL

\* The session tables of the live controllers agree with `sessions`, for any number of
\* peers and sessions: teardown_control_channel () always finds the entry it dereferences.
THEOREM OwnershipCorrect == Spec => []ControllerOwnership
<1>1. IInv => ControllerOwnership
  BY DEF IInv, TableInv
<1>2. QED
  BY <1>1, Invariance, PTL

\* So do those of the live nodes, on which teardown_cluster_node () relies.
THEOREM NodeOwnershipCorrect == Spec => []NodeOwnership
<1>1. IInv => NodeOwnership
  BY DEF IInv, TableInv
<1>2. QED
  BY <1>1, Invariance, PTL

\* The expiry timer runs exactly while a session has no controller.
THEOREM ExpiryCorrect == Spec => []UnownedExpires
<1>1. IInv => UnownedExpires
  BY DEF IInv, TableInv
<1>2. QED
  BY <1>1, Invariance, PTL

\* The tables of nodes hold exactly the nodes that joined and are still there.
THEOREM RegistrationCorrect == Spec => []Registered
<1>1. IInv => Registered
  BY DEF IInv, TableInv
<1>2. QED
  BY <1>1, Invariance, PTL

\* A suspended process waits for a spawn gater, and the assertion of resume () that
\* its node is registered holds.
THEOREM GatingCorrect == Spec => []SpawnsAwaitGaters
<1>1. IInv => SpawnsAwaitGaters
  BY DEF IInv, TableInv
<1>2. QED
  BY <1>1, Invariance, PTL

\* The gaters it waits for are channels that were not torn down.
THEOREM GatersCorrect == Spec => []GatersAreControllers
<1>1. IInv => GatersAreControllers
  BY DEF IInv, TableInv
<1>2. QED
  BY <1>1, Invariance, PTL

\* on_connection_closed () always finds the entry of an installed peer.
THEOREM PeersCorrect == Spec => []PeersHaveEntries
<1>1. IInv => PeersHaveEntries
  BY DEF IInv, TypeOK, PeerLifecycle, PeersHaveEntries
<1>2. QED
  BY <1>1, Invariance, PTL

\* A teardown takes every session from the peers it is for.
LEMMA TeardownFrees ==
    ASSUME IInv, NEW C \in SUBSET Controller, NEW N \in SUBSET NodeConn, Teardown(C, N),
           \A c \in C : object[c] \in {"auth", "control"},
           \A n \in N : object[n] \in {"auth", "node"}
    PROVE  \A id \in sessions' : entry'[id].controller \notin C /\ entry'[id].node \notin N
<1> USE DEF IInv, TableInv
<1> DEFINE ofControllers == UNION {controller_sessions[c] : c \in C}
           ofNodes == UNION {node_sessions[n] : n \in N}
           dropped == {id \in ofControllers \cup ofNodes : Drops(id)}
           kept == (ofControllers \cup ofNodes) \ dropped
<1>1. /\ sessions' = sessions \ dropped
      /\ entry' = [id \in SessionId |->
              IF id \in kept \cap ofNodes THEN DetachNodeAndController(entry[id])
              ELSE IF id \in kept THEN DetachController(entry[id])
              ELSE entry[id]]
  BY DEF Teardown
<1>2. ofControllers = {id \in sessions : entry[id].controller \in C}
  BY DEF ControllerOwnership, LiveController, InactiveLeavesNoTrace, Unused, Controller, Conn, TypeOK
<1>3. ofNodes = {id \in sessions : entry[id].node \in N}
  BY DEF NodeOwnership, LiveNode, InactiveLeavesNoTrace, Unused, Conn, TypeOK
<1> HIDE DEF ofControllers, ofNodes
<1>4. \A id \in SessionId :
         /\ entry'[id].controller = IF id \in kept THEN NULL ELSE entry[id].controller
         /\ entry'[id].node = IF id \in kept \cap ofNodes THEN NULL ELSE entry[id].node
  BY <1>1, DetachFields, Zenon DEF TypeOK
<1>5. NULL \notin C /\ NULL \notin N
  BY DisjointPeers DEF Controller, Conn
<1>6. dropped \cup kept = ofControllers \cup ofNodes
  OBVIOUS
<1> HIDE DEF dropped, kept
<1>7. QED
  BY <1>1, <1>2, <1>3, <1>4, <1>5, <1>6 DEF TypeOK

\* A step that closes only peers it tears down, or that nothing refers to, releases
\* their sessions.
LEMMA ClosingReleases ==
    ASSUME IInv, NEW C \in SUBSET Controller, NEW N \in SUBSET NodeConn, Teardown(C, N),
           \A c \in C : object[c] \in {"auth", "control"},
           \A n \in N : object[n] \in {"auth", "node"},
           \A c \in Conn \cup LocalChannel : object'[c] # object[c] => c \in C \cup N \/ Unused(c),
           sessions' \subseteq SessionId
    PROVE  Releases
<1>1. \A id \in sessions' : entry'[id].controller \notin C /\ entry'[id].node \notin N
  BY TeardownFrees
<1>2. \A c \in Conn \cup LocalChannel : Unused(c) => Unused(c)'
  BY UnusedStays DEF IInv
<1>3. \A c \in Controller : LiveController(c) /\ ~LiveController(c)' =>
         \A id \in sessions' : entry'[id].controller # c
  BY <1>1, <1>2, DisjointPeers DEF LiveController, Unused, Controller, Conn
<1>4. \A n \in NodeConn : LiveNode(n) /\ ~LiveNode(n)' =>
         \A id \in sessions' : entry'[id].node # n
  BY <1>1, <1>2, DisjointPeers DEF LiveNode, Unused, Controller, Conn
<1>5. QED
  BY <1>3, <1>4 DEF Releases

\* So does one without a teardown that closes only peers nothing refers to.
LEMMA QuietReleases ==
    ASSUME IInv, NoTeardown, sessions' \subseteq SessionId,
           \A c \in Conn \cup LocalChannel :
              object'[c] # object[c] => Unused(c) \/ object[c] \notin {"control", "node"}
    PROVE  Releases
<1>1. \A c \in Conn \cup LocalChannel : Unused(c) => Unused(c)'
  BY UnusedStays DEF IInv
<1>2. \A c \in Controller : LiveController(c) /\ ~LiveController(c)' =>
         \A id \in sessions' : entry'[id].controller # c
  BY <1>1 DEF LiveController, Unused, Controller, Conn
<1>3. \A n \in NodeConn : LiveNode(n) /\ ~LiveNode(n)' =>
         \A id \in sessions' : entry'[id].node # n
  BY <1>1 DEF LiveNode, Unused, Conn
<1>4. QED
  BY <1>2, <1>3 DEF Releases

\* Every step of the portal releases the sessions of the peers that it closes.
LEMMA ReleasesStep == IInv /\ IInv' /\ [Next]_vars => Releases
<1> SUFFICES ASSUME IInv, IInv', [Next]_vars PROVE Releases
  OBVIOUS
<1> USE DEF IInv
<1>1. sessions' \subseteq SessionId
  BY DEF TypeOK
<1>2. ASSUME object' = object PROVE Releases
  BY <1>2 DEF Releases, LiveController, LiveNode
<1>3. CASE Stop
  <2> DEFINE C == peers \cap ControlConn
             N == peers \cap NodeConn
  <2>1. C \in SUBSET Controller /\ N \in SUBSET NodeConn /\ Teardown(C, N)
    BY <1>3 DEF Stop, Controller
  <2>2. /\ \A c \in C : object[c] \in {"auth", "control"}
        /\ \A n \in N : object[n] \in {"auth", "node"}
    BY DisjointPeers DEF PeerLifecycle, Conn
  <2>3. \A c \in Conn \cup LocalChannel : object'[c] # object[c] => c \in C \cup N \/ Unused(c)
    BY <1>3 DEF Stop, InactiveLeavesNoTrace, Conn, TypeOK
  <2>4. QED
    BY <1>1, <2>1, <2>2, <2>3, ClosingReleases
<1>4. CASE ServiceStep /\ ~Stop
  BY <1>2, <1>4 DEF ServiceStep, Start, StartFinished, Listen
<1>5. CASE ConnectionStep
  <2>1. ASSUME NEW c \in Conn, Incoming(c) \/ SetupFinished(c) \/ Authenticated(c)
        PROVE  Releases
    <3>1. NoTeardown /\ \A k \in Conn \cup LocalChannel : object'[k] # object[k] => k = c
      BY <2>1 DEF Incoming, SetupFinished, Authenticated, TypeOK
    <3>2. object'[c] # object[c] => Unused(c) \/ object[c] \notin {"control", "node"}
      BY <2>1 DEF Incoming, SetupFinished, Authenticated, PeerLifecycle, InactiveLeavesNoTrace
    <3>3. QED
      BY <1>1, <3>1, <3>2, QuietReleases
  <2>2. ASSUME NEW c \in Conn, Closed(c) PROVE Releases
    <3>1. CASE c \notin peers \/ object[c] = "auth"
      BY <1>1, <2>2, <3>1, QuietReleases DEF Closed, TypeOK
    <3>2. CASE c \in peers /\ object[c] # "auth"
      <4>1. Teardown({c} \cap ControlConn, {c} \cap NodeConn)
        BY <2>2, <3>2 DEF Closed
      <4>2. /\ \A k \in {c} \cap ControlConn : object[k] \in {"auth", "control"}
            /\ \A k \in {c} \cap NodeConn : object[k] \in {"auth", "node"}
            /\ {c} \cap ControlConn \in SUBSET Controller /\ {c} \cap NodeConn \in SUBSET NodeConn
        BY <3>2, DisjointPeers DEF PeerLifecycle, Conn, Controller
      <4>3. \A k \in Conn \cup LocalChannel : object'[k] # object[k] =>
               k \in ({c} \cap ControlConn) \cup ({c} \cap NodeConn)
        BY <2>2, <3>2 DEF Closed, TypeOK, Conn
      <4>4. QED
        BY <1>1, <4>1, <4>2, <4>3, ClosingReleases
    <3>3. QED
      BY <3>1, <3>2
  <2>3. ASSUME NEW l \in LocalChannel, CreateLocal(l) PROVE Releases
    BY <1>1, <2>3, QuietReleases DEF CreateLocal, TypeOK
  <2>4. ASSUME NEW l \in LocalChannel, DestroyLocal(l) PROVE Releases
    <3>1. Teardown({l}, {}) /\ object[l] = "control" /\ {l} \in SUBSET Controller
      BY <2>4 DEF DestroyLocal, Controller
    <3>2. \A k \in Conn \cup LocalChannel : object'[k] # object[k] => k \in {l} \cup {}
      BY <2>4 DEF DestroyLocal, TypeOK
    <3>3. QED
      BY <1>1, <3>1, <3>2, ClosingReleases
  <2>5. ASSUME NEW c \in Conn,
               \/ Authenticate(c) \/ AuthenticationFailed(c)
               \/ \E t \in Tag : AddTag(c, t) \/ RemoveTag(c, t)
        PROVE  Releases
    BY <1>2, <2>5 DEF Authenticate, AuthenticationFailed, AddTag, RemoveTag
  <2>6. QED
    BY <1>5, <2>1, <2>2, <2>3, <2>4, <2>5 DEF ConnectionStep
<1>6. CASE SpawnStep \/ NodeStep
  <2>1. SpawnStep => object' = object
    BY Zenon DEF SpawnStep, EnableSpawnGating, DisableSpawnGating, Resume, connVars
  <2>2. NodeStep => object' = object
    <3>1. ASSUME NEW n, NEW pid, NEW identifier, NEW suspended, NEW acl, NEW interrupted,
                 Join(n, pid, identifier, suspended, acl, interrupted)
          PROVE  object' = object
      BY <3>1 DEF Join
    <3>2. ASSUME NEW n, NEW acl, NEW interrupted, JoinRejected(n, acl, interrupted)
          PROVE  object' = object
      BY <3>2 DEF JoinRejected
    <3>3. ASSUME NEW n, NEW id, SessionClosed(n, id) PROVE object' = object
      BY <3>3 DEF SessionClosed, connVars
    <3>4. QED
      BY <3>1, <3>2, <3>3 DEF NodeStep
  <2>3. QED
    BY <1>2, <1>6, <2>1, <2>2
<1>7. CASE SessionStep
  BY <1>2, <1>7, SessionFrame DEF connVars
<1>8. CASE UNCHANGED vars
  BY <1>2, <1>8 DEF vars, connVars
<1>9. QED
  BY <1>3, <1>4, <1>5, <1>6, <1>7, <1>8 DEF Next

\* Whenever a channel or a node goes away, for whatever reason, it leaves with no
\* session in its hands.
THEOREM ReleaseCorrect == Spec => TeardownReleases
BY Invariance, ReleasesStep, PTL DEF Spec, TeardownReleases
=============================================================================
