------------------------- MODULE PortalOrphanProofs -------------------------
(* A session is left to a peer that is gone by attach () only. *)
EXTENDS PortalServiceProofs

\* What a step may do to a session that the portal knows: it forgets owners, or gives the
\* session to a peer that is live and stays so.
Owners(id) ==
    /\ entry'[id].controller # entry[id].controller =>
          \/ entry'[id].controller = NULL
          \/ object' = object /\ object[entry'[id].controller] = "control"
    /\ entry'[id].node # entry[id].node =>
          \/ entry'[id].node = NULL
          \/ object' = object /\ object[entry'[id].node] = "node"

Known == \A id \in sessions' : id \in sessions \/ attaching[id] = "opening"

Kept == Known /\ \A id \in sessions : Owners(id)

\* Steps without a teardown and teardowns only forget.
LEMMA TeardownKept ==
    ASSUME IInv, NEW C \in SUBSET Controller, NEW N \in SUBSET NodeConn,
           NoTeardown \/ Teardown(C, N)
    PROVE  Kept
<1>1. CASE NoTeardown
  BY <1>1 DEF NoTeardown, sessionVars, Kept, Known, Owners
<1>2. CASE Teardown(C, N)
  <2>1. \A id \in SessionId : /\ entry'[id].controller \in {NULL, entry[id].controller}
                              /\ entry'[id].node \in {NULL, entry[id].node}
    BY <1>2, DetachFields, Zenon DEF Teardown, IInv, TypeOK
  <2>2. sessions' \subseteq sessions /\ sessions \subseteq SessionId
    BY <1>2 DEF Teardown, IInv, TypeOK
  <2>3. QED
    BY <2>1, <2>2 DEF Kept, Known, Owners
<1>3. QED
  BY <1>1, <1>2

\* A step that keeps the entries and adds no session.
LEMMA QuietKept ==
    ASSUME entry' = entry, sessions' \subseteq sessions
    PROVE  Kept
BY DEF Kept, Known, Owners

\* A node that joins takes sessions that have no node.
LEMMA ReclaimKept ==
    ASSUME IInv, NEW n \in NodeConn, NEW ids \in SUBSET sessions, Reclaim(n, ids),
           object[n] = "node", object' = object
    PROVE  Kept
<1>1. \A id \in sessions : /\ entry'[id].controller = entry[id].controller
                           /\ entry'[id].node \in {n, entry[id].node}
  BY DEF Reclaim, IInv, TypeOK, AgentSessionEntry
<1>2. sessions' = sessions
  BY DEF Reclaim
<1>3. QED
  BY <1>1, <1>2 DEF Kept, Known, Owners

\* The steps of the service and of its connections.
LEMMA ConnectionKept == IInv /\ (ServiceStep \/ ConnectionStep) => Kept
<1> SUFFICES ASSUME IInv, ServiceStep \/ ConnectionStep PROVE Kept
  OBVIOUS
<1>1. \E C \in SUBSET Controller, N \in SUBSET NodeConn : NoTeardown \/ Teardown(C, N)
  <2>1. CASE ServiceStep
    <3>1. ~Stop => NoTeardown
      BY <2>1 DEF ServiceStep, Start, StartFinished, Listen
    <3>2. Stop => Teardown(peers \cap ControlConn, peers \cap NodeConn)
      BY DEF Stop
    <3>3. peers \cap ControlConn \in SUBSET Controller /\ peers \cap NodeConn \in SUBSET NodeConn
      BY DEF Controller
    <3>4. QED
      BY <3>1, <3>2, <3>3
  <2>2. ASSUME NEW c \in Conn,
               \/ Incoming(c) \/ SetupFinished(c) \/ Authenticate(c) \/ Authenticated(c)
               \/ AuthenticationFailed(c) \/ \E t \in Tag : AddTag(c, t) \/ RemoveTag(c, t)
        PROVE  NoTeardown
    BY <2>2 DEF Incoming, SetupFinished, Authenticate, Authenticated, AuthenticationFailed,
                AddTag, RemoveTag
  <2>3. ASSUME NEW c \in Conn, Closed(c)
        PROVE  NoTeardown \/ Teardown({c} \cap ControlConn, {c} \cap NodeConn)
    BY <2>3 DEF Closed
  <2>4. ASSUME NEW c \in Conn
        PROVE  {c} \cap ControlConn \in SUBSET Controller /\ {c} \cap NodeConn \in SUBSET NodeConn
    BY DEF Controller
  <2>5. ASSUME NEW l \in LocalChannel, CreateLocal(l) \/ DestroyLocal(l)
        PROVE  NoTeardown \/ Teardown({l}, {})
    BY <2>5 DEF CreateLocal, DestroyLocal
  <2>6. \A l \in LocalChannel : {l} \in SUBSET Controller /\ {} \in SUBSET NodeConn
    BY DEF Controller
  <2>7. CASE ConnectionStep
    <3>1. CASE \E c \in Conn : Closed(c)
      BY <2>3, <2>4, <3>1
    <3>2. CASE \E l \in LocalChannel : CreateLocal(l) \/ DestroyLocal(l)
      BY <2>5, <2>6, <3>2
    <3>3. CASE NoTeardown
      BY <3>3
    <3>4. QED
      BY <2>2, <2>7, <3>1, <3>2, <3>3 DEF ConnectionStep
  <2>8. QED
    BY <2>1, <2>7
<1>2. QED
  BY <1>1, TeardownKept

\* Those of the nodes.
LEMMA NodeKept == IInv /\ NodeStep => Kept
<1> SUFFICES ASSUME IInv, NEW n \in NodeConn,
                    \/ \E pid \in Pid, identifier \in Identifier, suspended \in BOOLEAN,
                          acl \in Acl, interrupted \in SUBSET Live :
                          Join(n, pid, identifier, suspended, acl, interrupted)
                    \/ \E acl \in Acl, interrupted \in SUBSET Live :
                          JoinRejected(n, acl, interrupted)
                    \/ \E id \in SessionId : SessionClosed(n, id)
             PROVE  Kept
  BY DEF NodeStep
<1>1. ASSUME NEW pid, NEW identifier, NEW suspended, NEW acl, NEW interrupted,
             Join(n, pid, identifier, suspended, acl, interrupted)
      PROVE  Kept
  <2>1. Reclaim(n, interrupted \cap sessions) /\ object[n] = "node" /\ object' = object
    BY <1>1 DEF Join
  <2>2. QED
    BY <2>1, ReclaimKept
<1>2. ASSUME NEW acl, NEW interrupted, JoinRejected(n, acl, interrupted) PROVE Kept
  <2>1. object[n] = "node" /\ object' = object
    BY <1>2 DEF JoinRejected
  <2>2. PICK ids \in SUBSET {id \in interrupted \cap sessions : entry[id].node = NULL} :
           Reclaim(n, ids)
    BY <1>2 DEF JoinRejected
  <2>3. QED
    BY <2>1, <2>2, ReclaimKept
<1>3. ASSUME NEW id \in SessionId, SessionClosed(n, id) PROVE Kept
  BY <1>3, QuietKept DEF SessionClosed
<1>4. QED
  BY <1>1, <1>2, <1>3

\* Those of the sessions: attach () registers one, reattach () gives one to its caller.
LEMMA SessionKept == IInv /\ SessionStep => Kept
<1> SUFFICES ASSUME IInv, SessionStep PROVE Kept
  OBVIOUS
<1> USE DEF IInv
<1>1. object' = object
  BY SessionFrame DEF connVars
<1>2. ASSUME NEW id \in SessionId, Opened(id) PROVE Kept
  BY <1>2 DEF Opened, Kept, Known, Owners
<1>3. ASSUME NEW id \in SessionId, OpenFailed(id) \/ Expired(id) PROVE Kept
  BY <1>3, QuietKept DEF OpenFailed, Expired
<1>4. ASSUME NEW id \in SessionId, NEW c \in Controller, Reattach(c, id) PROVE Kept
  <2>1. object[c] = "control" /\ sessions' = sessions
        /\ entry' = [entry EXCEPT ![id] = AttachController(@, c)]
    BY <1>4 DEF Reattach, Callable
  <2>2. /\ AttachController(entry[id], c).controller = c
        /\ AttachController(entry[id], c).node = entry[id].node
    BY DEF AttachController, TypeOK, AgentSessionEntry
  <2>3. /\ entry'[id].controller = c /\ entry'[id].node = entry[id].node
        /\ \A k \in SessionId \ {id} : entry'[k] = entry[k]
    BY <2>1, <2>2 DEF TypeOK
  <2>4. QED
    BY <1>1, <2>1, <2>3 DEF Kept, Known, Owners, TypeOK
<1>5. ASSUME NEW id \in SessionId, NEW c \in Controller, NEW p \in Pid, NEW persist \in BOOLEAN,
             Attach(c, p, id, persist)
      PROVE  Kept
  <2>1. sessions' = sessions /\ id \notin sessions
    BY <1>5 DEF Attach, TableInv, UnopenedIsUnknown
  <2>2. \A k \in sessions : entry'[k] = entry[k]
    BY <1>5, <2>1 DEF Attach, TypeOK
  <2>3. QED
    BY <2>1, <2>2 DEF Kept, Known, Owners
<1>6. ASSUME NEW id \in SessionId, NEW c \in LocalChannel, UnlinkAgentSession(c, id) PROVE Kept
  BY <1>6, QuietKept DEF UnlinkAgentSession
<1>7. ASSUME NEW l \in links, SessionLinked(l) PROVE Kept
  <2>1. \A k \in SessionId : /\ entry'[k].controller = entry[k].controller
                             /\ entry'[k].node = entry[k].node
    BY <1>7 DEF SessionLinked, TypeOK, AgentSessionEntry, Link
  <2>2. sessions' = sessions
    BY <1>7 DEF SessionLinked
  <2>3. QED
    BY <2>1, <2>2 DEF Kept, Known, Owners, TypeOK
<1>8. ASSUME NEW l \in links, SinkLinked(l) \/ LinkAgentSession(l) \/ LinkCancelled(l)
      PROVE  Kept
  BY <1>8, QuietKept DEF SinkLinked, LinkAgentSession, LinkCancelled, Export, Dropped
<1>9. QED
  BY <1>2, <1>3, <1>4, <1>5, <1>6, <1>7, <1>8 DEF SessionStep

\* Every step keeps the owners of the sessions, or gives them away to live peers.
LEMMA StepKept == IInv /\ [Next]_vars => Kept
<1> SUFFICES ASSUME IInv, [Next]_vars PROVE Kept
  OBVIOUS
<1>1. CASE SpawnStep
  <2>1. UNCHANGED sessionVars
    BY <1>1, Zenon DEF SpawnStep, EnableSpawnGating, DisableSpawnGating, Resume
  <2>2. QED
    BY <2>1, QuietKept DEF sessionVars
<1>2. CASE UNCHANGED vars
  BY <1>2, QuietKept DEF vars, sessionVars
<1>3. QED
  BY <1>1, <1>2, ConnectionKept, NodeKept, SessionKept DEF Next

\* A step that orphans a session opens it: a peer that goes away releases what it owns, and
\* one that nothing refers to owns nothing.
LEMMA OrphanStep == IInv /\ IInv' /\ [Next]_vars => OrphansAtBirth
<1> SUFFICES ASSUME IInv, IInv', [Next]_vars, NEW id \in SessionId, Orphaned(id)',
                    attaching[id] # "opening"
             PROVE  Orphaned(id)
  BY DEF OrphansAtBirth
<1> USE DEF IInv
<1>1. Releases /\ Kept
  BY ReleasesStep, StepKept
<1>2. id \in sessions /\ id \in sessions' /\ Owners(id)
  BY <1>1 DEF Kept, Known, Orphaned
<1>3. ASSUME entry'[id].controller # NULL, object'[entry'[id].controller] = "closed"
      PROVE  entry[id].controller # NULL /\ object[entry[id].controller] = "closed"
  <2> DEFINE c == entry'[id].controller
  <2>1. c \in Controller /\ c \in Conn \cup LocalChannel
    BY <1>3 DEF TypeOK, AgentSessionEntry, Controller, Conn
  <2>2. entry[id].controller = c
    BY <1>2, <1>3 DEF Owners
  <2>3. object[c] \in {"closed", "control", "node", "auth", "none"}
    BY <2>1 DEF TypeOK
  <2>4. object[c] # "control"
    BY <1>1, <1>2, <1>3, <2>1 DEF Releases, LiveController
  <2>5. object[c] # "node"
    BY <2>1, DisjointPeers DEF PeerLifecycle, Controller, Conn
  <2>6. object[c] \notin {"auth", "none"}
    BY <2>1, <2>2 DEF InactiveLeavesNoTrace, Unused
  <2>7. QED
    BY <1>3, <2>2, <2>3, <2>4, <2>5, <2>6
<1>4. ASSUME entry'[id].node # NULL, object'[entry'[id].node] = "closed"
      PROVE  entry[id].node # NULL /\ object[entry[id].node] = "closed"
  <2> DEFINE n == entry'[id].node
  <2>1. n \in NodeConn /\ n \in Conn
    BY <1>4 DEF TypeOK, AgentSessionEntry, Conn
  <2>2. entry[id].node = n
    BY <1>2, <1>4 DEF Owners
  <2>3. object[n] \in {"none", "auth", "closed", "node"}
    BY <2>1 DEF PeerLifecycle
  <2>4. object[n] # "node"
    BY <1>1, <1>2, <1>4, <2>1 DEF Releases, LiveNode
  <2>5. object[n] \notin {"auth", "none"}
    BY <2>1, <2>2 DEF InactiveLeavesNoTrace, Unused
  <2>6. QED
    BY <1>4, <2>2, <2>3, <2>4, <2>5
<1>5. QED
  BY <1>2, <1>3, <1>4 DEF Orphaned

\* No step but the end of attach () leaves a session to a channel or a node that is gone, for
\* any number of them.
THEOREM OrphansCorrect == Spec => OrphanedOnlyByAttach
BY Invariance, OrphanStep, PTL DEF Spec, OrphanedOnlyByAttach
=============================================================================
