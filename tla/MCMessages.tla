------------------------------ MODULE MCMessages ----------------------------
(***************************************************************************)
(* The messages of a session whose connection breaks (MessageDelivery),    *)
(* and of one that moves to a peer-to-peer connection (PeerMigration), for *)
(* TLC.  A behaviour is about the one that `component` names; the other    *)
(* rests in its initial state.                                             *)
(***************************************************************************)
EXTENDS MessageDelivery

VARIABLES
    component,
    m_setup, m_active, m_obsolete, m_state, m_timer, m_sink, m_peer, m_closure, m_posted,
    m_pending, m_sending, m_net, m_received

migrationVars == <<m_setup, m_active, m_obsolete, m_state, m_timer, m_sink, m_peer, m_closure,
                   m_posted, m_pending, m_sending, m_net, m_received>>
allVars == <<component, vars, migrationVars>>

Migration == INSTANCE PeerMigration WITH
    PostLimit <- [client |-> 2, agent |-> 1], setup <- m_setup, active <- m_active,
    obsolete <- m_obsolete, state <- m_state, timer <- m_timer, sink <- m_sink, peer <- m_peer,
    closure <- m_closure, posted <- m_posted, pending <- m_pending, sending <- m_sending,
    net <- m_net, received <- m_received

ASSUME Migration!ConstantsOK

MCInit == component \in {"delivery", "migration"} /\ Init /\ Migration!Init

Delivery(A) == component = "delivery" /\ A /\ UNCHANGED <<component, migrationVars>>

Moving(A) == component = "migration" /\ A /\ UNCHANGED <<component, vars>>

MCNext == Delivery(Next) \/ Moving(Migration!Next)

\* Fairness of MessageDelivery and of PeerMigration, of which only one moves in a behaviour.
MCFairness ==
    /\ \A e \in End :
          /\ WF_allVars(Delivery(PostMessages(e)) \/ Moving(Migration!Transfer(e)))
          /\ WF_allVars(Delivery(Answered(e)))
          /\ WF_allVars(Delivery(CallFails(e)))
    /\ WF_allVars(Delivery(OnDetached) \/ Moving(Migration!Agent))
    /\ WF_allVars(Delivery(Interrupt) \/ Moving(Migration!Client))
    /\ WF_allVars(Delivery(ResumeBegin)) /\ WF_allVars(Delivery(AgentResume))
    /\ WF_allVars(Delivery(AgentIdle)) /\ WF_allVars(Delivery(ResumeEnd))

MCSpec == MCInit /\ [][MCNext]_allVars /\ MCFairness
-----------------------------------------------------------------------------
\* Whatever is rejected, sent again or cancelled while the session moves, nothing that was posted is
\* lost, although begin_migration () makes the agent reject what the client sends: it was handed to
\* the scripts or its sender still has it.  And no script is given a message twice, until the
\* peer-to-peer connection breaks: the agent may then send again what it sent before.
ConservesMessages == Migration!TakenOnce /\ Migration!NothingIsLost

\* A session whose move was completed goes back to the server's when the peer-to-peer connection
\* breaks.  It is only without one if that happens while do_setup_peer_connection () still runs,
\* or after it was cancelled: obsolete_session is null by then, or is made active too early.
StrandedInSetupOnly == Migration!StrandedInSetupOnly

\* The agent does not stay interrupted: it is live again, or its expiry timer runs, unless the
\* caller cancelled in between; then nothing commits the migration.  What its scripts post while
\* the session moves is sent when it has.
MigrationEnds == Migration!MigrationEnds /\ Migration!AgentCatchesUp
=============================================================================
