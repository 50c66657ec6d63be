--------------------------- MODULE PeerMigration ---------------------------
(***************************************************************************)
(* A persistent session moves to a peer-to-peer connection:                *)
(* Session.do_setup_peer_connection () of src/src/frida.vala at the        *)
(* client, begin_migration () and commit_migration () of                   *)
(* AgentMessageTransmitter in src/lib/base/session.vala at the agent.      *)
(*                                                                         *)
(* The two ends then have two paths between them, each of which keeps the  *)
(* order of its packets.  The peer-to-peer one can break at any time; what *)
(* happens when the other does is the subject of MessageDelivery.          *)
(***************************************************************************)
EXTENDS Naturals, Sequences, SequencesExt

CONSTANT PostLimit      \* [end -> bound on its messages]

End == {"client", "agent"}

ConstantsOK == PostLimit \in [End -> Nat]

Path == {"server", "peer"}

Other(e) == IF e = "client" THEN "agent" ELSE "client"

VARIABLES
    setup,          \* what do_setup_peer_connection () waits for
    active, obsolete,   \* active_session and obsolete_session: a path, or null
    state,          \* [end -> live (ATTACHED, LIVE) or interrupted]
    timer,          \* expiry_timer # null
    sink,           \* nice_message_sink # null
    peer,           \* the peer-to-peer connection: none, open or closed
    closure,        \* [end -> handle_nice_connection_closure (): no, closing or over]
    posted,         \* [end -> number of messages]
    pending,        \* [end -> pending_messages]
    sending,        \* [end -> suspended deliver_batch () calls]
    net,            \* [end -> [path -> packets it sent]]
    received        \* [end -> messages handed to the scripts]

migrationVars == <<setup, active, obsolete>>
linkVars == <<sink, peer, closure>>
queueVars == <<posted, pending, sending, net, received>>
vars == <<migrationVars, state, timer, linkVars, queueVars>>

Init ==
    /\ setup = "no" /\ active = "server" /\ obsolete = "null"
    /\ state = [e \in End |-> "live"] /\ timer = FALSE
    /\ sink = FALSE /\ peer = "none" /\ closure = [e \in End |-> "no"]
    /\ posted = [e \in End |-> 0] /\ pending = [e \in End |-> <<>>] /\ sending = [e \in End |-> {}]
    /\ net = [e \in End |-> [p \in Path |-> <<>>]] /\ received = [e \in End |-> <<>>]
-----------------------------------------------------------------------------
(* Messages *)

Usable(p) == p = "server" \/ peer = "open"

\* net after end e sent a packet on path p; a closed connection takes none.
Sent(n, e, p, packet) == IF Usable(p) THEN [n EXCEPT ![e][p] = Append(@, packet)] ELSE n

\* The path that maybe_deliver_pending_messages () takes.
PathOf(e) == IF e = "client" THEN active ELSE IF sink THEN "peer" ELSE "server"

\* maybe_deliver_pending_messages () of end e, whose state is s, on the queue, with the net as it is by then.
MaybeDeliver(e, s, queue, n) ==
    IF s # "live" \/ queue = <<>>
    THEN /\ pending' = [pending EXCEPT ![e] = queue] /\ net' = n /\ UNCHANGED sending
    ELSE /\ pending' = [pending EXCEPT ![e] = <<>>]
         /\ sending' = [sending EXCEPT ![e] = @ \cup {[batch |-> queue, path |-> PathOf(e)]}]
         /\ net' = Sent(n, e, PathOf(e), [kind |-> "post", batch |-> queue])

Post(e) ==
    /\ posted[e] < PostLimit[e]
    /\ posted' = [posted EXCEPT ![e] = @ + 1]
    /\ MaybeDeliver(e, state[e], Append(pending[e], posted[e] + 1), net)
    /\ UNCHANGED <<migrationVars, state, timer, linkVars, received>>

Arrives(e, p, kinds) == net[Other(e)][p] # <<>> /\ Head(net[Other(e)][p]).kind \in kinds

Packet(e, p) == Head(net[Other(e)][p])

Taken(e, p) == [net EXCEPT ![Other(e)][p] = Tail(@)]

\* post_messages (): an end that is interrupted throws.
PostMessages(e, p) ==
    /\ Arrives(e, p, {"post"})
    /\ LET ok == state[e] # "interrupted" IN
       /\ received' = [received EXCEPT ![e] = IF ok THEN @ \o Packet(e, p).batch ELSE @]
       /\ net' = Sent(Taken(e, p), e, p,
                      [kind |-> IF ok THEN "ok" ELSE "error", batch |-> Packet(e, p).batch])
    /\ UNCHANGED <<migrationVars, state, timer, linkVars, posted, pending, sending>>

\* Faulty variant of Requeued: what could not be delivered is forgotten.
RequeuedNot(e, call) ==
    /\ sending' = [sending EXCEPT ![e] = @ \ {call}]
    /\ UNCHANGED pending

\* The error path of deliver_batch ().  (The order in the queue is the subject of MessageDelivery.)
Requeued(e, call) ==
    /\ sending' = [sending EXCEPT ![e] = @ \ {call}]
    /\ pending' = [pending EXCEPT ![e] = @ \o call.batch]

\* The answer to a post_messages () call; nobody waits for that of a call that was cancelled.
Answered(e, p) ==
    /\ Arrives(e, p, {"ok", "error"})
    /\ LET call == [batch |-> Packet(e, p).batch, path |-> p] IN
       IF call \in sending[e] /\ Packet(e, p).kind = "error"
       THEN Requeued(e, call)
       ELSE sending' = [sending EXCEPT ![e] = @ \ {call}] /\ UNCHANGED pending
    /\ net' = Taken(e, p)
    /\ UNCHANGED <<migrationVars, state, timer, linkVars, posted, received>>

\* A call fails: its connection is closed, or delivery_cancellable is cancelled.
CallFails(e) ==
    /\ \E call \in sending[e] :
          /\ ~Usable(call.path) \/ closure[e] = "over"
          /\ Requeued(e, call)
    /\ UNCHANGED <<migrationVars, state, timer, linkVars, posted, net, received>>
-----------------------------------------------------------------------------
(* Migration *)

\* The client has its nice_connection and calls begin_migration () at the server.
Connected ==
    /\ setup = "no" /\ setup' = "beginning"
    /\ peer' = "open"
    /\ net' = Sent(net, "client", "server", [kind |-> "begin"])
    /\ UNCHANGED <<active, obsolete, state, timer, sink, closure, posted, pending, sending, received>>

\* The end of complete_peer_connection () at the agent: nothing makes the client wait for it, and it
\* does not look whether the connection was closed meanwhile.
SinkReady ==
    /\ peer # "none" /\ ~sink
    /\ sink' = TRUE
    /\ UNCHANGED <<migrationVars, state, timer, peer, closure, queueVars>>

BeginMigration ==
    /\ Arrives("agent", "server", {"begin"})
    /\ state' = [state EXCEPT !["agent"] = "interrupted"]
    /\ net' = Sent(Taken("agent", "server"), "agent", "server", [kind |-> "begun"])
    /\ UNCHANGED <<migrationVars, timer, linkVars, posted, pending, sending, received>>

\* Faulty variant of Switch: the agent is not told that it may go on.
SwitchWithoutCommit ==
    /\ Arrives("client", "server", {"begun"})
    /\ IF setup = "beginning"
       THEN setup' = "done" /\ obsolete' = active /\ active' = "peer"
       ELSE UNCHANGED migrationVars
    /\ net' = Taken("client", "server")
    /\ UNCHANGED <<state, timer, linkVars, posted, pending, sending, received>>

\* The client's own begin_migration (), then its call of commit_migration ().
Switch ==
    /\ Arrives("client", "server", {"begun"})
    /\ IF setup = "beginning"
       THEN /\ setup' = "committing" /\ obsolete' = active /\ active' = "peer"
            /\ net' = Sent(Taken("client", "server"), "client", "server", [kind |-> "commit"])
       ELSE net' = Taken("client", "server") /\ UNCHANGED migrationVars
    /\ UNCHANGED <<state, timer, linkVars, posted, pending, sending, received>>

CommitMigration ==
    /\ Arrives("agent", "server", {"commit"})
    /\ LET n == Sent(Taken("agent", "server"), "agent", "server", [kind |-> "committed"]) IN
       IF timer THEN net' = n /\ UNCHANGED <<state, pending, sending>>
       ELSE /\ state' = [state EXCEPT !["agent"] = "live"]
            /\ MaybeDeliver("agent", "live", pending["agent"], n)
    /\ UNCHANGED <<migrationVars, timer, linkVars, posted, received>>

Committed ==
    /\ Arrives("client", "server", {"committed"})
    /\ setup' = IF setup = "committing" THEN "done" ELSE setup
    /\ net' = Taken("client", "server")
    /\ UNCHANGED <<active, obsolete, state, timer, linkVars, posted, pending, sending, received>>

\* The caller cancels one of the two calls; cancel_migration () if it is the second.
Cancelled ==
    /\ setup \in {"beginning", "committing"} /\ setup' = "cancelled"
    /\ IF setup = "committing" THEN active' = obsolete /\ obsolete' = "null"
       ELSE UNCHANGED <<active, obsolete>>
    /\ UNCHANGED <<state, timer, linkVars, queueVars>>
-----------------------------------------------------------------------------
(* The peer-to-peer connection breaks *)

PeerCloses ==
    /\ peer = "open" /\ peer' = "closed"
    /\ net' = [e \in End |-> [net[e] EXCEPT !["peer"] = <<>>]]
    /\ UNCHANGED <<migrationVars, state, timer, sink, closure, posted, pending, sending, received>>

\* handle_nice_connection_closure () up to its yield: the agent forgets nice_message_sink ...
Closing(e) ==
    /\ peer = "closed" /\ closure[e] = "no" /\ closure' = [closure EXCEPT ![e] = "closing"]
    /\ sink' = (sink /\ e # "agent")
    /\ UNCHANGED <<migrationVars, state, timer, peer, queueVars>>

\* ... and the rest of it: interrupt () at the agent,
AgentInterrupted ==
    /\ closure["agent"] = "closing" /\ closure' = [closure EXCEPT !["agent"] = "over"]
    /\ state' = [state EXCEPT !["agent"] = "interrupted"] /\ timer' = TRUE
    /\ UNCHANGED <<migrationVars, sink, peer, queueVars>>

\* Faulty variant of ClientInterrupted: the session stays with the connection that is closed.
ClientInterruptedOnly ==
    /\ closure["client"] = "closing" /\ closure' = [closure EXCEPT !["client"] = "over"]
    /\ state' = [state EXCEPT !["client"] = "interrupted"]
    /\ UNCHANGED <<migrationVars, timer, sink, peer, queueVars>>

\* and the way back to the server's session at the client.
ClientInterrupted ==
    /\ closure["client"] = "closing" /\ closure' = [closure EXCEPT !["client"] = "over"]
    /\ state' = [state EXCEPT !["client"] = "interrupted"]
    /\ active' = obsolete /\ obsolete' = "null"
    /\ UNCHANGED <<setup, timer, sink, peer, queueVars>>
-----------------------------------------------------------------------------
Agent == SinkReady \/ BeginMigration \/ CommitMigration \/ Closing("agent") \/ AgentInterrupted

Client == Switch \/ Committed \/ Closing("client") \/ ClientInterrupted

Transfer(e) == CallFails(e) \/ \E p \in Path : PostMessages(e, p) \/ Answered(e, p)

Next ==
    \/ Connected \/ Agent \/ Client \/ Cancelled \/ PeerCloses
    \/ \E e \in End : Post(e) \/ Transfer(e)

Spec == Init /\ [][Next]_vars /\ WF_vars(Agent) /\ WF_vars(Client) /\ \A e \in End : WF_vars(Transfer(e))
-----------------------------------------------------------------------------
Messages(batches) == UNION {{b[i] : i \in DOMAIN b} : b \in batches}

\* Whatever is rejected, sent again or cancelled while the session moves, no script is given a
\* message twice: post_messages () takes a batch as a whole or not at all.  (When the
\* peer-to-peer connection breaks, the agent may send what it sent before over the server,
\* while close_nice_resources () waits.)
TakenOnce == peer # "closed" => \A e \in End : IsInjective(received[e])

\* Nothing that was posted is lost on the way: it was handed to the scripts, or its sender
\* still has it, although begin_migration () makes the agent reject what the client sends.
NothingIsLost ==
    \A e \in End : 1..posted[e] \subseteq
        Messages({received[Other(e)], pending[e]} \cup {c.batch : c \in sending[e]})

\* The peer-to-peer connection is gone and with it the session that the client would resume.
Stranded == closure["client"] = "over" /\ active # "server"

\* A session whose move was completed goes back to the server's when the peer-to-peer connection
\* breaks.  It is only without one if that happens while do_setup_peer_connection () still runs,
\* or after it was cancelled: obsolete_session is null by then, or is made active too early.
StrandedInSetupOnly == [][Stranded' /\ ~Stranded => setup # "done"]_vars

\* The agent does not stay interrupted: it is live again, or its expiry timer runs, unless the
\* caller cancelled in between; then nothing commits the migration.
MigrationEnds == (state["agent"] = "interrupted") ~> (state["agent"] = "live" \/ timer \/ setup = "cancelled")

\* What the agent's scripts post while the session moves is sent when it has.
AgentCatchesUp == (pending["agent"] # <<>>) ~> (pending["agent"] = <<>> \/ timer \/ setup = "cancelled")
=============================================================================
