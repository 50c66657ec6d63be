-------------------------- MODULE MessageDelivery --------------------------
(***************************************************************************)
(* Messages of a persistent session: Session of src/src/frida.vala at the  *)
(* client and AgentMessageTransmitter of src/lib/base/session.vala at the  *)
(* agent, which run the same delivery code, with a server between them     *)
(* (src/src/control-service.vala or the portal) that relays their calls.   *)
(*                                                                         *)
(* The connection between client and server can break.  What the server    *)
(* had relayed by then still reaches the agent, followed by interrupt ();  *)
(* the rest, and everything on its way to the client, is lost.             *)
(***************************************************************************)
EXTENDS Naturals, Sequences, SequencesExt

CONSTANTS
    MaxBatch,           \* messages that fit into one batch (max_size)
    MaxClientPosts,     \* bounds on what a behaviour may do
    MaxAgentPosts,
    MaxDisconnects

ASSUME Bounds ==
    /\ MaxBatch \in Nat \ {0}
    /\ MaxClientPosts \in Nat /\ MaxAgentPosts \in Nat /\ MaxDisconnects \in Nat

VARIABLES
    posted,             \* messages each end posted so far
    received,           \* messages each end handed to its scripts
    state,              \* "live" (ATTACHED, LIVE) or "interrupted"
    pending_messages,
    next_serial,
    last_rx_batch_id,
    inflight,           \* suspended deliver_batch () calls, pending_deliveries of them
    calls,              \* numbers the post_messages () calls of an end
    net,                \* packets from an end on their way to the other one
    up,                 \* the client has a connection to the server
    idle,               \* resume () at the agent scheduled a delivery
    disconnects

endVars == <<state, pending_messages, next_serial, last_rx_batch_id, inflight, calls>>
vars == <<posted, received, endVars, net, up, idle, disconnects>>

End == {"client", "agent"}

Peer(e) == IF e = "client" THEN "agent" ELSE "client"

MaxPosts(e) == IF e = "client" THEN MaxClientPosts ELSE MaxAgentPosts
-----------------------------------------------------------------------------
PendingMessage == [serial : Nat, message : Nat, attempted : BOOLEAN]

Packet ==
    [kind : {"post"}, call : Nat, batch : Seq(PendingMessage)]
    \cup [kind : {"ok", "error"}, call : Nat]
    \cup [kind : {"resume", "resumed"}, batch_id : Nat]
    \cup [kind : {"interrupt"}]

\* Type of every variable of the two ends and of the connection.
TypeOK ==
    /\ posted \in [End -> Nat]
    /\ received \in [End -> Seq(Nat)]
    /\ state \in [End -> {"live", "interrupted"}]
    /\ pending_messages \in [End -> Seq(PendingMessage)]
    /\ next_serial \in [End -> Nat \ {0}]
    /\ last_rx_batch_id \in [End -> Nat]
    /\ \A e \in End : inflight[e] \in Seq([call : Nat, batch : Seq(PendingMessage)])
    /\ calls \in [End -> Nat]
    /\ net \in [End -> Seq(Packet)]
    /\ up \in BOOLEAN /\ idle \in BOOLEAN
    /\ disconnects \in Nat

Init ==
    /\ posted = [e \in End |-> 0]
    /\ received = [e \in End |-> <<>>]
    /\ state = [e \in End |-> "live"]
    /\ pending_messages = [e \in End |-> <<>>]
    /\ next_serial = [e \in End |-> 1]
    /\ last_rx_batch_id = [e \in End |-> 0]
    /\ inflight = [e \in End |-> <<>>]
    /\ calls = [e \in End |-> 0]
    /\ net = [e \in End |-> <<>>]
    /\ up = TRUE
    /\ idle = FALSE
    /\ disconnects = 0
-----------------------------------------------------------------------------
(* The delivery code that both ends share *)

\* How many messages at the head of the queue make up the next batch.
Fits(queue) == IF MaxBatch < Len(queue) THEN MaxBatch ELSE Len(queue)

Attempted(batch) == [i \in DOMAIN batch |-> [batch[i] EXCEPT !.attempted = TRUE]]

\* maybe_deliver_pending_messages () on the queue `queue`, up to the yield of
\* deliver_batch (): one batch of what fits, even when more is pending.
\* `wire` is net after what the caller took from it.
MaybeDeliver(e, queue, wire) ==
    IF state'[e] = "live" /\ queue # <<>>
    THEN LET n == Fits(queue)
             batch == Attempted(SubSeq(queue, 1, n))
         IN  /\ pending_messages' = [pending_messages EXCEPT ![e] = SubSeq(queue, n + 1, Len(queue))]
             /\ calls' = [calls EXCEPT ![e] = @ + 1]
             /\ inflight' = [inflight EXCEPT ![e] =
                   Append(@, [call |-> calls[e] + 1, batch |-> batch])]
             /\ net' = IF up
                       THEN [wire EXCEPT ![e] =
                               Append(@, [kind |-> "post", call |-> calls[e] + 1, batch |-> batch])]
                       ELSE wire
    ELSE /\ pending_messages' = [pending_messages EXCEPT ![e] = queue]
         /\ net' = wire
         /\ UNCHANGED <<calls, inflight>>

\* Faulty variant of Prune: the last message of the acknowledged batch is kept.
PruneBelow(queue, batch_id) ==
    LET n == CHOOSE k \in 0 .. Len(queue) :
                /\ \A i \in 1 .. k : queue[i].attempted /\ queue[i].serial < batch_id
                /\ k < Len(queue) => ~(queue[k + 1].attempted /\ queue[k + 1].serial < batch_id)
    IN  SubSeq(queue, n + 1, Len(queue))

\* resume (): forget the attempted messages at the head that the other end has.
Prune(queue, batch_id) ==
    LET n == CHOOSE k \in 0 .. Len(queue) :
                /\ \A i \in 1 .. k : queue[i].attempted /\ queue[i].serial <= batch_id
                /\ k < Len(queue) => ~(queue[k + 1].attempted /\ queue[k + 1].serial <= batch_id)
    IN  IF batch_id = 0 THEN queue ELSE SubSeq(queue, n + 1, Len(queue))

BySerial(a, b) == a.serial < b.serial

Batches(s) == FlattenSeq([i \in DOMAIN s |-> s[i].batch])

\* The error path of the deliver_batch () calls in `failed`.
Requeue(queue, failed) == SortSeq(queue \o Batches(failed), BySerial)

\* Post(e): _post_to_agent (), post_message_from_script ().
Post(e) ==
    /\ posted[e] < MaxPosts(e)
    /\ posted' = [posted EXCEPT ![e] = @ + 1]
    /\ next_serial' = [next_serial EXCEPT ![e] = @ + 1]
    /\ UNCHANGED state
    /\ MaybeDeliver(e, Append(pending_messages[e],
          [serial |-> next_serial[e], message |-> posted[e] + 1, attempted |-> FALSE]), net)
    /\ UNCHANGED <<received, last_rx_batch_id, up, idle, disconnects>>

Arrives(e, kinds) == net[Peer(e)] # <<>> /\ Head(net[Peer(e)]).kind \in kinds

\* net after e took the first packet sent to it and answered with those in `answer`.
\* The agent's answer to a call from a connection that broke since goes nowhere.
Taken(e, answer) ==
    LET rest == Tail(net[Peer(e)])
        reachable == up /\ (e = "agent" => \A i \in DOMAIN rest : rest[i].kind # "interrupt")
    IN  [net EXCEPT ![Peer(e)] = rest, ![e] = IF reachable THEN @ \o answer ELSE @]

Messages(batch) == [i \in DOMAIN batch |-> batch[i].message]

\* The post_messages () handler of the receiving end.
PostMessages(e) ==
    /\ Arrives(e, {"post"})
    /\ LET p == Head(net[Peer(e)]) IN
       \/ /\ state[e] = "interrupted"
          /\ net' = Taken(e, <<[kind |-> "error", call |-> p.call]>>)
          /\ UNCHANGED <<received, last_rx_batch_id>>
       \/ /\ state[e] = "live"
          /\ received' = [received EXCEPT ![e] = @ \o Messages(p.batch)]
          /\ last_rx_batch_id' = [last_rx_batch_id EXCEPT ![e] = Last(p.batch).serial]
          /\ net' = Taken(e, <<[kind |-> "ok", call |-> p.call]>>)
    /\ UNCHANGED <<posted, state, pending_messages, next_serial, inflight, calls,
                   up, idle, disconnects>>

Without(e, i) == [inflight EXCEPT ![e] = RemoveAt(@, i)]

\* Faulty variant of Delivered: the serials start again at 0, which resume () takes for "none".
DeliveredFromZero(e, i) ==
    /\ inflight' = Without(e, i)
    /\ next_serial' = [next_serial EXCEPT ![e] = IF inflight'[e] = <<>> THEN 0 ELSE @]
    /\ UNCHANGED pending_messages

\* deliver_batch () resumes after its yield: the call returned ...
Delivered(e, i) ==
    /\ inflight' = Without(e, i)
    /\ next_serial' = [next_serial EXCEPT ![e] = IF inflight'[e] = <<>> THEN 1 ELSE @]
    /\ UNCHANGED pending_messages

\* ... or it threw.
NotDelivered(e, i) ==
    /\ inflight' = Without(e, i)
    /\ pending_messages' = [pending_messages EXCEPT ![e] = Requeue(@, <<inflight[e][i]>>)]
    /\ UNCHANGED next_serial

\* The answer to a post_messages () call; nobody waits for that of a call that failed before.
Answered(e) ==
    /\ Arrives(e, {"ok", "error"})
    /\ net' = Taken(e, <<>>)
    /\ LET p == Head(net[Peer(e)]) IN
       \/ \E i \in DOMAIN inflight[e] :
             /\ inflight[e][i].call = p.call
             /\ IF p.kind = "ok" THEN Delivered(e, i) ELSE NotDelivered(e, i)
       \/ /\ \A i \in DOMAIN inflight[e] : inflight[e][i].call # p.call
          /\ UNCHANGED <<inflight, pending_messages, next_serial>>
    /\ UNCHANGED <<posted, received, state, last_rx_batch_id, calls, up, idle, disconnects>>

\* The call or its answer was lost with the connection.
Lost(e, call) ==
    /\ \A i \in DOMAIN net[e] : net[e][i].kind = "post" => net[e][i].call # call
    /\ \A i \in DOMAIN net[Peer(e)] :
          net[Peer(e)][i].kind \in {"ok", "error"} => net[Peer(e)][i].call # call

\* A call fails because it is lost, or because delivery_cancellable is cancelled.
CallFails(e) ==
    /\ \E i \in DOMAIN inflight[e] :
          /\ state[e] = "interrupted" \/ Lost(e, inflight[e][i].call)
          /\ NotDelivered(e, i)
    /\ UNCHANGED <<posted, received, state, last_rx_batch_id, calls, net, up, idle, disconnects>>
-----------------------------------------------------------------------------
(* Interruption and resumption *)

\* How many of the packets s have left the server by now: it has sent the agent all those
\* up to its last interrupt (), and they can no longer be lost.
Relayed(s) ==
    {n \in 0 .. Len(s) : \A i \in n + 1 .. Len(s) : s[i].kind # "interrupt"}

\* The connection breaks; the server tears the channel down and interrupts the agent.
Disconnect ==
    /\ up
    /\ disconnects < MaxDisconnects
    /\ \E n \in Relayed(net["client"]) :
          net' = [e \in End |-> IF e = "client"
                                THEN Append(SubSeq(net[e], 1, n), [kind |-> "interrupt"])
                                ELSE <<>>]
    /\ up' = FALSE
    /\ disconnects' = disconnects + 1
    /\ UNCHANGED <<posted, received, endVars, idle>>

\* _on_detached () at the client.
OnDetached ==
    /\ ~up
    /\ state["client"] = "live"
    /\ state' = [state EXCEPT !["client"] = "interrupted"]
    /\ UNCHANGED <<posted, received, pending_messages, next_serial, last_rx_batch_id,
                   inflight, calls, net, up, idle, disconnects>>

\* Faulty variant of Interrupt: deliveries are cancelled, the state is forgotten.
InterruptStaysLive ==
    /\ Arrives("agent", {"interrupt"})
    /\ net' = Taken("agent", <<>>)
    /\ UNCHANGED <<posted, received, endVars, up, idle, disconnects>>

\* interrupt () at the agent; while it is interrupted it throws.
Interrupt ==
    /\ Arrives("agent", {"interrupt"})
    /\ net' = Taken("agent", <<>>)
    /\ state' = [state EXCEPT !["agent"] = "interrupted"]
    /\ UNCHANGED <<posted, received, pending_messages, next_serial, last_rx_batch_id,
                   inflight, calls, up, idle, disconnects>>

\* Session.resume () up to its call of the agent's resume ().  The calls that were
\* cancelled have failed by then: reattaching takes several round trips.
ResumeBegin ==
    /\ state["client"] = "interrupted"
    /\ ~up
    /\ inflight["client"] = <<>>
    /\ up' = TRUE
    /\ net' = [net EXCEPT !["client"] =
          Append(@, [kind |-> "resume", batch_id |-> last_rx_batch_id["client"]])]
    /\ UNCHANGED <<posted, received, endVars, idle, disconnects>>

\* Faulty variant of AgentResume: the call is answered before the state is set.
AgentResumeStaysInterrupted ==
    /\ Arrives("agent", {"resume"})
    /\ inflight["agent"] = <<>>
    /\ pending_messages' = [pending_messages EXCEPT !["agent"] =
          Prune(@, Head(net["client"]).batch_id)]
    /\ idle' = TRUE
    /\ net' = Taken("agent", <<[kind |-> "resumed", batch_id |-> last_rx_batch_id["agent"]]>>)
    /\ UNCHANGED <<posted, received, state, next_serial, last_rx_batch_id, inflight, calls,
                   up, disconnects>>

\* resume () at the agent.  It would throw if the agent were not interrupted, but
\* interrupt () was sent before it (ResumeIsValid).
AgentResume ==
    /\ Arrives("agent", {"resume"})
    /\ inflight["agent"] = <<>>
    /\ pending_messages' = [pending_messages EXCEPT !["agent"] =
          Prune(@, Head(net["client"]).batch_id)]
    /\ state' = [state EXCEPT !["agent"] = "live"]
    /\ idle' = TRUE
    /\ net' = Taken("agent", <<[kind |-> "resumed", batch_id |-> last_rx_batch_id["agent"]]>>)
    /\ UNCHANGED <<posted, received, next_serial, last_rx_batch_id, inflight, calls,
                   up, disconnects>>

\* Faulty variant of AgentIdle: nothing is delivered until the next message is posted.
AgentIdleWithoutDelivery ==
    /\ idle
    /\ idle' = FALSE
    /\ UNCHANGED <<posted, received, endVars, net, up, disconnects>>

\* The delivery that resume () scheduled.
AgentIdle ==
    /\ idle
    /\ idle' = FALSE
    /\ UNCHANGED state
    /\ MaybeDeliver("agent", pending_messages["agent"], net)
    /\ UNCHANGED <<posted, received, next_serial, last_rx_batch_id, up, disconnects>>

\* Faulty variant of ResumeEnd: the session is left INTERRUPTED.
ResumeEndStaysInterrupted ==
    /\ Arrives("client", {"resumed"})
    /\ UNCHANGED state
    /\ MaybeDeliver("client", Prune(pending_messages["client"], Head(net["agent"]).batch_id),
                    Taken("client", <<>>))
    /\ UNCHANGED <<posted, received, next_serial, last_rx_batch_id, up, idle, disconnects>>

\* The rest of Session.resume ().
ResumeEnd ==
    /\ Arrives("client", {"resumed"})
    /\ state' = [state EXCEPT !["client"] = "live"]
    /\ MaybeDeliver("client", Prune(pending_messages["client"], Head(net["agent"]).batch_id),
                    Taken("client", <<>>))
    /\ UNCHANGED <<posted, received, next_serial, last_rx_batch_id, up, idle, disconnects>>

Next ==
    \/ \E e \in End : Post(e) \/ PostMessages(e) \/ Answered(e) \/ CallFails(e)
    \/ Disconnect \/ OnDetached \/ Interrupt
    \/ ResumeBegin \/ AgentResume \/ AgentIdle \/ ResumeEnd

Spec == Init /\ [][Next]_vars

\* Packets arrive, failures are noticed, scheduled functions run, and the
\* application resumes a session that was interrupted.
Fairness ==
    /\ \A e \in End : WF_vars(PostMessages(e)) /\ WF_vars(Answered(e)) /\ WF_vars(CallFails(e))
    /\ WF_vars(OnDetached) /\ WF_vars(Interrupt)
    /\ WF_vars(ResumeBegin) /\ WF_vars(AgentResume) /\ WF_vars(AgentIdle) /\ WF_vars(ResumeEnd)

FairSpec == Spec /\ Fairness
-----------------------------------------------------------------------------
(* Properties *)

Log == INSTANCE MessageLog WITH posted <- posted, received <- received

\* Redelivery after an interruption never hands a script a message twice or
\* out of order: the two ends implement MessageLog.
ImplementsLog == Log!Spec

\* The same as an invariant, for runs where it does not hold: what an end
\* received is strictly increasing in the order of posting.
InOrder ==
    \A e \in End : \A i, j \in DOMAIN received[e] : i < j => received[e][i] < received[e][j]

\* Once resume () returned and until the connection breaks again, the agent is
\* live: what the client sends is not rejected with "Cannot receive messages
\* while interrupted".
ResumedBoth == up /\ state["client"] = "live" => state["agent"] = "live"

\* resume () at the agent never throws "Invalid operation": it is interrupted
\* whenever a resume () call reaches it.
ResumeIsValid == Arrives("agent", {"resume"}) => state["agent"] = "interrupted"

Held(e) ==
    {pending_messages[e][i].message : i \in DOMAIN pending_messages[e]}
    \cup UNION {{inflight[e][i].batch[k].message : k \in DOMAIN inflight[e][i].batch} :
                  i \in DOMAIN inflight[e]}

\* A message that was posted is with its sender until its receiver has it.
NothingLost ==
    \A e \in End : \A m \in 1 .. posted[e] :
        m \in Held(e) \/ \E i \in DOMAIN received[Peer(e)] : received[Peer(e)][i] = m

\* When connections stop breaking, both ends end up live for good.
Recovers == <>[](up /\ \A e \in End : state[e] = "live")

\* ... and no message stays with its sender.
Drains == <>[](\A e \in End : Held(e) = {})
=============================================================================
