----------------------------- MODULE WindowsPipe -----------------------------
(***************************************************************************)
(* The named pipe of src/lib/pipe/pipe-windows.c: overlapped reads and     *)
(* writes, each in a thread of its own, of which the first one waits for   *)
(* the client; a cancellable ends a wait through an event.  The other end  *)
(* connects, sends, receives and leaves as it likes.                       *)
(***************************************************************************)
EXTENDS Naturals, FiniteSets

CONSTANT MaxOps     \* operations of a stream

ConstantsOK == MaxOps \in Nat \ {0}

Stream == {"read", "write"}

VARIABLES
    role, connected, pipe,      \* the backend's fields; pipe: open or closed
    peer,       \* none, there or gone
    ready,      \* [stream -> the pipe has a byte, or room for one]
    ops,        \* [stream -> operations begun]
    pc,         \* [stream -> idle, submit, connecting or await]
    io,         \* [stream -> state of the overlapped request: none, pending, ok or error]
    with,       \* [stream -> the operation has a cancellable]
    cancelled,  \* [stream -> it is cancelled]
    cancel,     \* [stream -> read_cancel or write_cancel is signalled]
    orphans,    \* [stream -> requests in flight whose OVERLAPPED is gone, asked to end or not]
    spoilt,     \* streams of which an operation was cancelled; kept for the properties
    last        \* [stream -> how the last operation ended]

vars == <<role, connected, pipe, peer, ready, ops, pc, io, with, cancelled, cancel, orphans, spoilt,
          last>>

NoOrphans == [asked |-> 0, unasked |-> 0]

Init ==
    /\ role \in {"server", "client"} /\ connected = FALSE /\ pipe = "open"
    /\ peer = IF role = "server" THEN "none" ELSE "there"
    /\ ready = [s \in Stream |-> s = "write"] /\ ops = [s \in Stream |-> 0]
    /\ pc = [s \in Stream |-> "idle"] /\ io = [s \in Stream |-> "none"]
    /\ with \in [Stream -> {FALSE}] /\ cancelled = with /\ cancel = with /\ spoilt = {}
    /\ orphans = [s \in Stream |-> NoOrphans] /\ last = [s \in Stream |-> "none"]

Env == <<role, pipe, peer>>
Returns(s, result) == pc' = [pc EXCEPT ![s] = "idle"] /\ last' = [last EXCEPT ![s] = result]
Moves(s, to) == pc' = [pc EXCEPT ![s] = to] /\ UNCHANGED last
-----------------------------------------------------------------------------
(* An operation, up to the request. *)

\* frida_windows_pipe_backend_connect (), until it waits.
Begin(s, w) ==
    /\ pc[s] = "idle" /\ ops[s] < MaxOps /\ ops' = [ops EXCEPT ![s] = @ + 1]
    /\ with' = [with EXCEPT ![s] = w] /\ cancelled' = [cancelled EXCEPT ![s] = FALSE]
    /\ IF connected \/ role = "client" \/ (pipe = "open" /\ peer = "there")
       THEN connected' = TRUE /\ Moves(s, "submit") /\ UNCHANGED io
       ELSE /\ UNCHANGED connected
            /\ IF pipe = "open" /\ peer = "none"
               THEN Moves(s, "connecting") /\ io' = [io EXCEPT ![s] = "pending"]
               ELSE Returns(s, "error") /\ UNCHANGED io
    /\ UNCHANGED <<Env, ready, cancel, orphans, spoilt>>

\* frida_windows_pipe_backend_await (): one of the two events is signalled.
Wakes(s, event) == io[s] # "pending" \/ event

IsCancelled(s) == with[s] /\ cancelled[s]

\* The operation ends, and with it the OVERLAPPED on its stack, whether or not the request has.
Abandons(s, how) ==
    /\ io' = [io EXCEPT ![s] = "none"]
    /\ orphans' = IF io[s] = "pending" THEN [orphans EXCEPT ![s][how] = @ + 1] ELSE orphans

\* CancelIo () asks a request that is pending to end, and does not wait until it has.
CancelIo(s) == Abandons(s, "asked")

\* The rest of connect (); its events are its own.
Connected(s) ==
    /\ pc[s] = "connecting" /\ Wakes(s, IsCancelled(s))
    /\ IF IsCancelled(s)
       THEN CancelIo(s) /\ Returns(s, "cancelled") /\ UNCHANGED connected
       ELSE /\ Abandons(s, "unasked")
            /\ IF io[s] = "ok" THEN connected' = TRUE /\ Moves(s, "submit")
                               ELSE UNCHANGED connected /\ Returns(s, "error")
    /\ UNCHANGED <<Env, ready, ops, with, cancelled, cancel, spoilt>>

\* Mutant: one event for both streams.
SignalBoth(s) == [t \in Stream |-> TRUE]

\* frida_windows_pipe_backend_on_cancel ()
Signal(s) == [cancel EXCEPT ![s] = TRUE]

\* ReadFile () or WriteFile (), and g_cancellable_connect ().
Submit(s) ==
    /\ pc[s] = "submit"
    /\ IF pipe = "closed" \/ (peer = "gone" /\ ~(s = "read" /\ ready[s]))
       THEN Returns(s, "error") /\ UNCHANGED <<io, cancel>>
       ELSE /\ Moves(s, "await") /\ io' = [io EXCEPT ![s] = "pending"]
            /\ cancel' = IF IsCancelled(s) THEN Signal(s) ELSE cancel
    /\ UNCHANGED <<Env, connected, ready, ops, with, cancelled, orphans, spoilt>>

\* The rest, from WaitForMultipleObjects ().
Await(s) ==
    /\ pc[s] = "await" /\ Wakes(s, cancel[s])
    /\ IF IsCancelled(s)
       THEN CancelIo(s) /\ Returns(s, "cancelled")
       ELSE Abandons(s, "unasked") /\ Returns(s, IF io[s] = "ok" THEN "ok" ELSE "error")
    /\ UNCHANGED <<Env, connected, ready, ops, with, cancelled, cancel, spoilt>>
-----------------------------------------------------------------------------
(* The caller, the system and the other end. *)

Cancel(s) ==
    /\ pc[s] # "idle" /\ with[s] /\ ~cancelled[s] /\ cancelled' = [cancelled EXCEPT ![s] = TRUE]
    /\ cancel' = IF pc[s] = "await" THEN Signal(s) ELSE cancel
    /\ spoilt' = spoilt \cup {s}
    /\ UNCHANGED <<Env, connected, ready, ops, pc, io, with, orphans, last>>

\* A request completes.
Complete(s) ==
    /\ io[s] = "pending" /\ ready[s] /\ peer \in (IF s = "read" THEN {"there", "gone"} ELSE {"there"})
    /\ io' = [io EXCEPT ![s] = "ok"] /\ ready' = [ready EXCEPT ![s] = FALSE]
    /\ UNCHANGED <<Env, connected, ops, pc, with, cancelled, cancel, orphans, spoilt, last>>

\* So does one that nobody waits for any more: it is cancelled, or it takes what is there.
OrphanEnds(s, how) ==
    /\ orphans[s][how] > 0 /\ orphans' = [orphans EXCEPT ![s][how] = @ - 1]
    /\ ready' \in {ready, [ready EXCEPT ![s] = FALSE]}
    /\ UNCHANGED <<Env, connected, ops, pc, io, with, cancelled, cancel, spoilt, last>>

Ends == [s \in Stream |-> IF io[s] = "pending" THEN "error" ELSE io[s]]

\* _frida_windows_pipe_close_backend ()
Close ==
    /\ pipe = "open" /\ pipe' = "closed" /\ io' = Ends
    /\ UNCHANGED <<role, peer, connected, ready, ops, pc, with, cancelled, cancel, orphans, spoilt, last>>

PeerConnects ==
    /\ role = "server" /\ peer = "none" /\ pipe = "open" /\ peer' = "there"
    /\ io' = [s \in Stream |-> IF io[s] = "pending" THEN "ok" ELSE io[s]]
    /\ UNCHANGED <<role, pipe, connected, ready, ops, pc, with, cancelled, cancel, orphans, spoilt, last>>

PeerSendsOrReceives(s) ==
    /\ peer = "there" /\ ~ready[s] /\ ready' = [ready EXCEPT ![s] = TRUE]
    /\ UNCHANGED <<Env, connected, ops, pc, io, with, cancelled, cancel, orphans, spoilt, last>>

PeerLeaves ==
    /\ peer = "there" /\ peer' = "gone"
    /\ io' = IF ready["read"] THEN [Ends EXCEPT !["read"] = io["read"]] ELSE Ends
    /\ UNCHANGED <<role, pipe, connected, ready, ops, pc, with, cancelled, cancel, orphans, spoilt, last>>

Step(s) == Connected(s) \/ Submit(s) \/ Await(s) \/ Complete(s)

Next ==
    \/ \E s \in Stream : Step(s) \/ Cancel(s) \/ PeerSendsOrReceives(s) \/ \E w \in BOOLEAN : Begin(s, w)
    \/ \E s \in Stream, how \in {"asked", "unasked"} : OrphanEnds(s, how)
    \/ Close \/ PeerConnects \/ PeerLeaves

Spec == Init /\ [][Next]_vars /\ \A s \in Stream : WF_vars(Step(s))
-----------------------------------------------------------------------------
\* When an operation has returned its request is over, for the OVERLAPPED was on the stack.  The
\* exceptions are all of one stream, and begin with a cancelled operation of it: that one asks its
\* request to end with CancelIo () and does not wait, and those after it do not even ask,
\* because the event stays signalled.
NothingInFlight ==
    \A s \in Stream :
        /\ orphans[s] # NoOrphans => s \in spoilt
        /\ orphans[s].unasked > 0 => cancel[s]
        /\ pc[s] = "idle" => io[s] # "pending"

\* An operation fails only when the pipe is closed or broken: cancelling the other stream does not
\* affect it.  Operations of a stream after one that was cancelled are excepted.
FailsForAReason ==
    \A s \in Stream : last[s] = "error" => pipe = "closed" \/ peer = "gone" \/ s \in spoilt

\* An operation returns when it is cancelled, when the pipe is closed and when the peer leaves.
Returned ==
    \A s \in Stream :
        (pc[s] # "idle" /\ (IsCancelled(s) \/ pipe = "closed" \/ peer = "gone")) ~> (pc[s] = "idle")
=============================================================================
