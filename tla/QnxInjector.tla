---------------------------- MODULE QnxInjector -----------------------------
(***************************************************************************)
(* An injection on QNX: inject_library_file (), establish_session () and   *)
(* RemoteThreadSession of src/src/qnx/qinjector.vala, with the payload     *)
(* that src/src/qnx/qinjector-glue.c puts into the target.  The payload's  *)
(* thread reports by pulses: HELLO and BYE are sent, DISCONNECT comes from *)
(* the kernel when the connection is closed, and is received before        *)
(* pulses that were sent earlier.  A reader thread turns pulses into       *)
(* sources of the main loop.                                               *)
(***************************************************************************)
EXTENDS Naturals, Sequences, SequencesExt

CONSTANT Prompt     \* the target and the main loop meet the 2 s and the 50 ms that they are given

ConstantsOK == Prompt \in BOOLEAN

Policy == {"immediate", "resident", "deferred"}

VARIABLES
    host,           \* inject_library_file (): idle, waiting in establish (), or what it came to
    listed,         \* instances has the instance
    destroyed,      \* number of calls of _destroy_instance ()
    channel,        \* the channel exists
    memory,         \* remote_payload is mapped
    thread,         \* the payload's thread
    returned,       \* the policy that the entrypoint returned; none once the target has ended
    pulses,         \* pulses on the channel
    sources,        \* sources of the main loop, in order
    tid,            \* tid # 0
    policy,         \* unload_policy
    deferred,       \* the 50 ms timer of on_disconnect_received ()
    joining,        \* join_and_end () waits
    ended,          \* the signal was emitted
    overtaken,      \* DISCONNECT was received before BYE
    hasty           \* which path destroyed the instance without waiting; for the properties

session == <<tid, policy, deferred, joining, ended>>
target == <<thread, returned>>
vars == <<host, listed, destroyed, channel, memory, target, pulses, sources, session, overtaken, hasty>>

Init ==
    /\ host = "idle" /\ listed = FALSE /\ destroyed = 0 /\ channel = FALSE /\ memory = FALSE
    /\ thread = "none" /\ returned = "none" /\ pulses = <<>> /\ sources = <<>>
    /\ tid = FALSE /\ policy = "immediate" /\ deferred = FALSE /\ joining = FALSE /\ ended = FALSE
    /\ overtaken = FALSE /\ hasty = "none"

\* _frida_qinjector_do_inject (): the payload is allocated, written, flushed and started.  Where
\* a failure sets no error the host goes on with an instance that does not exist.  The call of
\* pthread_create () may fail after the thread was created; the payload is freed all the same.
DoInject ==
    /\ host = "idle"
    /\ \/ /\ host' = "waiting" /\ listed' = TRUE /\ channel' = TRUE /\ memory' = TRUE /\ thread' = "start"
          /\ UNCHANGED hasty
       \/ /\ host' \in {"failed", "astray"} /\ UNCHANGED <<listed, channel, memory, thread, hasty>>
       \/ /\ host' = "failed" /\ memory' \in BOOLEAN /\ thread' = "start" /\ hasty' = "start"
          /\ UNCHANGED <<listed, channel>>
    /\ UNCHANGED <<destroyed, returned, pulses, sources, session, overtaken>>
-----------------------------------------------------------------------------
(* The payload: frida_emit_payload_code (). *)

Payload == thread \notin {"none", "gone"}
Send(pulse) == pulses' = IF channel THEN Append(pulses, pulse) ELSE pulses

\* ConnectAttach_r (), gettid (), and the HELLO.
Hello ==
    /\ thread = "start" /\ thread' = "connected" /\ Send("HELLO")
    /\ UNCHANGED <<host, listed, destroyed, channel, memory, returned, sources, session, overtaken, hasty>>

\* dlopen (), dlsym (), the entrypoint, and dlclose () and pthread_detach () as the policy says.
Entrypoint ==
    /\ thread = "connected" /\ thread' = "back" /\ returned' \in Policy
    /\ UNCHANGED <<host, listed, destroyed, channel, memory, pulses, sources, session, overtaken, hasty>>

Bye ==
    /\ thread = "back" /\ thread' = "said bye" /\ Send(returned)
    /\ UNCHANGED <<host, listed, destroyed, channel, memory, returned, sources, session, overtaken, hasty>>

\* ConnectDetach_r ()
Detach ==
    /\ thread = "said bye" /\ thread' = "leaving" /\ Send("DISCONNECT")
    /\ UNCHANGED <<host, listed, destroyed, channel, memory, returned, sources, session, overtaken, hasty>>

Leave ==
    /\ thread = "leaving" /\ thread' = "gone"
    /\ UNCHANGED <<host, listed, destroyed, channel, memory, returned, pulses, sources, session, overtaken, hasty>>

\* The target ends.
Die ==
    /\ Payload /\ thread' = "gone" /\ returned' = "none"
    /\ IF thread \in {"connected", "back", "said bye"} THEN Send("DISCONNECT") ELSE UNCHANGED pulses
    /\ UNCHANGED <<host, listed, destroyed, channel, memory, sources, session, overtaken, hasty>>
-----------------------------------------------------------------------------
(* The host. *)

\* process_io (), which runs for as long as the channel exists.
ReceivePulse ==
    /\ channel /\ pulses # <<>>
    /\ LET first == IF Contains(pulses, "DISCONNECT") THEN "DISCONNECT" ELSE Head(pulses)
       IN  /\ pulses' = RemoveFirst(pulses, first) /\ sources' = Append(sources, first)
           /\ overtaken' = (overtaken \/ (first = "DISCONNECT" /\ \E p \in Policy : Contains(pulses, p)))
    /\ UNCHANGED <<host, listed, destroyed, channel, memory, target, session, hasty>>

\* _destroy_instance () and frida_injection_instance_free (); munmap () is a remote call that may fail.
DestroyInstance(unload_policy) ==
    /\ listed' = FALSE /\ destroyed' = destroyed + 1 /\ channel' = FALSE
    /\ memory' \in IF unload_policy = "immediate" THEN {memory, FALSE} ELSE {memory}

NotDestroyed == UNCHANGED <<listed, destroyed, channel, memory>>

\* session.ended is connected.
Listens == host = "injected"

Ended ==
    /\ ended' = TRUE /\ joining' = FALSE
    /\ IF Listens THEN DestroyInstance(policy) ELSE NotDestroyed

\* join_and_end (): where the thread's ID is known it is waited for.
JoinAndEnd ==
    IF tid /\ Payload THEN joining' = TRUE /\ UNCHANGED ended /\ NotDestroyed ELSE Ended

Dispatch(source) == sources # <<>> /\ Head(sources) = source /\ sources' = Tail(sources)

OnHello ==
    /\ Dispatch("HELLO") /\ tid' = TRUE
    /\ host' = IF host = "waiting" THEN "injected" ELSE host
    /\ NotDestroyed
    /\ UNCHANGED <<target, pulses, policy, deferred, joining, ended, overtaken, hasty>>

OnBye(p) ==
    /\ Dispatch(p) /\ policy' = p /\ NotDestroyed
    /\ UNCHANGED <<host, target, pulses, tid, deferred, joining, ended, overtaken, hasty>>

\* pending_hello # null
Defers == host = "waiting"

OnDisconnect ==
    /\ Dispatch("DISCONNECT")
    /\ IF Defers THEN deferred' = TRUE /\ NotDestroyed /\ UNCHANGED <<joining, ended>>
                 ELSE JoinAndEnd /\ UNCHANGED deferred
    /\ UNCHANGED <<host, target, pulses, tid, policy, overtaken, hasty>>

Quiet == pulses = <<>> /\ sources = <<>>

DeferralExpires ==
    /\ deferred /\ deferred' = FALSE /\ (Prompt => Quiet) /\ JoinAndEnd
    /\ UNCHANGED <<host, target, pulses, sources, tid, policy, overtaken, hasty>>

JoinTimer ==
    /\ joining /\ ~Payload /\ Ended
    /\ UNCHANGED <<host, target, pulses, sources, tid, policy, deferred, overtaken, hasty>>

\* The 2 s of establish ().
Timeout ==
    /\ host = "waiting" /\ (Prompt => ~Payload /\ Quiet)
    /\ host' = "failed" /\ DestroyInstance("immediate") /\ hasty' = "timeout"
    /\ UNCHANGED <<target, pulses, sources, session, overtaken>>

Dispatched == OnHello \/ (\E p \in Policy : OnBye(p)) \/ OnDisconnect
Thread == Hello \/ Entrypoint \/ Bye \/ Detach \/ Leave
Next == DoInject \/ Thread \/ Die \/ ReceivePulse \/ Dispatched \/ DeferralExpires \/ JoinTimer \/ Timeout

Spec ==
    /\ Init /\ [][Next]_vars
    /\ WF_vars(DoInject) /\ WF_vars(Thread) /\ WF_vars(ReceivePulse) /\ WF_vars(Dispatched)
    /\ WF_vars(DeferralExpires) /\ WF_vars(JoinTimer) /\ WF_vars(Timeout)
-----------------------------------------------------------------------------
\* The payload stays mapped for as long as its thread runs in it, although the pulse that tells of
\* the end comes before the thread has left, and before the pulse that tells of its start.  Two
\* paths do not wait for the thread: a start that fails after it was created, and the 2 s of
\* establish () for a target that is slow.
MemoryOutlivesThread ==
    Payload /\ ~memory => hasty = "start" \/ (~Prompt /\ hasty = "timeout")

\* The instance is destroyed once (the assertion of _destroy_instance ()), whether the HELLO, the
\* timeout or the end comes first.
DestroyedOnce == destroyed <= 1 /\ (destroyed = 1 => ~listed)

\* Memory that the agent asked to keep is kept; unless its BYE was overtaken by the DISCONNECT, or
\* the injection was given up.
PolicyIsFollowed ==
    ended /\ returned \in {"resident", "deferred"} /\ ~overtaken /\ host = "injected" => memory

\* An injection whose thread has ended is forgotten, whichever way it ended.
EndIsNoticed == (thread = "gone") ~> ~listed
=============================================================================
