---------------------------- MODULE LinuxLoader ----------------------------
(***************************************************************************)
(* The loader that the Linux backend runs in a target, and its peer.       *)
(*                                                                         *)
(* src/src/linux/helpers/loader.c is a thread of the target: it finds a    *)
(* socket to the helper, receives the agent's code and its control         *)
(* channel, loads the agent, says READY, waits for ACK, runs the agent and *)
(* says BYE.  InjectSession and RemoteAgent of frida-helper-backend.vala   *)
(* prepare its memory, answer it, and give the memory back.                *)
(*                                                                         *)
(* One target is modelled: it is injected into once and, after a fork or   *)
(* exec transition, its thread is recreated in the same memory.            *)
(***************************************************************************)
EXTENDS Naturals, Sequences

CONSTANTS
    MaxRelaunches,  \* how often recreate_injectee_thread () is called
    ControlChannel, \* AgentFeatures.CONTROL_CHANNEL
    Prompt          \* the target answers within the timeouts (5 s, 20 s) when it can

ConstantsOK == MaxRelaunches \in Nat /\ {ControlChannel, Prompt} \subseteq BOOLEAN

Policy == {"immediate", "resident", "deferred"}
Error == {"dlopen", "dlsym"}

VARIABLES
    memory,         \* the allocation that holds loader, context and stack: none, mapped, unmapped
    ctrlfds,        \* ctx->ctrlfds: none, pair, or stale when a relaunch could not replace them
    agent_handle,   \* ctx->agent_handle # NULL
    loaded,         \* the library it stands for has not been closed
    worker,         \* where the thread is
    sock,           \* its ctrlfd: none, pair, server
    codefd, agentfd,\* agent_codefd and agent_ctrlfd: what they refer to, or none
    policy,         \* unload_policy of the thread
    up, down,       \* what is in the socket, to and from the helper
    upOpen,         \* the thread's end of the socket is open
    helper,         \* what the helper is doing about this target
    route,          \* the socket it uses: none, pair, server
    hello, started, \* locals of RemoteAgent.monitor (), and start_request resolved
    pending,        \* pending_start_error
    relaunches,
    freed           \* what gave the memory back; kept for the properties

target == <<memory, ctrlfds, agent_handle, loaded, worker, codefd, agentfd, policy>>
channel == <<sock, up, down, upOpen>>
agent == <<helper, route, hello, started, pending, relaunches>>
vars == <<target, channel, agent, freed>>

Init ==
    /\ memory = "none" /\ ctrlfds = "none" /\ agent_handle = FALSE /\ loaded = FALSE
    /\ worker = "none"
    /\ sock = "none" /\ codefd = "none" /\ agentfd = "none" /\ policy = "immediate"
    /\ up = <<>> /\ down = <<>> /\ upOpen = FALSE
    /\ helper = "idle" /\ route = "none" /\ hello = FALSE /\ started = FALSE /\ pending = "none"
    /\ relaunches = 0 /\ freed = "none"

\* The thread executes code of the allocation.
Running == worker \notin {"none", "gone"}
-----------------------------------------------------------------------------
\* The helper's side.

\* What RemoteAgent.start () sends: the agent's code and the control channel, or a byte in its
\* place; after a relaunch the agent has the code and its end of the channel already.
Greeting(relaunch) ==
    IF relaunch THEN <<"byte">> ELSE <<"code", IF ControlChannel THEN "ctrl" ELSE "byte">>

\* establish_connection (): over the target's own socket pair when pidfd_getfd () gets it, else
\* over a server that the thread is told of.
EstablishConnection(relaunch) ==
    \/ /\ ctrlfds' = "pair" /\ route' = "pair" /\ upOpen' = TRUE
       /\ helper' = "starting" /\ down' = Greeting(relaunch)
    \/ /\ route' = "server" /\ upOpen' = FALSE
       /\ helper' = "accepting" /\ down' = <<>>

\* launch_loader (): the connection first, then frida_load (), whose pthread_create () may fail.
LaunchLoader(relaunch) ==
    /\ EstablishConnection(relaunch)
    /\ worker' \in {"start", "gone"} /\ policy' = "immediate"
    /\ codefd' = "none" /\ agentfd' = "none"
    /\ sock' = "none" /\ up' = <<>>
    /\ hello' = FALSE /\ started' = FALSE /\ pending' = "none"

\* InjectSession.inject ()
Inject ==
    /\ helper = "idle" /\ memory' = "mapped"
    /\ ctrlfds' \in {"none", "pair"}
    /\ LaunchLoader(FALSE)
    /\ UNCHANGED <<agent_handle, loaded, relaunches, freed>>

\* InjectSession.rejuvenate (): socketpair () in the target replaces the old descriptors; when
\* it fails, the helper forgets them, but the context in the target keeps the old numbers.
Rejuvenate ==
    /\ helper = "paused" /\ memory = "mapped" /\ ~Running /\ relaunches < MaxRelaunches
    /\ relaunches' = relaunches + 1
    /\ ctrlfds' \in (IF ctrlfds = "none" THEN {"none"} ELSE {"pair", "stale"})
    /\ LaunchLoader(TRUE)
    /\ UNCHANGED <<memory, agent_handle, loaded, freed>>

\* The allocation is unmapped.
Frees(why) == memory' = "unmapped" /\ freed' = why
Keeps == UNCHANGED <<memory, freed>>

\* An injection that fails gives the memory back; a relaunch leaves it to the old agent.
Fail(why) ==
    /\ helper' = "failed"
    /\ IF relaunches = 0 THEN Frees(why) ELSE Keeps

\* do_establish_connection_through_server ().  The greeting cannot be sent to a target that died.
Accept ==
    /\ helper = "accepting" /\ up # <<>>
    /\ \/ /\ upOpen /\ helper' = "starting" /\ down' = Greeting(relaunches > 0)
          /\ Keeps
       \/ /\ ~upOpen /\ Fail("start") /\ UNCHANGED down
    /\ UNCHANGED <<ctrlfds, agent_handle, loaded, worker, codefd, agentfd, policy, sock, up, upOpen,
                   route, hello, started, pending, relaunches>>

\* The timeout of launch_loader ().
EstablishTimeout ==
    /\ helper \in {"accepting", "starting"}
    /\ Prompt => up = <<>> /\ worker \in {"gone", "astray"}
    /\ Fail("timeout")
    /\ UNCHANGED <<ctrlfds, agent_handle, loaded, worker, codefd, agentfd, policy, channel, route, hello,
                   started, pending, relaunches>>

\* RemoteAgent.monitor (), reading the next message.  On READY, launch_loader () sends the ACK.
MonitorRead ==
    /\ helper \in {"starting", "running"} /\ up # <<>> /\ up' = Tail(up)
    /\ \/ /\ Head(up) = "hello" /\ hello' = TRUE
          /\ UNCHANGED <<helper, started, pending, down>>
       \/ /\ Head(up) = "ready" /\ started' = TRUE
          /\ helper' = "running" /\ down' = Append(down, "ack")
          /\ UNCHANGED <<hello, pending>>
       \/ /\ Head(up) \in Error /\ pending' = Head(up)
          /\ UNCHANGED <<helper, hello, started, down>>
       \/ /\ Head(up) \in Policy /\ helper' = "leaving"
          /\ UNCHANGED <<hello, started, pending, down>>
    /\ UNCHANGED <<target, sock, upOpen, route, relaunches, freed>>

\* Mutant: once the agent runs, only BYE ends it.
MonitorEofIgnored ==
    /\ helper = "starting" /\ up = <<>> /\ ~upOpen
    /\ helper' = "leaving"
    /\ UNCHANGED <<target, channel, route, hello, started, pending, relaunches, freed>>

\* ... and at the end of the stream.
MonitorEof ==
    /\ helper \in {"starting", "running"} /\ up = <<>> /\ ~upOpen
    /\ helper' = "leaving"
    /\ UNCHANGED <<target, channel, route, hello, started, pending, relaunches, freed>>

\* Mutant: the thread is not waited for.
ThreadIgnored == TRUE

\* The wait for /proc/<pid>/task/<thread_id> to go away.
ThreadLeft == hello => ~Running

\* on_stop (), and the memory that on_agent_stopped () or inject () gives back.  A relaunch that
\* never started is reported to the caller, and its memory stays.
Stops(why, how) ==
    \/ ~started /\ Fail(why)
    \/ started /\ helper' = "stopped" /\ (IF how = "immediate" THEN Frees(why) ELSE Keeps)

MonitorStop ==
    /\ helper = "leaving" /\ ThreadLeft
    /\ Stops("stop", policy)
    /\ UNCHANGED <<ctrlfds, agent_handle, loaded, worker, codefd, agentfd, policy, channel, route, hello,
                   started, pending, relaunches>>

\* The catch block: a read that fails, once what came before is read, ends it without the wait.
MonitorFails ==
    /\ helper \in {"starting", "running"} /\ up = <<>> /\ Stops("read", "immediate")
    /\ UNCHANGED <<ctrlfds, agent_handle, loaded, worker, codefd, agentfd, policy, channel, route, hello,
                   started, pending, relaunches>>

\* demonitor (), when the agent says that its process is about to fork or exec.
Demonitor ==
    /\ helper = "running" /\ worker = "agent" /\ helper' = "paused"
    /\ UNCHANGED <<target, channel, route, hello, started, pending, relaunches, freed>>

\* The expiry of a paused agent.
Expire ==
    /\ helper = "paused" /\ (Prompt => ~Running)
    /\ helper' = "stopped" /\ Frees("expiry")
    /\ UNCHANGED <<ctrlfds, agent_handle, loaded, worker, codefd, agentfd, policy, channel, route, hello,
                   started, pending, relaunches>>
-----------------------------------------------------------------------------
\* The thread: frida_main ().  Each action goes from one blocking call to the next; a thread
\* whose code is gone takes none.
Worker(at) == worker = at /\ memory = "mapped"

\* frida_send_hello (), frida_send_ready (), frida_send_bye (), frida_send_error ()
Sent(message) == Append(up, message)

\* frida_receive_fd (): the descriptor, if one came with the byte.
Received == IF Head(down) = "byte" THEN "none" ELSE Head(down)

\* frida_connect () to the helper's server, which may refuse.
Connect ==
    /\ route = "server"
    /\ \/ /\ helper = "accepting" /\ sock' = "server" /\ upOpen' = TRUE
          /\ up' = Sent("hello") /\ worker' = "receive_code"
       \/ worker' = "beach" /\ UNCHANGED <<sock, up, upOpen>>

\* ctx->ctrlfds [0] is closed.  HELLO goes over ctx->ctrlfds [1]; without a peer, over a new
\* connection.  A stale descriptor may be anything of the target's.
Hello ==
    /\ Worker("start")
    /\ \/ /\ ctrlfds = "pair" /\ route = "pair" /\ sock' = "pair"
          /\ up' = Sent("hello") /\ worker' = "receive_code" /\ UNCHANGED upOpen
       \/ /\ ctrlfds = "stale" /\ worker' = "astray" /\ UNCHANGED <<sock, up, upOpen>>
       \/ Connect
    /\ UNCHANGED <<memory, ctrlfds, agent_handle, loaded, codefd, agentfd, policy, down, agent, freed>>

\* The agent's code is received, unless the agent is loaded.
ReceiveCode ==
    /\ Worker("receive_code")
    /\ \/ /\ agent_handle /\ worker' = "receive_ctrl" /\ UNCHANGED <<codefd, down>>
       \/ /\ ~agent_handle /\ down # <<>> /\ down' = Tail(down)
          /\ codefd' = Received
          /\ worker' = IF codefd' = "none" THEN "beach" ELSE "load"
    /\ UNCHANGED <<memory, ctrlfds, agent_handle, loaded, agentfd, policy, sock, up, upOpen, agent, freed>>

\* dlopen () and dlsym (), either of which may fail; the descriptor is closed in between.
Load ==
    /\ Worker("load")
    /\ \/ /\ agent_handle' = TRUE /\ loaded' = TRUE /\ codefd' = "none" /\ worker' = "receive_ctrl"
          /\ UNCHANGED up
       \/ /\ up' = Sent("dlopen") /\ worker' = "beach" /\ UNCHANGED <<agent_handle, loaded, codefd>>
       \/ /\ agent_handle' = TRUE /\ loaded' = TRUE /\ codefd' = "none"
          /\ up' = Sent("dlsym") /\ worker' = "beach"
    /\ UNCHANGED <<memory, ctrlfds, agentfd, policy, sock, down, upOpen, agent, freed>>

\* The control channel, or the byte in its place, is received; then READY.
ReceiveCtrl ==
    /\ Worker("receive_ctrl") /\ down # <<>> /\ down' = Tail(down)
    /\ agentfd' = Received
    /\ up' = Sent("ready") /\ worker' = "receive_ack"
    /\ UNCHANGED <<memory, ctrlfds, agent_handle, loaded, codefd, policy, sock, upOpen, agent, freed>>

ReceiveAck ==
    /\ Worker("receive_ack") /\ down # <<>> /\ down' = Tail(down)
    /\ worker' = IF Head(down) = "ack" THEN "agent" ELSE "beach"
    /\ UNCHANGED <<memory, ctrlfds, agent_handle, loaded, codefd, agentfd, policy, sock, up, upOpen, agent, freed>>

\* The agent's entrypoint returns; it took over the control channel, or left it.
AgentReturns ==
    /\ Worker("agent") /\ worker' = "beach"
    /\ policy' \in Policy
    /\ (policy' = "deferred") <=> (helper = "paused")
    /\ agentfd' \in {agentfd, "none"}
    /\ UNCHANGED <<memory, ctrlfds, agent_handle, loaded, codefd, channel, agent, freed>>

\* beach: the agent is unloaded if it is to be, descriptors are closed, BYE is sent.
Beach ==
    /\ Worker("beach") /\ worker' = "exit"
    /\ loaded' = (loaded /\ policy # "immediate")
    /\ codefd' = "none" /\ agentfd' = "none" /\ sock' = "none" /\ upOpen' = FALSE
    /\ up' = IF sock = "none" THEN up ELSE Sent(policy)
    /\ UNCHANGED <<memory, ctrlfds, agent_handle, policy, down, agent, freed>>

Exit ==
    /\ Worker("exit") /\ worker' = "gone"
    /\ UNCHANGED <<memory, ctrlfds, agent_handle, loaded, codefd, agentfd, policy, channel, agent, freed>>

\* The target may die; its descriptors and its memory go with it.
Die ==
    /\ Running /\ worker' = "gone" /\ Frees("death") /\ upOpen' = FALSE
    /\ sock' = "none" /\ codefd' = "none" /\ agentfd' = "none"
    /\ UNCHANGED <<ctrlfds, agent_handle, loaded, policy, up, down, agent>>

Next ==
    \/ Inject \/ Rejuvenate \/ Accept \/ EstablishTimeout
    \/ MonitorRead \/ MonitorEof \/ MonitorStop \/ MonitorFails \/ Demonitor \/ Expire
    \/ Hello \/ ReceiveCode \/ Load \/ ReceiveCtrl \/ ReceiveAck \/ AgentReturns \/ Beach
    \/ Exit \/ Die

\* The helper's main loop runs and its timers fire; a thread that can go on does, except that
\* the agent may run for as long as it likes.
Fairness ==
    /\ WF_vars(Accept \/ MonitorRead \/ MonitorEof \/ MonitorStop) /\ WF_vars(EstablishTimeout)
    /\ WF_vars(Hello \/ ReceiveCode \/ Load \/ ReceiveCtrl \/ ReceiveAck \/ Beach \/ Exit)

Spec == Init /\ [][Next]_vars /\ Fairness
-----------------------------------------------------------------------------
\* The memory that the thread's code is in is given back only when the thread has left it:
\* RemoteAgent.monitor () waits for the thread before on_stop (), whatever it has read by then.
\* Three paths do not wait: the timeout of launch_loader (), the expiry of a paused agent, and the
\* catch block of monitor ().
MemoryOutlivesThread ==
    Running /\ memory # "mapped" =>
        freed = "read" \/ (~Prompt /\ freed \in {"timeout", "expiry"})

\* What the thread takes for the agent's code is the code, and what it takes for the control
\* channel is that: helper and thread agree on whether the agent is loaded already.
DescriptorsAreWhatTheySeem == codefd \in {"none", "code"} /\ agentfd \in {"none", "ctrl"}

\* A thread that has ended left no descriptor of its own behind.
NoDescriptorIsLeft == worker \in {"exit", "gone"} => {codefd, agentfd, sock} = {"none"}

\* The agent that is entered is loaded, in a recreated thread as in the first.
EnteredIsLoaded == worker = "agent" => loaded

\* The agent runs only if the helper took the injection for successful: one that was reported as
\* failed never starts to run, however late the thread is.
FailedNeverRuns == worker = "agent" => helper # "failed"

\* The loader's own error is what the caller gets: it is read before the stream's end.
\* (What every step satisfies.)
ErrorIsReported ==
    helper' = "failed" /\ helper # "failed" => \A i \in DOMAIN up : up[i] \notin Error

\* Every injection, and every relaunch, is reported one way or the other.
EveryLaunchEnds ==
    helper \in {"accepting", "starting", "leaving"} ~>
        helper \in {"running", "failed", "stopped", "paused"}

\* An agent that returned is reported as gone, unless it is in a transition.
EndIsNoticed == (worker = "gone" /\ helper = "running") ~> helper # "running"
=============================================================================
