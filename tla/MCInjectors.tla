----------------------------- MODULE MCInjectors ----------------------------
(***************************************************************************)
(* Injection into the processes of Linux, FreeBSD, QNX and iOS,            *)
(* for TLC. A behaviour is about one component, the one `component` names; *)
(* the others rest in an initial state. Two instances of a module differ   *)
(* in what they assume, and share their variables.                         *)
(***************************************************************************)
EXTENDS Naturals, Sequences

VARIABLES
    component,
    l_memory, l_ctrlfds, l_agent_handle, l_loaded, l_worker, l_sock, l_codefd, l_agentfd,
    l_policy, l_up, l_down, l_upOpen, l_helper, l_route, l_hello, l_started, l_pending,
    l_relaunches, l_freed,
    d_interpreter, d_r_debug, d_r_brk, d_dynamic, d_stage, d_begin, d_libc, d_swapped,
    d_breakpoint, d_regs, d_saved, d_running, d_step,
    f_ends, f_tail, f_at, f_start, f_cursor, f_lines, f_step,
    b_instance, b_session, b_ended, b_expiry, b_cancelling, b_worker, b_mapped, b_forced,
    b_aborted,
    p_proc, p_spawned, p_execd, p_waiting, p_instance, p_saved, p_pc, p_faults, p_execs,
    p_failed,
    c_call, c_pc, c_thread, c_registers, c_saved, c_sighup, c_faults, c_result, c_failedAt,
    q_host, q_listed, q_destroyed, q_channel, q_memory, q_thread, q_returned, q_pulses,
    q_sources, q_tid, q_policy, q_deferred, q_joining, q_ended, q_overtaken, q_hasty,
    u_script, u_host, u_sent, u_client, u_queue, u_peer, u_stream, u_back, u_app, u_greeted,
    u_written, u_fixed, u_protected, u_result, u_failure, u_reported, u_strangers

loaderVars == <<l_memory, l_ctrlfds, l_agent_handle, l_loaded, l_worker, l_sock, l_codefd,
                l_agentfd, l_policy, l_up, l_down, l_upOpen, l_helper, l_route, l_hello,
                l_started, l_pending, l_relaunches, l_freed>>
bootstrapVars == <<d_interpreter, d_r_debug, d_r_brk, d_dynamic, d_stage, d_begin, d_libc,
                   d_swapped, d_breakpoint, d_regs, d_saved, d_running, d_step>>
fileVars == <<f_ends, f_tail, f_at, f_start, f_cursor, f_lines, f_step>>
binjectorVars == <<b_instance, b_session, b_ended, b_expiry, b_cancelling, b_worker, b_mapped,
                   b_forced, b_aborted>>
ptraceVars == <<p_proc, p_spawned, p_execd, p_waiting, p_instance, p_saved, p_pc, p_faults,
                p_execs, p_failed>>
qnxCallVars == <<c_call, c_pc, c_thread, c_registers, c_saved, c_sighup, c_faults, c_result, c_failedAt>>
qnxVars == <<q_host, q_listed, q_destroyed, q_channel, q_memory, q_thread, q_returned, q_pulses,
             q_sources, q_tid, q_policy, q_deferred, q_joining, q_ended, q_overtaken, q_hasty>>
uploadVars == <<u_script, u_host, u_sent, u_client, u_queue, u_peer, u_stream, u_back, u_app,
                u_greeted, u_written, u_fixed, u_protected, u_result, u_failure, u_reported,
                u_strangers>>
vars == <<component, loaderVars, bootstrapVars, fileVars, binjectorVars, ptraceVars,
          qnxCallVars, qnxVars, uploadVars>>

Loader == INSTANCE LinuxLoader WITH
    MaxRelaunches <- 2, ControlChannel <- TRUE, Prompt <- TRUE, memory <- l_memory,
    ctrlfds <- l_ctrlfds, agent_handle <- l_agent_handle, loaded <- l_loaded,
    worker <- l_worker, sock <- l_sock, codefd <- l_codefd, agentfd <- l_agentfd,
    policy <- l_policy, up <- l_up, down <- l_down, upOpen <- l_upOpen, helper <- l_helper,
    route <- l_route, hello <- l_hello, started <- l_started, pending <- l_pending,
    relaunches <- l_relaunches, freed <- l_freed

\* The target may miss the timeouts.
SlowLoader == INSTANCE LinuxLoader WITH
    MaxRelaunches <- 1, ControlChannel <- FALSE, Prompt <- FALSE, memory <- l_memory,
    ctrlfds <- l_ctrlfds, agent_handle <- l_agent_handle, loaded <- l_loaded,
    worker <- l_worker, sock <- l_sock, codefd <- l_codefd, agentfd <- l_agentfd,
    policy <- l_policy, up <- l_up, down <- l_down, upOpen <- l_upOpen, helper <- l_helper,
    route <- l_route, hello <- l_hello, started <- l_started, pending <- l_pending,
    relaunches <- l_relaunches, freed <- l_freed

Bootstrap == INSTANCE LinuxBootstrap WITH
    Inits <- {6, 7}, LinkerStops <- {2, 3, 4}, interpreter <- d_interpreter,
    r_debug <- d_r_debug, r_brk <- d_r_brk, dynamic <- d_dynamic, stage <- d_stage,
    begin <- d_begin, libc <- d_libc, swapped <- d_swapped, breakpoint <- d_breakpoint,
    regs <- d_regs, saved <- d_saved, running <- d_running, step <- d_step

File == INSTANCE ProcFile WITH
    Cap <- 4, MaxLines <- 3, ends <- f_ends, tail <- f_tail, at <- f_at, start <- f_start,
    cursor <- f_cursor, lines <- f_lines, step <- f_step

Freebsd == INSTANCE Binjector WITH
    Ids <- {"i1", "i2"}, CallerIsPrompt <- TRUE, instance <- b_instance, session <- b_session,
    ended <- b_ended, expiry <- b_expiry, cancelling <- b_cancelling, worker <- b_worker,
    mapped <- b_mapped, forced <- b_forced, aborted <- b_aborted

Ptrace == INSTANCE BinjectorPtrace WITH
    MaxFaults <- 2, MaxExecs <- 3, WorkerStays <- FALSE, proc <- p_proc, spawned <- p_spawned,
    execd <- p_execd, waiting <- p_waiting, instance <- p_instance, saved <- p_saved,
    pc <- p_pc, faults <- p_faults, execs <- p_execs, failed <- p_failed

\* No agent is unloaded from a held process.
PtraceReturn == INSTANCE BinjectorPtrace WITH
    MaxFaults <- 2, MaxExecs <- 3, WorkerStays <- TRUE, proc <- p_proc, spawned <- p_spawned,
    execd <- p_execd, waiting <- p_waiting, instance <- p_instance, saved <- p_saved,
    pc <- p_pc, faults <- p_faults, execs <- p_execs, failed <- p_failed

RemoteCall == INSTANCE QnxCall WITH
    Calls <- 3, MaxFaults <- 2, call <- c_call, pc <- c_pc, thread <- c_thread,
    registers <- c_registers, saved <- c_saved, sighup <- c_sighup, faults <- c_faults,
    result <- c_result, failedAt <- c_failedAt

Qnx == INSTANCE QnxInjector WITH
    Prompt <- TRUE, host <- q_host, listed <- q_listed, destroyed <- q_destroyed,
    channel <- q_channel, memory <- q_memory, thread <- q_thread, returned <- q_returned,
    pulses <- q_pulses, sources <- q_sources, tid <- q_tid, policy <- q_policy,
    deferred <- q_deferred, joining <- q_joining, ended <- q_ended, overtaken <- q_overtaken,
    hasty <- q_hasty

\* The target, or the main loop, may be too late.
SlowQnx == INSTANCE QnxInjector WITH
    Prompt <- FALSE, host <- q_host, listed <- q_listed, destroyed <- q_destroyed,
    channel <- q_channel, memory <- q_memory, thread <- q_thread, returned <- q_returned,
    pulses <- q_pulses, sources <- q_sources, tid <- q_tid, policy <- q_policy,
    deferred <- q_deferred, joining <- q_joining, ended <- q_ended, overtaken <- q_overtaken,
    hasty <- q_hasty

Uploaded == INSTANCE Upload WITH
    Segments <- 2, MaxStrangers <- 2, script <- u_script, host <- u_host, sent <- u_sent,
    client <- u_client, queue <- u_queue, peer <- u_peer, stream <- u_stream, back <- u_back,
    app <- u_app, greeted <- u_greeted, written <- u_written, fixed <- u_fixed,
    protected <- u_protected, result <- u_result, failure <- u_failure, reported <- u_reported,
    strangers <- u_strangers

ASSUME Loader!ConstantsOK /\ SlowLoader!ConstantsOK /\ Bootstrap!ConstantsOK /\ File!ConstantsOK
    /\ Freebsd!ConstantsOK /\ Ptrace!ConstantsOK /\ PtraceReturn!ConstantsOK
    /\ RemoteCall!ConstantsOK /\ Qnx!ConstantsOK /\ SlowQnx!ConstantsOK /\ Uploaded!ConstantsOK

Init ==
    /\ component \in {"loader", "slow loader", "bootstrap", "file", "freebsd", "ptrace",
                      "ptrace return", "qnx call", "qnx", "slow qnx", "upload"}
    /\ Loader!Init
    /\ Bootstrap!Init /\ (component # "bootstrap" =>
          d_interpreter /\ d_r_debug /\ d_r_brk /\ d_dynamic = <<>> /\ d_stage = Bootstrap!Entry)
    /\ File!Init /\ (component # "file" => f_ends = <<>> /\ f_tail = 0)
    /\ Freebsd!Init
    /\ Ptrace!Init /\ (component \notin {"ptrace", "ptrace return"} => p_proc = Ptrace!Free)
    /\ RemoteCall!Init /\ (component # "qnx call" => c_thread = "running")
    /\ Qnx!Init
    /\ Uploaded!Init /\ (component # "upload" => u_script = Uploaded!Script(FALSE, FALSE))

Others(c) ==
    /\ component = c /\ UNCHANGED component
    /\ c \notin {"loader", "slow loader"} => UNCHANGED loaderVars
    /\ c # "bootstrap" => UNCHANGED bootstrapVars
    /\ c # "file" => UNCHANGED fileVars
    /\ c # "freebsd" => UNCHANGED binjectorVars
    /\ c \notin {"ptrace", "ptrace return"} => UNCHANGED ptraceVars
    /\ c # "qnx call" => UNCHANGED qnxCallVars
    /\ c \notin {"qnx", "slow qnx"} => UNCHANGED qnxVars
    /\ c # "upload" => UNCHANGED uploadVars

Next ==
    \/ Others("loader") /\ Loader!Next
    \/ Others("slow loader") /\ SlowLoader!Next
    \/ Others("bootstrap") /\ Bootstrap!Next
    \/ Others("file") /\ File!Next
    \/ Others("freebsd") /\ Freebsd!Next
    \/ Others("ptrace") /\ Ptrace!Next
    \/ Others("ptrace return") /\ PtraceReturn!Next
    \/ Others("qnx call") /\ RemoteCall!Next
    \/ Others("qnx") /\ Qnx!Next
    \/ Others("slow qnx") /\ SlowQnx!Next
    \/ Others("upload") /\ Uploaded!Next

\* One component moves in a behaviour: each conjunct is the fairness of one step of each.
Fairness ==
    /\ WF_vars(\/ Others("loader") /\ (Loader!Accept \/ Loader!MonitorRead \/ Loader!MonitorEof
                        \/ Loader!MonitorStop)
               \/ Others("slow loader") /\ (SlowLoader!Accept \/ SlowLoader!MonitorRead
                        \/ SlowLoader!MonitorEof \/ SlowLoader!MonitorStop)
               \/ Others("bootstrap") /\ Bootstrap!Next
               \/ Others("file") /\ File!Next
               \/ Others("freebsd") /\ ~b_aborted /\ Freebsd!Injector("i1")
               \/ Others("ptrace return") /\ PtraceReturn!InjectorStep
               \/ Others("qnx") /\ Qnx!DoInject
               \/ Others("upload") /\ Uploaded!Listen)
    /\ WF_vars(\/ Others("loader") /\ Loader!EstablishTimeout
               \/ Others("slow loader") /\ SlowLoader!EstablishTimeout
               \/ Others("freebsd") /\ ~b_aborted /\ Freebsd!Injector("i2")
               \/ Others("ptrace return") /\ PtraceReturn!ExecTransition
               \/ Others("qnx") /\ Qnx!Thread
               \/ Others("upload") /\ Uploaded!App)
    /\ WF_vars(\/ Others("loader") /\ (Loader!Hello \/ Loader!ReceiveCode \/ Loader!Load
                        \/ Loader!ReceiveCtrl \/ Loader!ReceiveAck \/ Loader!Beach
                        \/ Loader!Exit)
               \/ Others("slow loader") /\ (SlowLoader!Hello \/ SlowLoader!ReceiveCode
                        \/ SlowLoader!Load \/ SlowLoader!ReceiveCtrl \/ SlowLoader!ReceiveAck
                        \/ SlowLoader!Beach \/ SlowLoader!Exit)
               \/ Others("qnx") /\ Qnx!ReceivePulse
               \/ Others("upload") /\ Uploaded!Client)
    /\ WF_vars(\/ Others("qnx") /\ Qnx!Dispatched)
    /\ WF_vars(\/ Others("qnx") /\ Qnx!DeferralExpires)
    /\ WF_vars(\/ Others("qnx") /\ Qnx!JoinTimer)
    /\ WF_vars(\/ Others("qnx") /\ Qnx!Timeout)

Spec == Init /\ [][Next]_vars /\ Fairness
-----------------------------------------------------------------------------
\* The memory that a payload is in is given back only when its thread has left it, in whatever
\* order messages, ends, cancellations, forks and timers come.  Excepted, by name, are the paths that
\* do not wait for the thread: timeouts, a read that fails, and a start of the thread that fails
\* after it runs.
MemoryOutlivesThread ==
    /\ component = "loader" => Loader!MemoryOutlivesThread
    /\ component = "slow loader" => SlowLoader!MemoryOutlivesThread
    /\ component = "freebsd" => Freebsd!PayloadOutlivesWorker
    /\ component = "ptrace" => Ptrace!WorkerHasPayload
    /\ component = "qnx" => Qnx!MemoryOutlivesThread
    /\ component = "slow qnx" => SlowQnx!MemoryOutlivesThread

\* A target goes on as it was.  On Linux, whenever the helper is done with a target that is stopped,
\* its code and its registers are those of where it is, and none of its initializers has run if it
\* was held.  On FreeBSD its main thread runs only with its own registers unless a remote call had
\* failed, and not before resume () if it was spawned, and it stays traced only if an entry says so
\* or a call failed after attaching.  On QNX a call that succeeds puts the program's registers back,
\* unless an earlier one lost them, and the SIGHUP reaches the program only where the wait for it fails.
TargetIsRestored ==
    /\ component = "bootstrap" => Bootstrap!AsItWas /\ Bootstrap!HeldBeforeOwnCode
    /\ component = "ptrace" =>
          Ptrace!TracedIsHeld /\ Ptrace!RunsWithOwnRegisters /\ Ptrace!SpawnedIsHeld
    /\ component = "qnx call" =>
          RemoteCall!BackAsBefore /\ RemoteCall!ChangedWhileStopped /\ RemoteCall!NoHangup

\* What is run is complete: the agent that a first or a recreated thread enters is loaded, one that
\* was reported as failed never runs however late its thread is, the C library is linked when the
\* loader is given it, and constructors run when every segment is written, protected and fixed.
CompleteWhenRun ==
    /\ component = "loader" => Loader!EnteredIsLoaded
    /\ component = "slow loader" => SlowLoader!FailedNeverRuns
    /\ component = "bootstrap" => Bootstrap!LinkedWhenUsed
    /\ component = "upload" => Uploaded!ConstructedWhenComplete

\* Both sides of a stream agree on what comes next.  What the loader's thread takes for the code or
\* for the control channel is that, and none of its descriptors is left when it has ended; what
\* follows a command of an upload that failed is not taken for a command; a parser of /proc files is
\* given whole lines in order, however the reads cut them.
InStep ==
    /\ component = "loader" => Loader!DescriptorsAreWhatTheySeem /\ Loader!NoDescriptorIsLeft
    /\ component = "upload" => Uploaded!InStep
    /\ component = "file" => File!WholeLinesInOrder

\* An instance is destroyed once and by somebody: the assertions of _destroy_inject_instance () and
\* _destroy_instance () hold, whichever of timeout, end, expiry and failure comes first, a session
\* that ended has an instance to destroy, and memory that the agent asked to keep is kept.
DestroyedOnce ==
    /\ component = "freebsd" => Freebsd!AssertFound /\ Freebsd!EndedHasInstance
    /\ component = "slow qnx" => SlowQnx!DestroyedOnce
    /\ component = "qnx" => Qnx!PolicyIsFollowed

\* Everything that is begun ends and is noticed.  Every launch is reported one way or the other,
\* with the loader's own error if it has one, and an agent that returned as gone; the bootstrap, the
\* parsing of a file (not before its last line) and the calls of the injectors return, and so does
\* upload () unless a stranger that says nothing keeps it; and instances whose thread is
\* gone are destroyed.
EverythingEnds ==
    /\ [][component = "loader" => Loader!ErrorIsReported]_vars
    /\ component \in {"loader", "slow loader"} => Loader!EveryLaunchEnds
    /\ component = "loader" => Loader!EndIsNoticed
    /\ component = "bootstrap" => Bootstrap!BootstrapEnds
    /\ File!EndIsReached
    /\ component = "file" => File!ParsingEnds
    /\ component = "freebsd" => Freebsd!InstancesAreDestroyed
    /\ component = "ptrace return" => PtraceReturn!CallsReturn
    /\ component = "qnx" => Qnx!EndIsNoticed
    /\ component = "upload" => Uploaded!UploadReturns
=============================================================================
