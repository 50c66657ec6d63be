------------------------------ MODULE MCWindows -----------------------------
(***************************************************************************)
(* The injector, the pipes and the helper services of Windows, and the     *)
(* start and the end of the runtime, for TLC. A behaviour is about one     *)
(* component, the one `component` names; the others rest in an initial     *)
(* state.                                                                  *)
(***************************************************************************)
EXTENDS Naturals, Sequences

VARIABLES
    component,
    h_manager, h_scm, h_context, h_systems, h_standalones, h_registered, h_service, h_control,
    h_pipe, h_pending, h_stopped, h_again, h_refused, h_dangling,
    s_inactive, s_pc, s_size, s_resume, s_failed, s_found, s_configSize, s_deleted, s_dirs,
    s_removed, s_unread,
    i_level, i_busy, i_inj, i_process, i_memory, i_thread, i_dead, i_files, i_pending, i_close,
    w_role, w_connected, w_pipe, w_peer, w_ready, w_ops, w_pc, w_io, w_with, w_cancelled,
    w_cancel, w_orphans, w_spoilt, w_last,
    r_initialized, r_pc, r_loop, r_main, r_sources, r_stop, r_released, r_early

helpersVars == <<h_manager, h_scm, h_context, h_systems, h_standalones, h_registered, h_service,
                 h_control, h_pipe, h_pending, h_stopped, h_again, h_refused, h_dangling>>
staleVars == <<s_inactive, s_pc, s_size, s_resume, s_failed, s_found, s_configSize, s_deleted,
               s_dirs, s_removed, s_unread>>
injectVars == <<i_level, i_busy, i_inj, i_process, i_memory, i_thread, i_dead, i_files,
                i_pending, i_close>>
pipeVars == <<w_role, w_connected, w_pipe, w_peer, w_ready, w_ops, w_pc, w_io, w_with,
              w_cancelled, w_cancel, w_orphans, w_spoilt, w_last>>
runtimeVars == <<r_initialized, r_pc, r_loop, r_main, r_sources, r_stop, r_released, r_early>>
vars == <<component, helpersVars, staleVars, injectVars, pipeVars, runtimeVars>>

Helpers == INSTANCE WindowsHelpers WITH
    Arch <- {"x86", "arm64"}, manager <- h_manager, scm <- h_scm, context <- h_context,
    systems <- h_systems, standalones <- h_standalones, registered <- h_registered,
    service <- h_service, control <- h_control, pipe <- h_pipe, pending <- h_pending,
    stopped <- h_stopped, again <- h_again, refused <- h_refused, dangling <- h_dangling

Stale == INSTANCE StaleServices WITH
    MaxServices <- 2, MaxSize <- 2, Dir <- {"d1", "d2"}, BufferSize <- 1,
    inactive <- s_inactive, pc <- s_pc, size <- s_size, resume <- s_resume, failed <- s_failed, found <- s_found,
    configSize <- s_configSize, deleted <- s_deleted, dirs <- s_dirs, removed <- s_removed,
    unread <- s_unread

Windows == INSTANCE WindowsInject WITH
    Id <- {"i1", "i2"}, level <- i_level, busy <- i_busy, inj <- i_inj, process <- i_process,
    memory <- i_memory, thread <- i_thread, dead <- i_dead, files <- i_files,
    pending <- i_pending, close <- i_close

Pipe == INSTANCE WindowsPipe WITH
    MaxOps <- 1, role <- w_role, connected <- w_connected, pipe <- w_pipe, peer <- w_peer,
    ready <- w_ready, ops <- w_ops, pc <- w_pc, io <- w_io, with <- w_with,
    cancelled <- w_cancelled, cancel <- w_cancel, orphans <- w_orphans, spoilt <- w_spoilt,
    last <- w_last

Runtime == INSTANCE FridaRuntime WITH
    Thread <- {"t1", "t2"}, Closer <- "t1", Object <- {"o1", "o2"},
    initialized <- r_initialized, pc <- r_pc, loop <- r_loop, main <- r_main,
    sources <- r_sources, stop <- r_stop, released <- r_released, early <- r_early

ASSUME Helpers!ConstantsOK /\ Stale!ConstantsOK /\ Windows!ConstantsOK /\ Pipe!ConstantsOK
    /\ Runtime!ConstantsOK

Init ==
    /\ component \in {"helpers", "stale services", "windows", "pipe", "runtime"}
    /\ Helpers!Init
    /\ Stale!Init /\ (component # "stale services" => s_inactive = <<>>)
    /\ Windows!Init /\ (component # "windows" => i_level = "NORMAL")
    /\ Pipe!Init /\ (component # "pipe" => w_role = "client")
    /\ Runtime!Init

Others(c) ==
    /\ component = c /\ UNCHANGED component
    /\ c # "helpers" => UNCHANGED helpersVars
    /\ c # "stale services" => UNCHANGED staleVars
    /\ c # "windows" => UNCHANGED injectVars
    /\ c # "pipe" => UNCHANGED pipeVars
    /\ c # "runtime" => UNCHANGED runtimeVars

Next ==
    \/ Others("helpers") /\ Helpers!Next
    \/ Others("stale services") /\ Stale!Next
    \/ Others("windows") /\ Windows!Next
    \/ Others("pipe") /\ Pipe!Next
    \/ Others("runtime") /\ Runtime!Next

\* One component moves in a behaviour: each conjunct is the fairness of one step of each.
Fairness ==
    /\ WF_vars(\/ Others("helpers") /\ Helpers!Manage
               \/ Others("stale services") /\ (Stale!Enumerate \/ Stale!Delete \/ Stale!RemoveDirs)
               \/ Others("windows") /\ Windows!Clear
               \/ Others("pipe") /\ Pipe!Step("read")
               \/ Others("runtime") /\ Runtime!Main)
    /\ WF_vars(\/ Others("helpers") /\ Helpers!Serve(<<"x86", "system">>)
               \/ Others("windows") /\ i_busy = {"i1"} /\ Windows!Call("i1")
               \/ Others("pipe") /\ Pipe!Step("write")
               \/ Others("runtime") /\ Runtime!Joined)
    /\ WF_vars(\/ Others("helpers") /\ Helpers!Serve(<<"arm64", "system">>)
               \/ Others("windows") /\ i_busy = {"i2"} /\ Windows!Call("i2")
               \/ Others("runtime") /\ Runtime!Deinit)
    /\ WF_vars(\/ Others("helpers") /\ Helpers!Serve(<<"x86", "standalone">>)
               \/ Others("windows") /\ Windows!Monitor("i1")
               \/ Others("runtime") /\ Runtime!EnterInit("t1"))
    /\ WF_vars(\/ Others("helpers") /\ Helpers!Serve(<<"arm64", "standalone">>)
               \/ Others("windows") /\ Windows!Monitor("i2")
               \/ Others("runtime") /\ Runtime!EnterInit("t2"))
    /\ WF_vars(\/ Others("windows") /\ Windows!Dispatch("i1")
               \/ Others("runtime") /\ Runtime!LeaveInit("t1"))
    /\ WF_vars(\/ Others("windows") /\ Windows!Dispatch("i2")
               \/ Others("runtime") /\ Runtime!LeaveInit("t2"))
    /\ WF_vars(\/ Others("windows") /\ Windows!Load("i1"))
    /\ WF_vars(\/ Others("windows") /\ Windows!Load("i2"))
    /\ WF_vars(\/ Others("windows") /\ Windows!Leave("i1"))
    /\ WF_vars(\/ Others("windows") /\ Windows!Leave("i2"))

Spec == Init /\ [][Next]_vars /\ Fairness
-----------------------------------------------------------------------------
\* Whatever is used is there: a thread that runs the payload finds it in memory, one that has still
\* to load the library finds the file, the context of the services has none when it is freed (its
\* assertions) and is not used any more but by a second stop (), and whoever returns from
\* frida_init () finds the main loop.
UsedIsThere ==
    /\ component = "windows" => Windows!MemoryOutlivesThread /\ Windows!FileOutlivesLoad
    /\ component = "helpers" => Helpers!FreedEmpty
    /\ component = "runtime" => Runtime!InitReturnsReady

\* Nothing is left behind, and nothing is missing: an injection that has failed or is over leaves
\* neither memory nor a handle; a manager that takes requests has a helper for every architecture,
\* but for the two cases that IsServed excepts; exactly the stale services that can be opened are
\* deleted, and their directories removed where a configuration of theirs could be read; and objects
\* that were handed over in time are released before the main loop ends.
NothingIsLeft ==
    /\ component = "windows" => Windows!NothingIsLeft
    /\ component = "helpers" => Helpers!IsServed
    /\ component = "stale services" => Stale!AllAreRemoved
    /\ component = "runtime" => Runtime!ReleasedBeforeEnd

\* Whatever is asked to stop ends: the manager, and its services but for those that ServicesEnd
\* excepts; the enumeration of stale services, if the system has an inactive one; close (), once
\* no entrypoint runs; an operation on a pipe that is cancelled, closed or left by the peer; and
\* frida_shutdown ().
StopEnds ==
    /\ component = "helpers" => Helpers!StopEnds
    /\ component = "helpers" => Helpers!ServicesEnd
    /\ component = "stale services" => Stale!EnumerationEnds
    /\ component = "windows" => Windows!CloseReturns
    /\ component = "pipe" => Pipe!Returned
    /\ component = "runtime" => Runtime!ShutdownReturns
=============================================================================
