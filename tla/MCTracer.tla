------------------------------ MODULE MCTracer ------------------------------
(***************************************************************************)
(* The syscall tracer, the spawn gater and the launcher of Android apps,   *)
(* for TLC. A behaviour is about one component, the one `component` names; *)
(* the others rest in an initial state. SpawnGater moves with two values   *)
(* of PromptStop.                                                          *)
(***************************************************************************)
EXTENDS Integers, SpawnGater

VARIABLES
    component,
    call, inflight, syscall_events, stats, target, excluded, armed, available, serial, unseen,
    switches,
    map_gen, mapped, map_pc, ev, map_stopped, map_events, running, handler, snap, pending,
    incomplete, hist, lost, missed, map_raced, evictions,
    z_package, z_app, z_hooked, z_named, z_link, z_stopped, z_load, z_recorded, z_revert,
    z_connections, z_pending, z_gating, z_requests, z_spawn, z_promise, z_resuming, z_phase,
    z_closing, z_lost

callVars == <<call, inflight, syscall_events, stats, target, excluded, armed, available, serial,
              unseen, switches>>
mapVars == <<map_gen, mapped, map_pc, ev, map_stopped, map_events, running, handler, snap,
             pending, incomplete, hist, lost, missed, map_raced, evictions>>
appVars == <<z_package, z_app, z_hooked, z_named, z_link, z_stopped, z_load, z_recorded,
             z_revert, z_connections, z_pending, z_gating, z_requests, z_spawn, z_promise,
             z_resuming, z_phase, z_closing, z_lost>>
allVars == <<component, callVars, mapVars, appVars, vars>>

\* System calls with paths; with lengths; with a struct timespec; and others.
PathCalls ==
    {"openat", "faccessat", "statfs", "readlinkat", "newfstatat", "statx", "rename", "renameat",
     "renameat2", "link", "linkat", "symlink", "symlinkat", "mount"}

LengthCalls == {"readlinkat", "statmount", "connect", "bind", "sendto"}

SleepCalls == {"nanosleep", "clock_nanosleep"}

OtherCalls ==
    {"accept", "accept4", "getsockname", "getpeername", "recvfrom", "fstatfs", "fstat", "getpid"}

\* Lengths around MAX_SOCK = 2 and MAX_PATH = 4.
Lengths == {0, 1, 2, 3, 4, 5, 8}

AllCalls ==
    {c \in [nr : PathCalls \cup LengthCalls \cup SleepCalls \cup OtherCalls,
            str : {-1} \cup Lengths, len : Lengths, in : BOOLEAN, out : BOOLEAN] :
        /\ c.nr \notin PathCalls => c.str = 0
        /\ c.nr \notin LengthCalls => c.len = 0
        /\ c.nr \notin SleepCalls => c.in /\ c.out}

\* -4 is -EINTR.
AllResults == [ret : {-4, -1} \cup Lengths, user_len : -1..3]

SomeCalls ==
    {[nr |-> nr, str |-> 1, len |-> 1, in |-> TRUE, out |-> TRUE] :
        nr \in {"fstat", "readlinkat", "nanosleep"}}
    \cup {[nr |-> "nanosleep", str |-> 1, len |-> 1, in |-> TRUE, out |-> FALSE]}

\* Every system call, with lengths around each limit.
Sizes == INSTANCE SyscallEvents WITH
    Threads <- {"t1"}, Calls <- AllCalls, Results <- AllResults, MAX_PATH <- 4, MAX_STAT <- 3,
    MAX_SOCK <- 2, TIMESPEC_SIZE <- 1, MAX_INFLIGHT_COPIES <- 1, RingSize <- 2, MaxCalls <- 1,
    MaxSwitches <- 0

\* Few calls of two threads whose events get lost.
Calls == INSTANCE SyscallEvents WITH
    Threads <- {"t1", "t2"}, Calls <- SomeCalls, Results <- [ret : {0, 1}, user_len : {0}],
    MAX_PATH <- 4, MAX_STAT <- 3, MAX_SOCK <- 2, TIMESPEC_SIZE <- 1, MAX_INFLIGHT_COPIES <- 1,
    RingSize <- 1, MaxCalls <- 2, MaxSwitches <- 1

Maps == INSTANCE MapTracking WITH
    Threads <- {"t1", "t2"}, NumPages <- 1, RingSize <- 2, MAX_PENDING <- 1,
    PromptStop <- TRUE, AnonMappings <- FALSE, MaxGen <- 2, MaxEvictions <- 1, pc <- map_pc,
    stopped <- map_stopped, raced <- map_raced

Launcher == INSTANCE Zymbiote WITH
    App <- {"a"}, Package <- {"p", "chrome"}, Chrome <- "chrome", Coincide <- FALSE,
    package <- z_package, app <- z_app, hooked <- z_hooked, named <- z_named, link <- z_link,
    stopped <- z_stopped, load <- z_load, recorded <- z_recorded, revert <- z_revert,
    connections <- z_connections, pending <- z_pending, gating <- z_gating,
    requests <- z_requests, spawn <- z_spawn, promise <- z_promise, resuming <- z_resuming,
    phase <- z_phase, closing <- z_closing, lost <- z_lost

PromptGater == INSTANCE SpawnGater WITH PromptStop <- TRUE

ASSUME Calls!ConstantsOK /\ Sizes!ConstantsOK /\ Maps!ConstantsOK /\ ConstantsOK

MCInit ==
    /\ component \in {"calls", "sizes", "maps", "app", "gater", "prompt gater"}
    /\ IF component = "sizes" THEN Sizes!Init
       ELSE Calls!Init /\ (component # "calls" => target)
    /\ Maps!Init /\ (component # "maps" => mapped = Maps!Empty)
    /\ Launcher!Init /\ (component # "app" => z_package = [a \in {"a"} |-> "p"])
    /\ Init

Others(c) ==
    /\ component = c /\ UNCHANGED component
    /\ c \notin {"calls", "sizes"} => UNCHANGED callVars
    /\ c # "maps" => UNCHANGED mapVars
    /\ c # "app" => UNCHANGED appVars
    /\ c \notin {"gater", "prompt gater"} => UNCHANGED vars

MCNext ==
    \/ Others("calls") /\ Calls!Next
    \/ Others("sizes") /\ Sizes!Next
    \/ Others("maps") /\ Maps!Next
    \/ Others("app") /\ Launcher!Next
    \/ Others("gater") /\ Next
    \/ Others("prompt gater") /\ PromptGater!Next

\* One component moves in a behaviour: each conjunct is the fairness of one step of each.
MCFairness ==
    /\ WF_allVars(\/ Others("calls") /\ Calls!OnSyscallEventsReadable
                  \/ Others("maps") /\ Maps!User
                  \/ Others("app") /\ Launcher!AppStep("a")
                  \/ Others("prompt gater") /\ PromptGater!ProcessPendingEvents)
    /\ WF_allVars(\/ Others("calls") /\ available /\ Calls!DrainEvents
                  \/ Others("maps") /\ Maps!SendStop("t1")
                  \/ Others("app") /\ Launcher!LauncherStep("a")
                  \/ Others("prompt gater") /\ PromptGater!SendStop("p1"))
    /\ WF_allVars(\/ Others("maps") /\ Maps!SendStop("t2")
                  \/ Others("app") /\ Launcher!ZygoteStep
                  \/ Others("prompt gater") /\ PromptGater!SendStop("p2"))
    /\ WF_allVars(\/ Others("maps") /\ Maps!EmitChange("t1")
                  \/ Others("app") /\ Launcher!SpawnReturns("p")
                  \/ Others("prompt gater") /\ PromptGater!SendStop("p3"))
    /\ WF_allVars(\/ Others("maps") /\ Maps!EmitChange("t2")
                  \/ Others("prompt gater") /\ PromptGater!PerformResume("p1"))
    /\ WF_allVars(\/ Others("prompt gater") /\ PromptGater!PerformResume("p2"))
    /\ WF_allVars(\/ Others("prompt gater") /\ PromptGater!PerformResume("p3"))

MCSpec == MCInit /\ [][MCNext]_allVars /\ MCFairness
-----------------------------------------------------------------------------
\* An event is of the call it is about.  What on_sys_exit () attaches was copied from the pointer
\* of the call that returns, unless nothing was copied for this call and the return of another one
\* went unrecorded; entries of "inflight" are no more than the calls in progress; and events that
\* are there to be read have a reader that is armed or knows.  Of every system call, no attachment
\* is larger than the room its event has for it, and the target of a link is whole, or cut to the
\* room next to its terminator.
EventsAreOwn ==
    /\ component = "calls" => Calls!CopiesAreOwn /\ Calls!EntriesAreUsedUp /\ Calls!NoLostWakeup
    /\ component = "sizes" => Sizes!LinkTargetIsWhole /\ Sizes!TypeOK

\* What is traced or gated goes on: every event is read; a process that was stopped for its snapshot
\* is continued; if no generation gets lost the resolver reaches the kernel's; the client learns of
\* every process that is stopped, and once gating has ended every process runs, except those whose
\* resume failed with an error that perform_resume () ignores; every app runs unless it is held for
\* a client or its resumption failed, and so does the zygote unless it was not seen to stop in time.
TracedGoesOn ==
    /\ component = "calls" => Calls!EventsAreRead
    /\ component = "maps" => Maps!Resumes
    /\ component = "maps" => Maps!CatchesUp
    /\ component = "app" => Launcher!EveryAppRuns
    /\ component = "app" => Launcher!ZygoteGoesOn
    /\ component = "prompt gater" => PromptGater!StopReleasesAll
    /\ component = "prompt gater" => PromptGater!StoppedIsReported
=============================================================================
