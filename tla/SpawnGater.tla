----------------------------- MODULE SpawnGater -----------------------------
(***************************************************************************)
(* Spawn gating on Linux: on_execve_enter () of src/src/linux/helpers/     *)
(* spawn-gater.bpf.c reports and stops every process that calls execve (), *)
(* SpawnGater of src/src/linux/spawn-gater.vala keeps it in pending_spawn  *)
(* until the client resumes it or gating ends.                             *)
(***************************************************************************)
EXTENDS Naturals, Sequences, Functions

CONSTANTS
    Pids,
    RingSize,               \* events that fit into the ring buffer
    PromptStop,             \* the SIGSTOP is sent before the event is read
    MaxExecs                \* bound on the execve () calls of a process

ConstantsOK == RingSize \in Nat \ {0} /\ PromptStop \in BOOLEAN /\ MaxExecs \in Nat

VARIABLES
    attached,               \* the program is attached (links)
    started,                \* state
    pc,                     \* of a process: "run", or "stop" between its event and its SIGSTOP
    stopped,                \* processes a SIGSTOP is in effect on
    events,                 \* ring buffer
    pending_spawn,
    resuming,               \* perform_resume () calls suspended in helper.resume ()
    execs, raced,           \* calls so far; processes resumed before they sent their SIGSTOP
    unresumed               \* processes that helper.resume () failed on, without a SIGCONT

vars == <<attached, started, pc, stopped, events, pending_spawn, resuming, execs, raced,
          unresumed>>

Init ==
    /\ attached = TRUE /\ started = TRUE
    /\ pc = [p \in Pids |-> "run"] /\ stopped = {}
    /\ events = <<>> /\ pending_spawn = {} /\ resuming = {}
    /\ execs = [p \in Pids |-> 0] /\ raced = {} /\ unresumed = {}

\* Mutant: a process is stopped whether or not it could be reported.
OnExecveEnterAlways(p) ==
    /\ pc[p] = "run" /\ p \notin stopped /\ execs[p] < MaxExecs
    /\ execs' = [execs EXCEPT ![p] = @ + 1]
    /\ IF attached
       THEN /\ events' = IF Len(events) < RingSize THEN Append(events, p) ELSE events
            /\ pc' = [pc EXCEPT ![p] = "stop"]
       ELSE UNCHANGED <<events, pc>>
    /\ UNCHANGED <<attached, started, stopped, pending_spawn, resuming, raced, unresumed>>

\* on_execve_enter (): without room for the event the process is let go.
OnExecveEnter(p) ==
    /\ pc[p] = "run" /\ p \notin stopped /\ execs[p] < MaxExecs
    /\ execs' = [execs EXCEPT ![p] = @ + 1]
    /\ IF attached /\ Len(events) < RingSize
       THEN events' = Append(events, p) /\ pc' = [pc EXCEPT ![p] = "stop"]
       ELSE UNCHANGED <<events, pc>>
    /\ UNCHANGED <<attached, started, stopped, pending_spawn, resuming, raced, unresumed>>

\* ... bpf_send_signal (SIGSTOP)
SendStop(p) ==
    /\ pc[p] = "stop" /\ pc' = [pc EXCEPT ![p] = "run"]
    /\ stopped' = stopped \cup {p}
    /\ UNCHANGED <<attached, started, events, pending_spawn, resuming, execs, raced, unresumed>>

MayRead == PromptStop => \A p \in Pids : pc[p] = "run"

\* process_pending_events (): handle_event () of everything in the ring buffer.
ProcessPendingEvents ==
    /\ started /\ events # <<>> /\ MayRead
    /\ pending_spawn' = pending_spawn \cup Range(events)
    /\ events' = <<>>
    /\ UNCHANGED <<attached, started, pc, stopped, resuming, execs, raced, unresumed>>

\* try_resume ()
TryResume(p) ==
    /\ p \in pending_spawn
    /\ pending_spawn' = pending_spawn \ {p} /\ resuming' = resuming \cup {p}
    /\ UNCHANGED <<attached, started, pc, stopped, events, execs, raced, unresumed>>

\* The end of perform_resume (): the helper resumed a process it had injected into, or does
\* not know the process (INVALID_ARGUMENT), which then gets a SIGCONT.
Resumed(p) ==
    /\ p \in resuming /\ resuming' = resuming \ {p}
    /\ stopped' = stopped \ {p}
    /\ raced' = IF pc[p] = "stop" THEN raced \cup {p} ELSE raced
    /\ UNCHANGED <<attached, started, pc, events, pending_spawn, execs, unresumed>>

\* ... any other error is ignored: no helper for processes of this word size, an exec
\* transition that is awaited, a helper that is gone.  Nobody tries again: the process is no
\* longer in pending_spawn, and the helper that a client's next resume () reaches sends no SIGCONT.
ResumeFails(p) ==
    /\ p \in resuming /\ resuming' = resuming \ {p}
    /\ unresumed' = unresumed \cup {p}
    /\ UNCHANGED <<attached, started, pc, stopped, events, pending_spawn, execs, raced>>

PerformResume(p) == Resumed(p) \/ ResumeFails(p)

\* Mutant: what is still in the ring buffer is not looked at.
StopUndrained ==
    /\ started /\ MayRead
    /\ attached' = FALSE /\ started' = FALSE
    /\ resuming' = resuming \cup pending_spawn
    /\ pending_spawn' = {} /\ events' = <<>>
    /\ UNCHANGED <<pc, stopped, execs, raced, unresumed>>

\* stop (): detaches the program, then reads what it reported, then resumes everybody.
Stop ==
    /\ started /\ MayRead
    /\ attached' = FALSE /\ started' = FALSE
    /\ resuming' = resuming \cup pending_spawn \cup Range(events)
    /\ pending_spawn' = {} /\ events' = <<>>
    /\ UNCHANGED <<pc, stopped, execs, raced, unresumed>>

\* start () after a stop (): gating may be switched on again while processes are being resumed.
Start ==
    /\ ~started
    /\ attached' = TRUE /\ started' = TRUE
    /\ UNCHANGED <<pc, stopped, events, pending_spawn, resuming, execs, raced, unresumed>>

Next ==
    \/ \E p \in Pids : OnExecveEnter(p) \/ SendStop(p) \/ TryResume(p) \/ PerformResume(p)
    \/ ProcessPendingEvents \/ Stop \/ Start

\* A kernel handler completes, the main loop serves the ring buffer, the helper answers.
Fairness ==
    /\ WF_vars(ProcessPendingEvents)
    /\ \A p \in Pids : WF_vars(SendStop(p)) /\ WF_vars(PerformResume(p))

Spec == Init /\ [][Next]_vars /\ Fairness
-----------------------------------------------------------------------------
\* A process that gating stopped is known: reported and unread, pending, or being resumed.
\* There are two exceptions, and no others: a process that was resumed before it sent itself the
\* SIGSTOP, and one that perform_resume () gave up on with an error other than INVALID_ARGUMENT.
StoppedIsKnown ==
    \A p \in stopped :
        p \in Range(events) \cup pending_spawn \cup resuming \cup raced \cup unresumed

\* Once gating has ended every process it stopped runs: stop () resumes those it reported to
\* nobody, too, and a start () that follows does not keep them.  A process that the helper
\* fails to resume stays stopped, and it alone.
StopReleasesAll ==
    \A p \in Pids : ~started /\ p \in stopped ~> p \notin stopped \/ p \in unresumed

\* The client learns of every process that is stopped, until it is resumed or given up on.
StoppedIsReported ==
    \A p \in Pids : p \in stopped /\ started ~>
        p \in pending_spawn \cup unresumed \/ p \notin stopped \/ ~started
=============================================================================
