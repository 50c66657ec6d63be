-------------------------- MODULE BinjectorPtrace --------------------------
(***************************************************************************)
(* The FreeBSD injector and the process it works on:                       *)
(* src/src/freebsd/binjector-glue.c, called by Binjector of                *)
(* src/src/freebsd/binjector.vala.                                         *)
(*                                                                         *)
(* The injector stops a process with ptrace (), makes it call mmap (),     *)
(* writes a payload there and runs it, which starts a worker thread; then  *)
(* it restores the registers and lets go.  A process that it spawned, or   *)
(* whose execve () it waited for, stays traced until resume (): meanwhile  *)
(* only its worker runs.                                                   *)
(*                                                                         *)
(* One process and one injection.  Each step is one function of the glue;  *)
(* a step that can fail does so nondeterministically, up to MaxFaults      *)
(* times.  The process may die, call execve (), or end its worker between  *)
(* any two steps in which it can run.                                      *)
(***************************************************************************)
EXTENDS Naturals

CONSTANTS
    MaxFaults, MaxExecs,    \* bounds
    WorkerStays             \* the agent is not unloaded from a process before its resume ()

ConstantsOK == MaxFaults \in Nat /\ MaxExecs \in Nat /\ WorkerStays \in BOOLEAN

VARIABLES
    proc,               \* the process, see Process
    spawned, execd,     \* entries of spawn_instances and exec_instances, see Held
    waiting,            \* exec_waiters: await_exec_transition () polls
    instance,           \* the injection, see Instance
    saved,              \* saved_regs
    pc,                 \* the step the injector is at
    faults, execs,
    failed              \* which operations on the process failed half way; for the properties

vars == <<proc, spawned, execd, waiting, instance, saved, pc, faults, execs, failed>>

\* regs: the main thread's registers are its own or set up for a call by the injector;
\* suspended: PT_SUSPEND of the main thread; trap: stopped by its execve ().
Process == [alive : BOOLEAN, traced : BOOLEAN, stopped : BOOLEAN, suspended : BOOLEAN,
            regs : {"own", "ours"}, worker : BOOLEAN, trap : BOOLEAN]

\* An instance has an interruptible_thread once it was injected into.
Held == {"none", "plain", "interruptible"}

\* payload: "lost" after an execve () that the injector does not notice.
Instance == [registered : BOOLEAN, payload : {"none", "mapped", "lost"},
             already_attached : BOOLEAN, exec_pending : BOOLEAN]

Free == [alive |-> TRUE, traced |-> FALSE, stopped |-> FALSE, suspended |-> FALSE,
         regs |-> "own", worker |-> FALSE, trap |-> FALSE]

NoInstance == [registered |-> FALSE, payload |-> "none", already_attached |-> FALSE,
               exec_pending |-> FALSE]

Init ==
    /\ proc \in {Free, [Free EXCEPT !.alive = FALSE]}     \* it may be there already
    /\ spawned = "none" /\ execd = "none" /\ waiting = FALSE
    /\ instance = NoInstance /\ saved = "own" /\ pc = "idle"
    /\ faults = 0 /\ execs = 0 /\ failed = {}

MainRuns == proc.alive /\ ~proc.stopped /\ ~proc.suspended
CanPtrace == proc.alive /\ proc.traced /\ proc.stopped

Fault == faults < MaxFaults /\ faults' = faults + 1
NoFault == faults' = faults
Fails(what) == Fault /\ failed' = failed \cup {what}

Step(from, to) == pc = from /\ pc' = to
-----------------------------------------------------------------------------
\* frida_run_to_entrypoint (): a breakpoint at the entry point, PT_CONTINUE, a stop, and the
\* original code back.
RunToEntrypoint(p) == [p EXCEPT !.stopped = TRUE, !.trap = FALSE]

\* do_spawn (): fork (), PT_TRACE_ME, execve (), then run_to_entrypoint (), which may fail with
\* the process stopped somewhere before its entry point.
Spawn ==
    /\ Step("idle", "idle") /\ ~proc.alive /\ execs = 0
    /\ execs' = execs + 1
    /\ proc' = RunToEntrypoint([Free EXCEPT !.traced = TRUE])
    /\ \/ NoFault /\ spawned' = "plain" /\ UNCHANGED failed
       \/ Fails("spawn") /\ UNCHANGED spawned
    /\ UNCHANGED <<execd, waiting, instance, saved>>

\* prepare_exec_transition (): PT_ATTACH, waitpid (), PT_CONTINUE; notify_exec_pending ().  A
\* failure after PT_ATTACH leaves the process traced.
PrepareExec ==
    /\ Step("idle", "idle") /\ proc.alive /\ execd = "none" /\ ~proc.traced
    /\ proc' = [proc EXCEPT !.traced = TRUE]
    /\ \/ /\ NoFault /\ execd' = "plain"
          /\ instance' = [instance EXCEPT !.exec_pending = instance.registered]
          /\ UNCHANGED failed
       \/ Fails("prepare") /\ UNCHANGED <<execd, instance>>
    /\ UNCHANGED <<spawned, waiting, saved, execs>>

\* await_exec_transition (), up to its yield.
AwaitExec ==
    /\ Step("idle", "idle") /\ execd # "none" /\ ~waiting /\ ~proc.trap
    /\ waiting' = TRUE
    /\ UNCHANGED <<proc, spawned, execd, instance, saved, faults, execs, failed>>

\* try_transition_exec_instance () found the process stopped by its execve ().
ExecTransition ==
    /\ Step("idle", "idle") /\ execd # "none" /\ proc.alive /\ proc.trap
    /\ waiting' = FALSE
    /\ \/ NoFault /\ proc' = RunToEntrypoint(proc) /\ UNCHANGED <<execd, failed, instance>>
       \/ \* the pending error: _resume_exec_instance (), _notify_exec_pending (false)
          /\ Fails("transition") /\ waiting
          /\ proc' = [proc EXCEPT !.trap = FALSE, !.traced = FALSE, !.stopped = FALSE]
          /\ execd' = "none"
          /\ instance' = [instance EXCEPT !.exec_pending = FALSE]
    /\ UNCHANGED <<spawned, saved, execs>>

\* cancel_exec_transition (), which the agent asks for when its execve () failed: kill (SIGSTOP),
\* wait for the stop, PT_DETACH.
CancelExec ==
    /\ Step("idle", "idle") /\ execd # "none" /\ execd' = "none" /\ waiting' = FALSE
    /\ proc.alive /\ ~proc.stopped /\ execd = "plain"
    /\ proc' = [proc EXCEPT !.traced = FALSE, !.stopped = FALSE, !.trap = FALSE]
    /\ instance' = [instance EXCEPT !.exec_pending = FALSE]
    /\ UNCHANGED <<spawned, saved, faults, execs, failed>>

\* PT_SUSPEND of the main thread, so that PT_CONTINUE only runs the worker.
Suspended(p) == [p EXCEPT !.suspended = TRUE]

\* frida_spawn_instance_resume (), frida_exec_instance_resume ()
NextOfResume(held) == IF held = "interruptible" THEN "interrupt" ELSE "detach"

\* resume () of a spawned or of an exec'd process.  With an interruptible_thread it first stops
\* the process through that thread and waits.
Resume ==
    /\ pc = "idle" /\ ~(spawned = "none" /\ execd # "none" /\ waiting)
    /\ LET held == IF spawned # "none" THEN spawned ELSE execd
       IN  /\ held # "none"
           /\ pc' = NextOfResume(held)
    /\ spawned' = "none"
    /\ execd' = IF spawned # "none" THEN execd ELSE "none"
    /\ UNCHANGED <<proc, waiting, instance, saved, faults, execs, failed>>

\* frida_wait_for_child_signal (), until the worker stops the process or the process is gone.
Interrupted ==
    /\ Step("interrupt", "detach")
    /\ \/ ~proc.alive
       \/ proc.worker /\ ~proc.stopped      \* the worker takes the SIGSTOP
       \/ proc.trap
    /\ proc' = [proc EXCEPT !.stopped = proc.alive]
    /\ UNCHANGED <<spawned, execd, waiting, instance, saved, faults, execs, failed>>

\* PT_DETACH, which also ends the suspension of the main thread.
Detach ==
    /\ Step("detach", "idle")
    /\ proc' = [proc EXCEPT !.traced = FALSE, !.stopped = FALSE, !.suspended = FALSE,
                            !.trap = FALSE]
    /\ UNCHANGED <<spawned, execd, waiting, instance, saved, faults, execs, failed>>
-----------------------------------------------------------------------------
\* frida_inject_instance_attach ().  A process that is traced already has its registers read,
\* which takes one that is stopped; otherwise PT_ATTACH stops it, or PT_DETACH takes it back.
Attach(inst, to, else) ==
    \/ /\ CanPtrace /\ NoFault /\ pc' = to
       /\ instance' = [inst EXCEPT !.already_attached = TRUE]
       /\ saved' = proc.regs /\ UNCHANGED proc
    \/ /\ proc.alive /\ ~proc.traced /\ NoFault /\ pc' = to
       /\ instance' = [inst EXCEPT !.already_attached = FALSE]
       /\ saved' = proc.regs
       /\ proc' = [proc EXCEPT !.traced = TRUE, !.stopped = TRUE]
    \/ /\ IF CanPtrace \/ (proc.alive /\ ~proc.traced) THEN Fault ELSE NoFault
       /\ pc' = else /\ instance' = inst /\ UNCHANGED <<proc, saved>>

\* frida_remote_api_try_init (): the process has a libc to call.  The check comes before anything
\* is done to the process.
HasLibc == proc.alive

\* do_inject (), whose instance has no payload yet: a failure frees it without more ado.
Inject ==
    /\ pc = "idle" /\ ~instance.registered /\ HasLibc /\ ~proc.worker
    /\ Attach(instance, "alloc", "idle")
    /\ UNCHANGED <<spawned, execd, waiting, execs, failed>>

\* recreate_injectee_thread (): the payload is still there; a clone has its FIFO's path written
\* into it.  A failure destroys the instance.
RecreateInjecteeThread ==
    /\ pc = "idle" /\ instance.registered /\ instance.payload = "mapped" /\ ~proc.worker
    /\ Attach([instance EXCEPT !.registered = FALSE], "start", "free")
    /\ UNCHANGED <<spawned, execd, waiting, execs, failed>>

\* frida_remote_call (): sets the main thread's registers up, continues it to the breakpoint the
\* call returns to, and reads the result.  It leaves the registers as they are then.
RemoteCall(from, to, inst) ==
    /\ pc = from
    /\ IF CanPtrace
       THEN /\ proc' = [proc EXCEPT !.regs = "ours", !.trap = FALSE]
            /\ \/ NoFault /\ pc' = to /\ instance' = inst /\ UNCHANGED failed
               \/ Fails("call") /\ pc' = "free" /\ UNCHANGED instance
       ELSE pc' = "free" /\ NoFault /\ UNCHANGED <<proc, instance, failed>>
    /\ UNCHANGED <<spawned, execd, waiting, saved, execs>>

\* frida_remote_alloc (): the call of mmap ().
RemoteAlloc == RemoteCall("alloc", "emit", [instance EXCEPT !.payload = "mapped"])

\* frida_inject_instance_emit_and_transfer_payload (): code and data are written with PT_IO.
EmitAndTransferPayload ==
    /\ pc = "emit"
    /\ \/ CanPtrace /\ NoFault /\ pc' = "protect" /\ UNCHANGED failed
       \/ CanPtrace /\ Fails("call") /\ pc' = "free"
       \/ ~CanPtrace /\ NoFault /\ pc' = "free" /\ UNCHANGED failed
    /\ UNCHANGED <<proc, spawned, execd, waiting, instance, saved, execs>>

\* frida_remote_mprotect () of the code.
RemoteMprotect == RemoteCall("protect", "start", instance)

\* start_remote_thread (): remote_exec () of the payload, up to its breakpoint; it may fail after
\* the worker was started.  If the process is gone, "exited" is TRUE; if its registers cannot be
\* read it is never set.
StartRemoteThread ==
    /\ pc = "start"
    /\ IF CanPtrace
       THEN \/ /\ NoFault /\ pc' = "release" /\ UNCHANGED <<failed, instance>>
               /\ proc' = [proc EXCEPT !.regs = "ours", !.trap = FALSE, !.worker = TRUE]
            \/ /\ Fails("call") /\ pc' = "free" /\ UNCHANGED instance
               /\ proc' \in {proc, [proc EXCEPT !.regs = "ours"]}
            \/ /\ Fails("start") /\ pc' = "free" /\ UNCHANGED instance
               /\ proc' = [proc EXCEPT !.regs = "ours", !.trap = FALSE, !.worker = TRUE]
            \/ /\ Fails("call") /\ pc' = "idle" /\ UNCHANGED proc
               /\ instance' = [instance EXCEPT !.registered = TRUE]
       ELSE /\ NoFault /\ UNCHANGED <<proc, failed>>
            /\ \/ pc' = "idle" /\ instance' = [instance EXCEPT !.registered = TRUE]
               \/ pc' = "free" /\ UNCHANGED instance
    /\ UNCHANGED <<spawned, execd, waiting, saved, execs>>

\* Mutant: the registers are left as the call left them.
SetRegsNot(p) == p

\* frida_set_regs ()
SetRegs(p) == [p EXCEPT !.regs = saved]

\* frida_inject_instance_detach (): a process that was traced already goes on with its worker
\* only, if it has exactly that second thread; any other is let go.
Release(from, registered) ==
    /\ Step(from, "idle") /\ NoFault
    /\ IF ~CanPtrace THEN UNCHANGED <<proc, spawned, execd>>
       ELSE IF ~instance.already_attached
       THEN /\ proc' = [SetRegs(proc) EXCEPT !.traced = FALSE, !.stopped = FALSE]
            /\ UNCHANGED <<spawned, execd>>
       ELSE IF proc.worker /\ (spawned # "none" \/ execd # "none")
       THEN /\ proc' = [Suspended(SetRegs(proc)) EXCEPT !.stopped = FALSE]
            /\ spawned' = IF spawned # "none" THEN "interruptible" ELSE "none"
            /\ execd' = IF spawned # "none" THEN execd ELSE "interruptible"
       ELSE proc' = SetRegs(proc) /\ UNCHANGED <<spawned, execd>>
    /\ instance' = [instance EXCEPT !.registered = registered]
    /\ UNCHANGED <<waiting, saved, execs, failed>>

InjectDetach == Release("release", TRUE)

\* _destroy_inject_instance () when the worker is gone, with UnloadPolicy.IMMEDIATE and others.
Destroy ==
    /\ pc = "idle" /\ instance.registered /\ ~proc.worker
    /\ \/ pc' = "free" /\ instance' = [instance EXCEPT !.registered = FALSE]
       \/ pc' = "idle" /\ instance' = NoInstance
    /\ UNCHANGED <<proc, spawned, execd, waiting, saved, faults, execs, failed>>

\* frida_inject_instance_free (): attaches once more to unmap the payload, if there is one.
FreeInstance ==
    /\ pc = "free"
    /\ IF instance.payload # "none" /\ ~instance.exec_pending
       THEN Attach(instance, "dealloc", "idle")
       ELSE pc' = "idle" /\ NoFault /\ UNCHANGED <<proc, instance, saved>>
    /\ UNCHANGED <<spawned, execd, waiting, execs, failed>>

\* frida_remote_dealloc (), whose result is ignored.
RemoteDealloc ==
    /\ Step("dealloc", "freed") /\ NoFault
    /\ proc' = IF CanPtrace THEN [proc EXCEPT !.regs = "ours"] ELSE proc
    /\ instance' = [instance EXCEPT !.payload = "none"]
    /\ UNCHANGED <<spawned, execd, waiting, saved, execs, failed>>

FreeDetach == Release("freed", FALSE)
-----------------------------------------------------------------------------
\* The process: its main thread calls execve (), its worker returns, it is killed.
Exec ==
    /\ MainRuns /\ execs < MaxExecs /\ execs' = execs + 1
    /\ proc' = [proc EXCEPT !.regs = "own", !.worker = FALSE, !.stopped = proc.traced,
                            !.trap = proc.traced]
    /\ \E same \in BOOLEAN :          \* frida_inject_instance_did_not_exec () compares paths
          instance' = [instance EXCEPT !.payload = IF same /\ @ # "none" THEN "lost" ELSE "none"]
    /\ UNCHANGED <<spawned, execd, waiting, saved, pc, faults, failed>>

WorkerExits ==
    /\ proc.worker /\ proc.alive /\ ~proc.stopped
    /\ WorkerStays => ~proc.suspended
    /\ proc' = [proc EXCEPT !.worker = FALSE]
    /\ UNCHANGED <<spawned, execd, waiting, instance, saved, pc, faults, execs, failed>>

Die ==
    /\ proc.alive /\ proc' = [Free EXCEPT !.alive = FALSE]
    /\ execs' = MaxExecs
    /\ spawned' = IF pc = "idle" THEN "none" ELSE spawned       \* on_child_dead ()
    /\ UNCHANGED <<execd, waiting, instance, saved, pc, faults, failed>>

InjectorStep ==
    \/ Interrupted \/ Detach \/ RemoteAlloc \/ EmitAndTransferPayload \/ RemoteMprotect \/ StartRemoteThread
    \/ InjectDetach \/ FreeInstance \/ RemoteDealloc \/ FreeDetach

Request == Spawn \/ PrepareExec \/ AwaitExec \/ CancelExec \/ Resume \/ Inject
           \/ RecreateInjecteeThread \/ Destroy

Next == InjectorStep \/ Request \/ ExecTransition \/ Exec \/ WorkerExits \/ Die

\* The injector goes on with what it began, and polls.
Spec == Init /\ [][Next]_vars /\ WF_vars(InjectorStep) /\ WF_vars(ExecTransition)
-----------------------------------------------------------------------------
\* Between two calls the injector traces a process only if spawn_instances or exec_instances
\* holds it, so that resume () or cancel_exec_transition () can let it go.  The exceptions are
\* do_spawn (), do_prepare_exec_transition () and do_inject () failing after they have begun to
\* trace it: they free the entry, and nobody detaches.  A transition that fails detaches.
TracedIsHeld ==
    pc = "idle" /\ proc.traced =>
        spawned # "none" \/ execd # "none" \/ failed \cap {"spawn", "prepare", "call", "start"} # {}

\* The main thread of the process runs only with its own registers: each attach saves them and
\* each detach restores them, also when an injection is undone with the worker long gone or in
\* a process that is held, and whatever else has failed.  The exception is a remote call that
\* failed: frida_inject_instance_free () then saves the registers of the call, not the process's,
\* and restores those.
RunsWithOwnRegisters == MainRuns /\ proc.regs # "own" => failed \cap {"call", "start"} # {}

\* The payload is there as long as the worker; except where start_remote_thread () failed after
\* it had started it, and the instance is freed at once.
WorkerHasPayload == proc.worker /\ instance.payload # "mapped" => "start" \in failed

\* Until resume () the main thread of a spawned process runs nothing, whatever is injected
\* into it, undone, or fails.
SpawnedIsHeld == spawned # "none" => ~MainRuns

\* Whatever the injector began comes to its end, if the agent stays in a held process until
\* resume (): resume () stops the process through the worker and waits for that.
CallsReturn == pc # "idle" ~> pc = "idle"
=============================================================================
