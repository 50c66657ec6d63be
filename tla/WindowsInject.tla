---------------------------- MODULE WindowsInject ----------------------------
(***************************************************************************)
(* Injecting a library on Windows: WindowsHelperBackend of                 *)
(* src/src/windows/frida-helper-backend.vala, _inject_library_file () and  *)
(* its payload in frida-helper-backend-glue.c, and the source that         *)
(* wait-handle-source.c makes of the remote thread's handle.  The backend  *)
(* runs in one thread, the payloads in threads of their targets.           *)
(***************************************************************************)
EXTENDS Naturals, FiniteSets

CONSTANT Id

ConstantsOK == IsFiniteSet(Id)

VARIABLES
    level,      \* NORMAL or ELEVATED
    busy,       \* injections whose _inject_library_file () has not returned: at most one
    inj,        \* [id -> how far it is]
    process,    \* ids for which a handle of the target is open
    memory,     \* ids whose payload is allocated
    thread,     \* [id -> what the remote thread does]
    dead,       \* ids whose target has exited
    files,      \* ids whose library is in place
    pending,    \* the backend's counter
    close       \* none, waiting, resolved or done

vars == <<level, busy, inj, process, memory, thread, dead, files, pending, close>>

Init ==
    /\ level \in {"NORMAL", "ELEVATED"} /\ busy = {} /\ inj = [i \in Id |-> "idle"] /\ process = {}
    /\ memory = {} /\ thread = [i \in Id |-> "none"] /\ dead = {} /\ pending = 0 /\ close = "none"
    /\ files = IF level = "NORMAL" THEN Id ELSE {}

At(i, pc) == inj[i] = pc
To(i, pc) == inj' = [inj EXCEPT ![i] = pc]
-----------------------------------------------------------------------------
(* inject_library_file () *)

\* Up to the check for the file.  A helper with privileges works on a copy of the library.
Begin(i) ==
    /\ At(i, "idle") /\ busy = {} /\ close = "none" /\ files' = files \cup {i}
    /\ busy' = {i} /\ To(i, "open")
    /\ UNCHANGED <<level, process, memory, thread, dead, pending, close>>

\* The copy cannot be made, or the file is not there.
BeginFails(i) ==
    /\ At(i, "idle") /\ busy = {} /\ close = "none" /\ To(i, "failed")
    /\ UNCHANGED <<level, busy, process, memory, thread, dead, files, pending, close>>

Open(i) ==
    /\ At(i, "open") /\ i \notin dead /\ process' = process \cup {i} /\ To(i, "alloc")
    /\ UNCHANGED <<level, busy, memory, thread, dead, files, pending, close>>

\* frida_remote_worker_context_init (): memory is allocated,
Alloc(i) ==
    /\ At(i, "alloc") /\ i \notin dead /\ memory' = memory \cup {i} /\ To(i, "write")
    /\ UNCHANGED <<level, busy, process, thread, dead, files, pending, close>>

\* then written, and made executable.
Fill(i) ==
    /\ At(i, "write") /\ i \notin dead /\ To(i, "create")
    /\ UNCHANGED <<level, busy, process, memory, thread, dead, files, pending, close>>

\* pending++
Count(i) == pending + 1

\* CreateRemoteThread () or RtlCreateUserThread (), and what is left of the call.
CreateThread(i) ==
    /\ At(i, "create") /\ i \notin dead /\ thread' = [thread EXCEPT ![i] = "load"]
    /\ pending' = Count(i) /\ busy' = {} /\ To(i, "injected")
    /\ UNCHANGED <<level, process, memory, dead, files, close>>

\* Mutant: only a failure of frida_remote_worker_context_init () is undone.
DestroyLess(i) == IF At(i, "write") THEN memory \ {i} ELSE memory

\* frida_remote_worker_context_destroy ()
Destroy(i) == memory \ {i}

\* Any of these steps may fail; all do when the target is not there.
Fail(i) ==
    /\ inj[i] \in {"open", "alloc", "write", "create"} /\ memory' = Destroy(i) /\ process' = process \ {i}
    /\ busy' = {} /\ To(i, "failed")
    /\ UNCHANGED <<level, thread, dead, files, pending, close>>
-----------------------------------------------------------------------------
(* The remote thread. *)

Runs(i, from, to) ==
    /\ thread[i] = from /\ thread' = [thread EXCEPT ![i] = to]
    /\ UNCHANGED <<level, busy, inj, process, memory, dead, files, pending, close>>

\* LoadLibraryW () may fail.
Load(i) == Runs(i, "load", "run") \/ Runs(i, "load", "ended")
\* The library's entrypoint returns.
Entrypoint(i) == Runs(i, "run", "leave")
\* FreeLibrary () unless it wants to stay, and return.
Leave(i) == Runs(i, "leave", "ended")

Payload(i) == Load(i) \/ Entrypoint(i) \/ Leave(i)

Die(i) ==
    /\ i \notin dead /\ dead' = dead \cup {i} /\ memory' = memory \ {i}
    /\ thread' = [thread EXCEPT ![i] = IF @ = "none" THEN @ ELSE "ended"]
    /\ UNCHANGED <<level, busy, inj, process, files, pending, close>>
-----------------------------------------------------------------------------
(* The main loop, between calls. *)

\* monitor_remote_thread (), from an idle source.
Monitor(i) ==
    /\ At(i, "injected") /\ busy = {} /\ To(i, "monitored")
    /\ UNCHANGED <<level, busy, process, memory, thread, dead, files, pending, close>>

\* Mutant: a source that does not look at its handle.
CheckNot(i) == TRUE

\* frida_wait_handle_source_check ()
Check(i) == thread[i] = "ended"

\* The last injection resolves the promise.
Resolves(n) == n = 0

\* frida_wait_handle_source_dispatch () and its callback, with _free_inject_instance ().
Dispatch(i) ==
    /\ At(i, "monitored") /\ busy = {} /\ Check(i) /\ To(i, "uninjected")
    /\ memory' = memory \ {i} /\ process' = process \ {i} /\ pending' = pending - 1
    /\ close' = IF close = "waiting" /\ Resolves(pending') THEN "resolved" ELSE close
    /\ UNCHANGED <<level, busy, thread, dead, files>>

\* close (), which the service calls when nobody can call inject_library_file () any more.
Close ==
    /\ close = "none" /\ busy = {} /\ close' = IF pending > 0 THEN "waiting" ELSE "resolved"
    /\ UNCHANGED <<level, busy, inj, process, memory, thread, dead, files, pending>>

\* asset_bundles.clear (); asset_dir = null
Clear ==
    /\ close = "resolved" /\ busy = {} /\ close' = "done"
    /\ files' = IF level = "NORMAL" THEN files ELSE {}
    /\ UNCHANGED <<level, busy, inj, process, memory, thread, dead, pending>>

Call(i) == Begin(i) \/ BeginFails(i) \/ Open(i) \/ Alloc(i) \/ Fill(i) \/ CreateThread(i) \/ Fail(i)

Next ==
    \/ \E i \in Id : Call(i) \/ Payload(i) \/ Die(i) \/ Monitor(i) \/ Dispatch(i)
    \/ Close \/ Clear

Spec ==
    /\ Init /\ [][Next]_vars /\ WF_vars(Clear)
    /\ \A i \in Id :
          /\ WF_vars(busy = {i} /\ Call(i)) /\ WF_vars(Monitor(i)) /\ WF_vars(Dispatch(i))
          /\ WF_vars(Load(i)) /\ WF_vars(Leave(i))
-----------------------------------------------------------------------------
\* A thread that runs the payload finds it in memory: _free_inject_instance () is called only when
\* the thread has ended.
MemoryOutlivesThread == \A i \in Id : thread[i] \in {"load", "run", "leave"} => i \in memory

\* A thread that has still to load the library finds the file: close () removes the copies only
\* when no injection is pending.
FileOutlivesLoad == \A i \in Id : thread[i] = "load" => i \in files

\* An injection that has failed or is over leaves neither memory in the target nor a handle.
NothingIsLeft == \A i \in Id : inj[i] \in {"failed", "uninjected"} => i \notin memory \cup process

\* close () returns once no entrypoint runs.
CloseReturns == (close = "waiting") ~> (close = "done" \/ \E i \in Id : thread[i] = "run")
=============================================================================
