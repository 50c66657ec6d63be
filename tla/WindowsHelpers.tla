--------------------------- MODULE WindowsHelpers ---------------------------
(***************************************************************************)
(* The helper processes on Windows: HelperManager and HelperService of     *)
(* src/src/windows/frida-helper-service.vala, and how                      *)
(* frida-helper-service-glue.c starts and stops the services, one for each *)
(* architecture.  With the privileges for it they are services of the      *)
(* system, else processes of the manager's own; a start of the former that *)
(* fails is undone and followed by the latter.                             *)
(***************************************************************************)
EXTENDS Naturals, FiniteSets, TLC

CONSTANT Arch

ConstantsOK == IsFiniteSet(Arch)

Kind == {"system", "standalone"}
Service == Arch \X Kind

VARIABLES
    manager,        \* idle, opening, ready, stopping, shutdown, quit or crashed
    scm,            \* the context's scm # NULL
    context,        \* none, live, null (start_services () returned NULL) or freed
    systems,        \* system_services
    standalones,    \* standalone_services
    registered,     \* architectures whose service the system knows
    service,        \* [service -> state of its process]
    control,        \* services that the system was asked to stop
    pipe,           \* [arch -> kind of the service that connected, or none]
    pending,        \* services with an injection that has not ended
    stopped,        \* architectures whose proxy.stop () was called
    again,          \* a second stop (): no, running, scheduled (its shutdown ()) or over
    refused,        \* services that did not accept the stop; kept for the properties
    dangling        \* stop_services () got the freed context; kept for the properties

vars == <<manager, scm, context, systems, standalones, registered, service, control, pipe, pending,
          stopped, again, refused, dangling>>

Init ==
    /\ manager = "idle" /\ scm = FALSE /\ context = "none" /\ systems = {} /\ standalones = {}
    /\ registered = {} /\ service = [s \in Service |-> "none"] /\ control = {}
    /\ pipe = [a \in Arch |-> "none"] /\ pending = {} /\ stopped = {}
    /\ again = "no" /\ refused = {} /\ dangling = FALSE

Alive(s) == service[s] \notin {"none", "gone"}
Set(archs, kind, state) == [s \in Service |-> IF s \in archs \X {kind} THEN state ELSE service[s]]
-----------------------------------------------------------------------------
(* frida_helper_manager_start_services () *)

\* frida_register_and_start_services (): all are started.
StartSystem ==
    /\ manager = "idle" /\ manager' = "opening" /\ scm' = TRUE /\ context' = "live"
    /\ systems' = Arch /\ registered' = Arch /\ service' = Set(Arch, "system", "starting")
    /\ UNCHANGED <<standalones, control, pipe, pending, stopped, again, refused, dangling>>

\* frida_stop_services (): ControlService (), which a service does not accept that is starting.
StopServices(archs, state) ==
    LET starting == {s \in archs \X {"system"} : state[s] = "starting"}
    IN /\ refused' = refused \cup starting
       /\ control' = control \cup ((archs \X {"system"}) \ starting)

\* frida_unregister_services () after a failure.
Undone == systems' = {} /\ registered' = {}

\* One could not be registered, or not be started, and those that were are asked to stop.
StartSystemFails ==
    /\ manager = "idle" /\ manager' = "spawning" /\ context' = "live" /\ Undone
    /\ \E started \in SUBSET Arch :
          /\ started # Arch
          /\ \E state \in [started \X {"system"} -> {"starting", "running"}] :
                service' = state @@ service /\ StopServices(started, state)
    /\ UNCHANGED <<scm, standalones, pipe, pending, stopped, again, dangling>>

\* There is no access to the service manager, or none is asked for.
NoSystem ==
    /\ manager = "idle" /\ manager' = "spawning" /\ context' = "live"
    /\ UNCHANGED <<scm, systems, standalones, registered, service, control, pipe, pending, stopped,
                   again, refused, dangling>>

\* frida_spawn_standalone_services ()
SpawnStandalone ==
    /\ manager = "spawning" /\ manager' = "opening"
    /\ \/ standalones' = Arch /\ service' = Set(Arch, "standalone", "running") /\ UNCHANGED context
       \/ \E spawned \in SUBSET Arch :
             /\ spawned # Arch /\ service' = Set(spawned, "standalone", "gone")
             /\ context' = "null" /\ UNCHANGED standalones
    /\ UNCHANGED <<scm, systems, registered, control, pipe, pending, stopped, again, refused,
                   dangling>>
-----------------------------------------------------------------------------
(* The manager. *)

Services == <<scm, context, systems, standalones, registered, service, control, pipe, refused,
              dangling>>
Goes(state) == manager' = state /\ UNCHANGED <<Services, pending>>

\* The rest of start (), which does not wait for the helpers: a pipe connects when it is first read
\* or written.  It fails without a parent.
Opened ==
    /\ manager = "opening" /\ (Goes("ready") \/ Goes("shutdown")) /\ UNCHANGED <<stopped, again>>

\* inject_library_file (), once the helper has said that it can handle the target.
Inject(a) ==
    /\ manager \in {"ready", "stopping"} /\ pipe[a] # "none" /\ service[<<a, pipe[a]>>] = "open"
    /\ pending' = pending \cup {<<a, pipe[a]>>}
    /\ UNCHANGED <<manager, Services, stopped, again>>

\* stop (), which the parent calls, and which follows when the parent's connection is closed; both
\* may happen until shutdown () disconnects the handler.
Stop ==
    \/ manager = "ready" /\ Goes("stopping") /\ UNCHANGED <<stopped, again>>
    \/ /\ manager = "stopping" \/ (manager = "shutdown" /\ stopped = Arch)
       /\ again = "no" /\ again' = "running" /\ UNCHANGED <<manager, Services, pending, stopped>>

\* Helpers that are not yet stopped.
StopsNext(a) == a \notin stopped

\* The call to one that has gone fails, and that to one that does not connect in time; one that
\* connects later still gets it.
StopHelper(a) ==
    /\ manager = "stopping" /\ StopsNext(a) /\ stopped' = stopped \cup {a}
    /\ service' = [s \in Service |->
          IF s = <<a, pipe[a]>> /\ service[s] = "open" THEN "stopping" ELSE service[s]]
    /\ UNCHANGED <<manager, scm, context, systems, standalones, registered, control, pipe, pending,
                   again, refused, dangling>>

\* The 20 ms after it are over, of the first call or of the second.
AfterStop ==
    /\ stopped = Arch
    /\ \/ manager = "stopping" /\ Goes("shutdown") /\ UNCHANGED <<stopped, again>>
       \/ /\ again = "running" /\ again' = "scheduled"
          /\ UNCHANGED <<manager, Services, pending, stopped>>

\* frida_helper_manager_stop_services (), for the services of the system.
StopSystem ==
    /\ manager = "shutdown" /\ context = "live" /\ scm /\ StopServices(systems, service)
    /\ registered' = registered \ systems /\ systems' = {}
    /\ context' = "freed" /\ manager' = "quit"
    /\ UNCHANGED <<scm, standalones, service, pipe, pending, stopped, again, dangling>>

\* Mutant: a service that does not end in time is left.
KillNot == service

\* frida_kill_standalone_services ()
Kill == Set(standalones, "standalone", "gone")

\* The same for processes: they are joined, or killed when one takes more than 5 s.
StopStandalone ==
    /\ manager = "shutdown" /\ context = "live" /\ ~scm
    /\ service' = IF \A a \in standalones : ~Alive(<<a, "standalone">>) THEN service ELSE Kill
    /\ standalones' = {} /\ context' = "freed" /\ manager' = "quit"
    /\ UNCHANGED <<scm, systems, registered, control, pipe, pending, stopped, again, refused,
                   dangling>>

\* shutdown () where no services were started.
StopNothing ==
    /\ manager = "shutdown" /\ context = "null" /\ Goes("quit") /\ UNCHANGED <<stopped, again>>

\* The second shutdown (), in the same iteration as the first: loop.quit () does not end that.
ShutdownAgain ==
    /\ manager = "quit" /\ again = "scheduled" /\ again' = "over" /\ dangling' = (context = "freed")
    /\ UNCHANGED <<manager, scm, context, systems, standalones, registered, service, control, pipe,
                   pending, stopped, refused>>

Crash ==
    /\ manager \notin {"idle", "quit", "crashed"} /\ Goes("crashed") /\ UNCHANGED <<stopped, again>>
-----------------------------------------------------------------------------
(* A service. *)

Becomes(s, state) ==
    /\ service' = [service EXCEPT ![s] = state]
    /\ UNCHANGED <<manager, scm, context, systems, standalones, registered, control, stopped, again,
                   refused, dangling>>

\* HelperService.shutdown (): a service of the system waits to be stopped.
Ended(s) == IF s[2] = "system" THEN "waiting" ELSE "gone"

\* The pipe has room for one client.
Room(a) == pipe[a] = "none"

ManagerIsThere == manager \notin {"quit", "crashed"}

\* SERVICE_RUNNING
Report(s) == service[s] = "starting" /\ Becomes(s, "running") /\ UNCHANGED <<pipe, pending>>

\* start ()
Connect(s) ==
    /\ service[s] = "running" /\ UNCHANGED pending
    /\ IF ManagerIsThere /\ Room(s[1])
       THEN /\ pipe' = [pipe EXCEPT ![s[1]] = s[2]]
            /\ Becomes(s, IF s[1] \in stopped THEN "stopping" ELSE "open")
       ELSE UNCHANGED pipe /\ Becomes(s, Ended(s))

\* The 20 ms of stop () are over, or the connection is closed.
Notices(s) == service[s] = "stopping" \/ (service[s] = "open" /\ ~ManagerIsThere)

DoStop(s) == Notices(s) /\ Becomes(s, "closing") /\ UNCHANGED <<pipe, pending>>

\* backend.close () returns.
BackendClosed(s) ==
    /\ service[s] = "closing" /\ s \notin pending /\ Becomes(s, Ended(s)) /\ UNCHANGED <<pipe, pending>>

\* SERVICE_CONTROL_STOP
ControlStop(s) ==
    /\ s \in control /\ Alive(s) /\ Becomes(s, "gone") /\ UNCHANGED <<pipe, pending>>

InjectionEnds(s) ==
    /\ s \in pending /\ pending' = pending \ {s}
    /\ UNCHANGED <<manager, Services, stopped, again>>

Serve(s) == Report(s) \/ Connect(s) \/ DoStop(s) \/ BackendClosed(s) \/ ControlStop(s)
Start == StartSystem \/ StartSystemFails \/ NoSystem
Manage ==
    \/ SpawnStandalone \/ Opened \/ (\E a \in Arch : StopHelper(a)) \/ AfterStop
    \/ StopSystem \/ StopStandalone \/ StopNothing

Next ==
    \/ Start \/ Manage \/ Stop \/ ShutdownAgain \/ Crash \/ (\E a \in Arch : Inject(a))
    \/ \E s \in Service : Serve(s) \/ InjectionEnds(s)

Spec ==
    /\ Init /\ [][Next]_vars /\ WF_vars(Manage)
    /\ \A s \in Service : WF_vars(Serve(s))
-----------------------------------------------------------------------------
\* frida_service_context_free (): the context has no services when it is freed (its assertions), and
\* a manager that has quit has left none registered, where DeleteService () succeeds.  Nobody uses
\* the context after that but the shutdown () of a second stop ().
FreedEmpty ==
    /\ context \in {"null", "freed"} => systems = {} /\ standalones = {}
    /\ manager = "quit" => registered = {}
    /\ dangling => again = "over"

\* A manager that takes requests has a helper for every architecture, or one that is about to
\* connect, unless start_services () returned NULL, which start () does not look at.  The one way to
\* lose one is a service that is asked to stop when another could not be started: it
\* may take the only place in the pipe before it ends, and its successor finds it taken.
IsServed ==
    manager = "ready" /\ context # "null" =>
        \A a \in Arch :
            \/ \E kind \in Kind : service[<<a, kind>>] \in {"starting", "running", "open"}
            \/ pipe[a] = "system" /\ <<a, "system">> \in control

\* Once the manager is asked to stop, it quits.
StopEnds == (manager = "stopping") ~> (manager \in {"quit", "crashed"})

\* When the manager has quit its services end; so do its processes when it has crashed, once
\* their injections are over.  Services of the system that were still starting when they were asked
\* to stop, and those that lose their manager, stay: shutdown () leaves them waiting for a
\* SERVICE_CONTROL_STOP that nobody sends.
ServicesEnd ==
    /\ (manager = "quit") ~> \A s \in Service : Alive(s) => s \in refused
    /\ (manager = "crashed") ~> \A s \in Service : Alive(s) => s[2] = "system" \/ s \in pending
=============================================================================
