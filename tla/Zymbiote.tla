------------------------------ MODULE Zymbiote ------------------------------
(***************************************************************************)
(* How Android apps are held at their start: the code that the zygote's    *)
(* children inherit (src/src/linux/helpers/zymbiote.c), and RoboLauncher   *)
(* of src/src/linux/linux-host-session.vala, which put it there.           *)
(*                                                                         *)
(* An app connects to the launcher's socket, says who it is and waits for  *)
(* a byte.  When it comes the app stops itself, so that the launcher can   *)
(* take the hooks out of it; when the connection ends instead it goes on.  *)
(***************************************************************************)
EXTENDS Naturals, FiniteSets

CONSTANTS
    App,            \* processes the zygote may fork
    Package,        \* names of packages
    Chrome,         \* CHROME_ZYGOTE_PACKAGE_NAME
    Coincide        \* whether the timeout of spawn () may fire while its result is on the way

Zygote == "zygote"
Hook == {"payload", "setargv0", "setcontext"}

VARIABLES
    package,        \* the package of each app
    app,            \* where each app is
    hooked,         \* [process -> the patches its memory has]
    named,          \* apps with zymbiote.package_name set, whose payload is writable
    link,           \* the connection of each app
    stopped,        \* processes that the launcher stopped
    load,           \* ensure_loaded ()
    recorded,       \* keys of zymbiote_patches
    revert,         \* connections with patches_to_revert
    connections,    \* keys of zymbiote_connections
    pending,        \* keys of pending_spawn
    gating,         \* spawn_gating_enabled
    requests,       \* keys of spawn_requests
    spawn,          \* [package -> what spawn () does]
    promise,        \* [package -> its request: pending, timeout, rejected, or the process]
    resuming,       \* [app -> where ZymbioteConnection.resume () is]
    phase,          \* of the host session: up, closing, closed, gone or aborted
    closing,        \* the loop of close (): keys to visit, the one it is at, and whether
                    \* zymbiote_patches has changed under the iterator
    lost            \* what is beyond help: see Lost

appVars == <<package, app, hooked, named, link>>
launcher == <<load, recorded, revert, connections, pending, gating>>
spawning == <<requests, spawn, promise>>
vars == <<appVars, stopped, launcher, spawning, resuming, phase, closing, lost>>

NotClosing == [todo |-> {}, at |-> "none", stale |-> FALSE]

Init ==
    /\ package \in [App -> Package]
    /\ app = [a \in App |-> "unborn"] /\ hooked = [p \in App \cup {Zygote} |-> {}]
    /\ named = {} /\ link = [a \in App |-> "none"] /\ stopped = {}
    /\ load = "none" /\ recorded = {} /\ revert = {} /\ connections = {} /\ pending = {}
    /\ gating = FALSE
    /\ requests = {} /\ spawn = [p \in Package |-> "idle"] /\ promise = [p \in Package |-> "pending"]
    /\ resuming = [a \in App |-> "no"] /\ phase = "up"
    /\ closing = NotClosing /\ lost = {}

To(a, step) == app' = [app EXCEPT ![a] = step]
Timely == Coincide \/ \A p \in requests : promise[p] = "pending"
Alive == phase # "gone" /\ phase # "aborted"
-----------------------------------------------------------------------------
(* The apps. *)

Fork(a) ==
    /\ app[a] = "unborn" /\ Zygote \notin stopped
    /\ To(a, "context") /\ hooked' = [hooked EXCEPT ![a] = hooked[Zygote]]
    /\ UNCHANGED <<package, named, link, stopped, launcher, spawning, resuming, phase, closing, lost>>

\* frida_zymbiote_replacement_setcontext (), or the original.
SetContext(a) ==
    /\ app[a] = "context" /\ To(a, "argv0")
    /\ named' = IF "setcontext" \in hooked[a] THEN named \cup {a} ELSE named
    /\ UNCHANGED <<package, hooked, link, stopped, launcher, spawning, resuming, phase, closing, lost>>

\* The end of frida_zymbiote_replacement_setargv0 (): the name is freed and the page protected
\* before the app stops itself.
SetArgv0Done(a, step) == named' = named \ {a} /\ To(a, step)

\* The original, or frida_zymbiote_replacement_setargv0 () up to the wait; a call may fail.
SetArgv0(a) ==
    /\ app[a] = "argv0"
    /\ \/ SetArgv0Done(a, "running") /\ UNCHANGED link
       \/ /\ "setargv0" \in hooked[a] /\ Alive
          /\ To(a, "waiting") /\ link' = [link EXCEPT ![a] = "hello"] /\ UNCHANGED named
    /\ UNCHANGED <<package, hooked, stopped, launcher, spawning, resuming, phase, closing, lost>>

\* frida_wait_for_permission_to_resume () returns: with the byte, or without.
Permitted(a) ==
    /\ app[a] = "waiting" /\ link[a] \in {"ack", "cut"}
    /\ To(a, IF link[a] = "ack" THEN "stopping" ELSE "going")
    /\ link' = [link EXCEPT ![a] = "bye"]
    /\ UNCHANGED <<package, hooked, named, stopped, launcher, spawning, resuming, phase, closing, lost>>

Leave(a) ==
    /\ app[a] \in {"stopping", "going"}
    /\ SetArgv0Done(a, IF app[a] = "stopping" THEN "stopped" ELSE "running")
    /\ UNCHANGED <<package, hooked, link, stopped, launcher, spawning, resuming, phase, closing, lost>>

\* The app is killed while it waits.
Die(a) ==
    /\ app[a] = "waiting" /\ To(a, "dead") /\ link' = [link EXCEPT ![a] = "bye"]
    /\ UNCHANGED <<package, hooked, named, stopped, launcher, spawning, resuming, phase, closing, lost>>
-----------------------------------------------------------------------------
(* The launcher: what it does to the zygote. *)

\* inject_zymbiote (): the zygote is stopped, ...
InjectStop ==
    /\ phase = "up" /\ load = "none" /\ load' = "stopped" /\ stopped' = {Zygote}
    /\ UNCHANGED <<appVars, recorded, revert, connections, pending, gating, spawning, resuming, phase, closing, lost>>

\* ... which wait_until_stopped () may not see in time; then nobody continues it, but a later
\* call of ensure_loaded ().
InjectWaitFails ==
    /\ load = "stopped" /\ load' = "none" /\ lost' = lost \cup {Zygote}
    /\ UNCHANGED <<appVars, stopped, recorded, revert, connections, pending, gating, spawning, resuming, phase, closing>>

\* Mutant: the patches are not noted down.
InjectPatchForgets ==
    /\ load = "stopped" /\ stopped' = {} /\ load' = "loaded"
    /\ hooked' = [hooked EXCEPT ![Zygote] = Hook] /\ UNCHANGED <<recorded, lost>>
    /\ UNCHANGED <<package, app, named, link, revert, connections, pending, gating, spawning, resuming, phase, closing>>

\* ... patched, and continued.  When one of the writes fails the ones before it stay, and are not
\* recorded.
InjectPatch ==
    /\ load = "stopped" /\ stopped' = {}
    /\ \/ /\ hooked' = [hooked EXCEPT ![Zygote] = Hook]
          /\ recorded' = recorded \cup {Zygote} /\ load' = "loaded" /\ UNCHANGED lost
       \/ \E done \in {{"payload"}, {"payload", "setargv0"}} :
             /\ hooked' = [hooked EXCEPT ![Zygote] = done \cup hooked[Zygote]]
             /\ lost' = lost \cup {"record"} /\ load' = "none" /\ UNCHANGED recorded
    /\ UNCHANGED <<package, app, named, link, revert, connections, pending, gating, spawning, resuming, phase, closing>>

\* The loop of close () goes on to the next process, and stops it.  Where an assertion fails it
\* aborts; that of the iterator is that nobody has changed zymbiote_patches since.
CloseNext(todo, asserts, held) ==
    \/ /\ ~asserts /\ phase' = "aborted" /\ stopped' = held /\ closing' = NotClosing /\ UNCHANGED recorded
    \/ /\ asserts /\ todo = {} /\ phase' = "closed" /\ stopped' = held /\ closing' = NotClosing
       /\ recorded' = {}
    \/ /\ asserts /\ UNCHANGED recorded /\ phase' = "closing"
       /\ \E p \in todo :
             /\ stopped' = held \cup {p}
             /\ closing' = [todo |-> todo \ {p}, at |-> p, stale |-> FALSE]

\* close (): the requests are rejected, and the patches of the zygotes reverted, one by one.
Close ==
    /\ phase = "up" /\ load # "stopped" /\ Timely
    /\ promise' = [p \in Package |-> IF p \in requests THEN "rejected" ELSE promise[p]] /\ requests' = {}
    /\ CloseNext(recorded, \A p \in requests : promise[p] = "pending", stopped)
    /\ UNCHANGED <<appVars, load, revert, connections, pending, gating, spawn, resuming, lost>>

\* It has stopped: its patches are reverted, unless its memory cannot be opened or written, and
\* it goes on.
CloseRevert ==
    /\ phase = "closing" /\ hooked' \in {hooked, [hooked EXCEPT ![closing.at] = {}]}
    /\ CloseNext(closing.todo, ~closing.stale, stopped \ {closing.at})
    /\ UNCHANGED <<package, app, named, link, load, revert, connections, pending, gating, spawning, resuming, lost>>

\* It has not in time, and is left as it is; when the call is cancelled the others are left, too.
CloseWaitFails ==
    /\ phase = "closing" /\ lost' = lost \cup {closing.at}
    /\ \/ CloseNext(closing.todo, ~closing.stale, stopped)
       \/ phase' = "closed" /\ closing' = NotClosing /\ UNCHANGED <<stopped, recorded>>
    /\ UNCHANGED <<appVars, load, revert, connections, pending, gating, spawning, resuming>>

\* io_cancellable is cancelled at the end of LinuxHostSession.close (), and the connections go.
Cancel ==
    /\ phase = "closed" /\ phase' = "gone"
    /\ lost' = lost \cup {a \in App : resuming[a] # "no"}
    /\ resuming' = [a \in App |-> "no"] /\ connections' = {} /\ pending' = {}
    /\ link' = [a \in App |-> IF link[a] = "hello" \/ a \in connections THEN "cut" ELSE link[a]]
    /\ UNCHANGED <<package, app, hooked, named, stopped, load, recorded, revert, gating, spawning, closing>>
-----------------------------------------------------------------------------
(* The launcher: apps. *)

\* try_resume () of a set of apps, and the first half of ZymbioteConnection.resume ().
Resume(apps) ==
    LET told == apps \cap connections
    IN  /\ connections' = connections \ told
        /\ pending' = pending \ told
        /\ resuming' = [a \in App |-> IF a \in told THEN "bye" ELSE resuming[a]]
        /\ link' = [a \in App |-> IF a \in told /\ link[a] # "bye" THEN "ack" ELSE link[a]]

\* An app that nobody asked for is resumed at once.
Unasked(a) ==
    /\ resuming' = [resuming EXCEPT ![a] = "bye"]
    /\ link' = [link EXCEPT ![a] = IF link[a] = "bye" THEN "bye" ELSE "ack"]
    /\ UNCHANGED <<connections, pending>>

\* handle_zymbiote_connection ()
Hello(a) ==
    /\ Alive /\ Timely /\ link[a] = "hello"
    /\ UNCHANGED <<package, app, hooked, named, stopped, load, gating, spawn, lost>>
    /\ closing' = [closing EXCEPT !.stale =
          @ \/ (phase = "closing" /\ package[a] = Chrome /\ Zygote \in recorded)]
    /\ IF package[a] = Chrome
       THEN /\ recorded' = IF Zygote \in recorded THEN recorded \cup {a} ELSE recorded
            /\ link' = [link EXCEPT ![a] = "cut"]
            /\ UNCHANGED <<revert, connections, pending, requests, promise, resuming, phase>>
       ELSE /\ revert' = IF Zygote \in recorded THEN revert \cup {a} ELSE revert
            /\ UNCHANGED recorded
            /\ \/ /\ package[a] \in requests
                  /\ requests' = requests \ {package[a]}
                  /\ promise' = [promise EXCEPT ![package[a]] = a]
                  /\ phase' = IF promise[package[a]] # "pending" THEN "aborted" ELSE phase
                  /\ connections' = connections \cup {a} /\ link' = [link EXCEPT ![a] = "held"]
                  /\ UNCHANGED <<pending, resuming>>
               \/ /\ package[a] \notin requests /\ gating
                  /\ pending' = pending \cup {a} /\ connections' = connections \cup {a}
                  /\ link' = [link EXCEPT ![a] = "held"]
                  /\ UNCHANGED <<requests, promise, resuming, phase>>
               \/ /\ package[a] \notin requests /\ ~gating /\ Unasked(a)
                  /\ UNCHANGED <<requests, promise, phase>>

\* The client resumes an app that it was told of.
ClientResumes(a) ==
    /\ phase = "up" /\ a \in connections /\ Resume({a})
    /\ UNCHANGED <<package, app, hooked, named, stopped, load, recorded, revert, gating, spawning, phase, closing, lost>>

\* The app has closed its end, which it does before it stops; its memory is patched when it has.
ResumeBye(a) ==
    /\ resuming[a] = "bye" /\ link[a] = "bye" /\ resuming' = [resuming EXCEPT ![a] = "wait"]
    /\ UNCHANGED <<appVars, stopped, launcher, spawning, phase, closing, lost>>

ResumeStopped(a) ==
    /\ resuming[a] = "wait" /\ app[a] = "stopped" /\ To(a, "running")
    /\ resuming' = [resuming EXCEPT ![a] = "no"]
    /\ hooked' = IF a \in revert THEN [hooked EXCEPT ![a] = {}] ELSE hooked
    /\ UNCHANGED <<package, named, link, stopped, launcher, spawning, phase, closing, lost>>

\* wait_until_stopped () times out or finds no process, or its memory cannot be opened or written:
\* the app is not continued, and what has been written by then does not matter.
ResumeFails(a) ==
    /\ resuming[a] = "wait" /\ resuming' = [resuming EXCEPT ![a] = "no"]
    /\ lost' = IF app[a] = "dead" THEN lost ELSE lost \cup {a}
    /\ UNCHANGED <<package, app, hooked, named, link, stopped, launcher, spawning, phase, closing>>

EnableGating ==
    /\ phase = "up" /\ load = "loaded" /\ ~gating /\ gating' = TRUE
    /\ UNCHANGED <<appVars, stopped, load, recorded, revert, connections, pending, spawning, resuming, phase, closing, lost>>

DisableGating ==
    /\ phase = "up" /\ gating /\ gating' = FALSE /\ Resume(pending)
    /\ UNCHANGED <<package, app, hooked, named, stopped, load, recorded, revert, spawning, phase, closing, lost>>
-----------------------------------------------------------------------------
(* RoboLauncher.spawn () *)

Spawn(p) ==
    /\ phase = "up" /\ load = "loaded" /\ spawn[p] = "idle" /\ p \notin requests
    /\ spawn' = [spawn EXCEPT ![p] = "waiting"] /\ requests' = requests \cup {p}
    /\ UNCHANGED <<appVars, stopped, launcher, promise, resuming, phase, closing, lost>>

\* The timeout is there until spawn () goes on, which it does some time after the promise is kept.
SpawnTimeout(p) ==
    /\ Alive /\ spawn[p] = "waiting" /\ promise[p] # "timeout" /\ (Coincide \/ promise[p] = "pending")
    /\ promise' = [promise EXCEPT ![p] = "timeout"]
    /\ phase' = IF promise[p] # "pending" THEN "aborted" ELSE phase
    /\ UNCHANGED <<appVars, stopped, launcher, requests, spawn, resuming, closing, lost>>

\* The catch block.
SpawnFails(p) ==
    /\ requests' = requests \ {p}
    /\ IF p \notin requests /\ promise[p] \in App THEN Resume({promise[p]})
       ELSE UNCHANGED <<connections, pending, resuming, link>>

\* spawn () goes on after its wait: with the result, or because it was cancelled meanwhile.
SpawnReturns(p) ==
    /\ Alive /\ spawn[p] = "waiting"
    /\ \/ promise[p] \in App /\ spawn' = [spawn EXCEPT ![p] = "returned"]
          /\ UNCHANGED <<requests, connections, pending, resuming, link>>
       \/ spawn' = [spawn EXCEPT ![p] = "failed"] /\ SpawnFails(p)
    /\ UNCHANGED <<package, app, hooked, named, stopped, load, recorded, revert, gating, promise>>
    /\ UNCHANGED <<phase, closing, lost>>
-----------------------------------------------------------------------------
LauncherStep(a) == Hello(a) \/ ResumeBye(a) \/ ResumeStopped(a) \/ ResumeFails(a)
ZygoteStep == InjectPatch \/ InjectWaitFails \/ CloseRevert \/ CloseWaitFails
AppStep(a) == a \notin stopped /\ (SetContext(a) \/ SetArgv0(a) \/ Permitted(a) \/ Leave(a))

Next ==
    \/ \E a \in App : AppStep(a) \/ LauncherStep(a) \/ Fork(a) \/ Die(a) \/ ClientResumes(a)
    \/ InjectStop \/ ZygoteStep \/ Close \/ Cancel \/ EnableGating \/ DisableGating
    \/ \E p \in Package \ {Chrome} : Spawn(p) \/ SpawnTimeout(p) \/ SpawnReturns(p)

Spec ==
    /\ Init /\ [][Next]_vars
    /\ \A a \in App : WF_vars(AppStep(a)) /\ WF_vars(LauncherStep(a))
    /\ WF_vars(ZygoteStep) /\ \A p \in Package : WF_vars(SpawnReturns(p))
-----------------------------------------------------------------------------
\* Apps that were being resumed when the session ended, or whose resume () failed: they got the
\* byte, and nobody is left to continue them.
Lost(a) == a \in lost \/ phase = "aborted"

\* An app that the launcher let go runs without the hooks, so that nothing of the payload is left
\* in it; except when a patch could not be recorded, or the launcher had been closed before.
RunsUnpatched ==
    \A a \in App : app[a] = "running" /\ link[a] = "bye" /\ phase = "up" /\ package[a] # Chrome =>
        hooked[a] = {} \/ "record" \in lost

\* An app that spawn () returned, or that is reported as pending, stays where it is until somebody
\* resumes it.
HeldUntilResumed ==
    /\ pending \subseteq connections
    /\ \A a \in connections : app[a] \in {"waiting", "dead"} /\ link[a] \in {"held", "bye"}

\* Before an app runs, the payload's page is as it was and the name is freed.
NothingIsKept == \A a \in App : app[a] \in {"stopped", "running"} => a \notin named

\* Every app that was forked runs in the end, unless it is held for a client; no call of spawn ()
\* that fails or is cancelled, and no timeout of it, leaves one behind.  A resume () that fails
\* after the byte does, and so does a close () that does not see a process stop in time.
EveryAppRuns ==
    \A a \in App : app[a] = "context" ~>
        \/ app[a] \in {"running", "dead"} \/ Lost(a) \/ a \in pending
        \/ \E p \in Package : spawn[p] = "returned" /\ promise[p] = a

\* A zygote that is stopped, to be patched or to have its patches reverted, goes on; except where
\* wait_until_stopped () did not see it stop in time.
ZygoteGoesOn ==
    Zygote \in stopped ~> (Zygote \notin stopped \/ Zygote \in lost \/ phase = "aborted")
=============================================================================
