---------------------------- MODULE FridaRuntime ----------------------------
(***************************************************************************)
(* Starting and stopping the library in a process that has no GLib main    *)
(* loop of its own: src/src/frida-glue.c.  Threads call frida_init (), one *)
(* thread creates the thread of the main loop, any of them hands objects   *)
(* over to it with frida_unref (), and one ends it with frida_deinit ().   *)
(***************************************************************************)
EXTENDS Naturals, FiniteSets, TLAPS

CONSTANTS Thread, Closer, Object

ConstantsOK == Closer \in Thread /\ IsFiniteSet(Thread) /\ IsFiniteSet(Object)

VARIABLES
    initialized,    \* frida_initialized: no, doing (by a thread) or yes
    pc,             \* [thread -> start, doing, ready, joining, closing or over]
    loop,           \* main_loop: none, new, running, quit or freed
    main,           \* the main thread: none, born, running, ended
    sources,        \* objects in sources of high priority that are attached
    stop,           \* the source of low priority is attached
    released,
    early           \* objects that were handed over when the loop was asked to stop

vars == <<initialized, pc, loop, main, sources, stop, released, early>>

Init ==
    /\ initialized = "no" /\ pc = [t \in Thread |-> "start"] /\ loop = "none" /\ main = "none"
    /\ sources = {} /\ stop = FALSE /\ released = {} /\ early = {}

Goes(t, to) == pc' = [pc EXCEPT ![t] = to]
-----------------------------------------------------------------------------
\* g_once_init_enter () says that it is done.
IsInitialized == initialized = "yes"

EnterInit(t) ==
    /\ pc[t] = "start"
    /\ \/ initialized = "no" /\ initialized' = "doing" /\ Goes(t, "doing")
       \/ IsInitialized /\ Goes(t, "ready") /\ UNCHANGED initialized
    /\ UNCHANGED <<loop, main, sources, stop, released, early>>

\* The rest of frida_init_with_runtime ().
LeaveInit(t) ==
    /\ pc[t] = "doing" /\ loop' = "new" /\ main' = "born" /\ initialized' = "yes" /\ Goes(t, "ready")
    /\ UNCHANGED <<sources, stop, released, early>>

\* frida_unref () of an object that nobody else has.
Unref(t, o) ==
    /\ pc[t] = "ready" /\ loop # "freed" /\ o \notin sources \cup released /\ sources' = sources \cup {o}
    /\ UNCHANGED <<initialized, pc, loop, main, stop, released, early>>

\* A source in the main loop's context will end it.
Ask == stop' = TRUE /\ UNCHANGED loop

\* frida_shutdown (), until it joins the main thread.
Shutdown ==
    /\ pc[Closer] = "ready" /\ main # "none" /\ Ask /\ early' = sources \ released /\ Goes(Closer, "joining")
    /\ UNCHANGED <<initialized, main, sources, released>>

\* g_thread_join () returns.
Joined ==
    /\ pc[Closer] = "joining" /\ main = "ended" /\ Goes(Closer, "closing")
    /\ UNCHANGED <<initialized, loop, main, sources, stop, released, early>>

\* frida_deinit (): it is the caller's business that no other thread is in the library.
Deinit ==
    /\ pc[Closer] = "closing" /\ loop' = "freed" /\ Goes(Closer, "over")
    /\ UNCHANGED <<initialized, main, sources, stop, released, early>>
-----------------------------------------------------------------------------
(* The main thread: run_main_loop () *)

\* g_main_loop_run () begins.
Run ==
    /\ main = "born" /\ main' = "running" /\ loop' = "running"
    /\ UNCHANGED <<initialized, pc, sources, stop, released, early>>

\* A source of high priority: dummy_callback (), and g_object_unref () when it is destroyed.
Release(o) ==
    /\ main = "running" /\ loop = "running" /\ o \in sources
    /\ sources' = sources \ {o} /\ released' = released \cup {o}
    /\ UNCHANGED <<initialized, pc, loop, main, stop, early>>

\* The source of low priority is dispatched when there is none of a higher one.
StopIsDue == stop /\ sources = {}

\* stop_main_loop ()
StopMainLoop ==
    /\ main = "running" /\ loop = "running" /\ StopIsDue /\ stop' = FALSE /\ loop' = "quit"
    /\ UNCHANGED <<initialized, pc, main, sources, released, early>>

RunEnds ==
    /\ main = "running" /\ loop = "quit" /\ main' = "ended"
    /\ UNCHANGED <<initialized, pc, loop, sources, stop, released, early>>

Main == Run \/ (\E o \in Object : Release(o)) \/ StopMainLoop \/ RunEnds

Next ==
    \/ \E t \in Thread : EnterInit(t) \/ LeaveInit(t) \/ \E o \in Object : Unref(t, o)
    \/ Shutdown \/ Joined \/ Deinit \/ Main

Spec ==
    /\ Init /\ [][Next]_vars /\ WF_vars(Main) /\ WF_vars(Joined) /\ WF_vars(Deinit)
    /\ \A t \in Thread : WF_vars(EnterInit(t)) /\ WF_vars(LeaveInit(t))
-----------------------------------------------------------------------------
\* Whoever returns from frida_init () finds the main loop, whichever thread has made it.
InitReturnsReady == \A t \in Thread : pc[t] # "start" /\ pc[t] # "doing" => loop # "none"

\* Objects handed over before the loop is asked to stop are released before it ends.
ReleasedBeforeEnd == main = "ended" => early \subseteq released

\* frida_shutdown () returns, even when the main thread has not yet begun to run its loop.
ShutdownReturns == (pc[Closer] = "joining") ~> (pc[Closer] = "over")
-----------------------------------------------------------------------------
(* What holds for any threads and objects *)

Closing == {"joining", "closing", "over"}
Ending == {"quit", "freed"}

\* At most one thread makes the loop; nothing ends the loop but who shuts down; and when the
\* loop ends, every object of early has been released.
IInv ==
    /\ pc \in [Thread -> {"start", "doing", "ready"} \cup Closing]
    /\ initialized # "yes" => main = "none" /\ loop = "none"
    /\ initialized = "yes" => loop # "none"
    /\ \A t \in Thread : pc[t] = "doing" => initialized = "doing"
    /\ \A t, u \in Thread : pc[t] = "doing" /\ pc[u] = "doing" => t = u
    /\ \A t \in Thread : pc[t] \notin {"start", "doing"} => initialized = "yes"
    /\ stop \/ loop \in Ending => pc[Closer] \in Closing
    /\ main = "ended" => loop \in Ending
    /\ pc[Closer] = "closing" => main = "ended"
    /\ early \subseteq sources \cup released
    /\ loop \in Ending => early \subseteq released

LEMMA RuntimeInit == ASSUME ConstantsOK, Init PROVE IInv
BY DEF ConstantsOK, Init, IInv, Closing, Ending

LEMMA RuntimeStep == ASSUME ConstantsOK, IInv, [Next]_vars PROVE IInv'
<1> USE DEF ConstantsOK, IInv, Closing, Ending, Goes
<1>1. ASSUME NEW t \in Thread, EnterInit(t) PROVE IInv'
  BY <1>1 DEF EnterInit, IsInitialized
<1>2. ASSUME NEW t \in Thread, LeaveInit(t) PROVE IInv'
  BY <1>2 DEF LeaveInit
<1>3. ASSUME NEW t \in Thread, NEW o \in Object, Unref(t, o) PROVE IInv'
  BY <1>3 DEF Unref
<1>4. CASE Shutdown
  BY <1>4 DEF Shutdown, Ask
<1>5. CASE Joined
  BY <1>5 DEF Joined
<1>6. CASE Deinit
  BY <1>6 DEF Deinit
<1>7. CASE Run
  BY <1>7 DEF Run
<1>8. ASSUME NEW o \in Object, Release(o) PROVE IInv'
  BY <1>8 DEF Release
<1>9. CASE StopMainLoop
  BY <1>9 DEF StopMainLoop, StopIsDue
<1>10. CASE RunEnds
  BY <1>10 DEF RunEnds
<1>11. CASE UNCHANGED vars
  BY <1>11 DEF vars
<1> QED BY <1>1, <1>2, <1>3, <1>4, <1>5, <1>6, <1>7, <1>8, <1>9, <1>10, <1>11 DEF Next, Main

\* frida_init () returns to any number of threads with a main loop.
THEOREM InitReturnsReadyAlways ==
    ASSUME ConstantsOK PROVE Spec => []InitReturnsReady
<1>1. IInv => InitReturnsReady
  BY DEF IInv, InitReturnsReady
<1> QED BY <1>1, RuntimeInit, RuntimeStep, PTL DEF Spec

\* Any number of objects handed over before frida_shutdown () are released by it, because
\* the source that ends the loop has the lowest priority.
THEOREM ReleasedBeforeEndAlways ==
    ASSUME ConstantsOK PROVE Spec => []ReleasedBeforeEnd
<1>1. IInv => ReleasedBeforeEnd
  BY DEF IInv, ReleasedBeforeEnd, Ending
<1> QED BY <1>1, RuntimeInit, RuntimeStep, PTL DEF Spec
=============================================================================
