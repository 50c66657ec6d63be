----------------------------- MODULE Binjector -----------------------------
(***************************************************************************)
(* The life of injections in Binjector (src/src/freebsd/binjector.vala and *)
(* binjector-glue.c): from inject_library_file () to the destruction of    *)
(* the instance and its payload, with the worker thread in the process,    *)
(* the session that reads its FIFO, and the two timers that destroy.       *)
(*                                                                         *)
(* Each injection is an id; a clone is the id that                         *)
(* demonitor_and_clone_state () makes for the child of a fork ().          *)
(***************************************************************************)
CONSTANTS
    Ids,
    CallerIsPrompt      \* no demonitor () in the 50 ms between a session's end and the destruction

ConstantsOK == CallerIsPrompt \in BOOLEAN

VARIABLES
    instance,       \* inject_instances
    session,        \* RemoteThreadSession of the id
    ended,          \* the 50 ms timer of on_remote_thread_session_ended (), with its policy
    expiry,         \* inject_expiry_by_id
    cancelling,     \* the demonitor () that waits for session.cancel ()
    worker,         \* the thread in the process that runs the payload
    mapped,         \* the payload is mapped in the process
    forced,         \* whoever unmapped it did not know that the worker was gone; for the properties
    aborted         \* an assert () failed

vars == <<instance, session, ended, expiry, cancelling, worker, mapped, forced, aborted>>

Init ==
    /\ instance = [i \in Ids |-> "new"] /\ session = [i \in Ids |-> "none"]
    /\ ended = [i \in Ids |-> "none"] /\ expiry = [i \in Ids |-> FALSE]
    /\ cancelling = [i \in Ids |-> "none"] /\ worker = [i \in Ids |-> "none"]
    /\ mapped = [i \in Ids |-> FALSE] /\ forced = [i \in Ids |-> FALSE] /\ aborted = FALSE

\* _destroy_inject_instance () and frida_inject_instance_free ()
Destroy(i, policy) ==
    /\ aborted' = (aborted \/ instance[i] # "live")       \* assert (found)
    /\ instance' = [instance EXCEPT ![i] = "gone"]
    /\ mapped' = [mapped EXCEPT ![i] = @ /\ policy # "immediate"]
-----------------------------------------------------------------------------
\* inject_library_file (): do_inject () starts the worker; the session begins to establish.
Inject(i) ==
    /\ instance[i] = "new" /\ instance' = [instance EXCEPT ![i] = "live"]
    /\ worker' = [worker EXCEPT ![i] = "starting"] /\ mapped' = [mapped EXCEPT ![i] = TRUE]
    /\ session' = [session EXCEPT ![i] = "establishing"]
    /\ UNCHANGED <<ended, expiry, cancelling, forced, aborted>>

\* establish (): HELLO arrived, the FIFO was closed before it, or 2 seconds passed or the read
\* failed.
Established(i) ==
    /\ session[i] = "establishing" /\ worker[i] \notin {"none", "starting"}
    /\ session' = [session EXCEPT ![i] = "monitoring"]
    /\ UNCHANGED <<instance, ended, expiry, cancelling, worker, mapped, forced, aborted>>

EstablishedGone(i) ==
    /\ session[i] = "establishing" /\ worker[i] = "none"
    /\ session' = [session EXCEPT ![i] = "none"]
    /\ ended' = [ended EXCEPT ![i] = "immediate"]
    /\ UNCHANGED <<instance, expiry, cancelling, worker, mapped, forced, aborted>>

EstablishTimeout(i) ==
    /\ session[i] = "establishing"
    /\ session' = [session EXCEPT ![i] = "none"]
    /\ Destroy(i, "immediate")
    /\ forced' = [forced EXCEPT ![i] = TRUE]
    /\ UNCHANGED <<ended, expiry, cancelling, worker>>

\* monitor () emits ended () once the thread is gone, with the policy that it sent; IMMEDIATE
\* if it went without a word.
SessionEnded(i) ==
    /\ session[i] = "monitoring" /\ worker[i] = "none" /\ cancelling[i] = "none"
    /\ session' = [session EXCEPT ![i] = "none"]
    /\ \E policy \in {"immediate", "resident"} : ended' = [ended EXCEPT ![i] = policy]
    /\ UNCHANGED <<instance, expiry, cancelling, worker, mapped, forced, aborted>>

\* The catch block of monitor (): a read that fails is taken for the end, IMMEDIATE, without a look
\* at the thread.
SessionFails(i) ==
    /\ session[i] = "monitoring" /\ cancelling[i] = "none"
    /\ session' = [session EXCEPT ![i] = "none"] /\ ended' = [ended EXCEPT ![i] = "immediate"]
    /\ forced' = [forced EXCEPT ![i] = TRUE]
    /\ UNCHANGED <<instance, expiry, cancelling, worker, mapped, aborted>>

\* The timer of on_remote_thread_session_ended ().
DestroyTimer(i) ==
    /\ ended[i] # "none" /\ ended' = [ended EXCEPT ![i] = "none"]
    /\ Destroy(i, ended[i])
    /\ UNCHANGED <<session, expiry, cancelling, worker, forced>>
-----------------------------------------------------------------------------
\* The end of demonitor () and of demonitor_and_clone_state (): schedule_inject_expiry_for_id (),
\* for the clone as well (while Ids has one left).
Demonitored(i, call) ==
    \/ /\ call = "demonitor" \/ \A k \in Ids : instance[k] # "new"
       /\ expiry' = [expiry EXCEPT ![i] = TRUE]
       /\ UNCHANGED <<instance, mapped>>
    \/ /\ call = "clone"
       /\ \E clone \in {k \in Ids : instance[k] = "new"} :
             /\ expiry' = [expiry EXCEPT ![i] = TRUE, ![clone] = TRUE]
             /\ instance' = [instance EXCEPT ![clone] = "live"]
             /\ mapped' = [mapped EXCEPT ![clone] = mapped[i]]

\* Their beginning, for an id whose injection or recreation has returned.  A session in the table
\* no longer reports its end, and is cancelled.
Demonitor(i, call) ==
    /\ instance[i] = "live" /\ session[i] # "establishing" /\ cancelling[i] = "none"
    /\ CallerIsPrompt => ended[i] = "none"
    /\ IF session[i] = "monitoring"
       THEN /\ cancelling' = [cancelling EXCEPT ![i] = call]
            /\ UNCHANGED <<instance, expiry, mapped>>
       ELSE Demonitored(i, call) /\ UNCHANGED cancelling
    /\ UNCHANGED <<session, ended, worker, forced, aborted>>

\* cancel () returns: at once while monitor () reads the FIFO, otherwise when the thread is gone.
Cancelled(i) ==
    /\ cancelling[i] # "none" /\ worker[i] \in {"starting", "running", "none"}
    /\ session' = [session EXCEPT ![i] = "none"]
    /\ cancelling' = [cancelling EXCEPT ![i] = "none"]
    /\ Demonitored(i, cancelling[i])
    /\ UNCHANGED <<ended, worker, forced, aborted>>

\* Mutant: the expiry goes on.
CancelExpiryNot(i) == UNCHANGED expiry

\* cancel_inject_expiry_for_id ()
CancelExpiry(i) == expiry' = [expiry EXCEPT ![i] = FALSE]

\* recreate_thread () of a demonitored id whose worker has ended: the thread is started again, or
\* that fails and the instance is destroyed.
RecreateThread(i) ==
    /\ instance[i] = "live" /\ expiry[i] /\ worker[i] = "none" /\ CancelExpiry(i)
    /\ session[i] = "none" /\ ended[i] = "none"
    /\ \/ /\ worker' = [worker EXCEPT ![i] = "starting"]
          /\ session' = [session EXCEPT ![i] = "establishing"]
          /\ UNCHANGED <<instance, mapped, aborted>>
       \/ Destroy(i, "immediate") /\ UNCHANGED <<worker, session>>
    /\ UNCHANGED <<ended, cancelling, forced>>

\* The timer of schedule_inject_expiry_for_id ().
Expire(i) ==
    /\ expiry[i] /\ expiry' = [expiry EXCEPT ![i] = FALSE]
    /\ Destroy(i, "immediate")
    /\ forced' = [forced EXCEPT ![i] = TRUE]
    /\ UNCHANGED <<session, ended, cancelling, worker>>
-----------------------------------------------------------------------------
\* The worker: HELLO before it loads the agent; its policy and thread id when the agent returns;
\* then it is gone.  It is also gone when the process is.
WorkerSteps(i) ==
    /\ \/ worker[i] = "starting" /\ worker' = [worker EXCEPT ![i] = "running"]
       \/ worker[i] = "running"
          /\ \E policy \in {"immediate", "resident"} : worker' = [worker EXCEPT ![i] = policy]
    /\ UNCHANGED <<instance, session, ended, expiry, cancelling, mapped, forced, aborted>>

WorkerGone(i) ==
    /\ worker[i] # "none" /\ worker' = [worker EXCEPT ![i] = "none"]
    /\ UNCHANGED <<instance, session, ended, expiry, cancelling, mapped, forced, aborted>>

Injector(i) ==
    \/ Established(i) \/ EstablishedGone(i) \/ EstablishTimeout(i)
    \/ SessionEnded(i) \/ DestroyTimer(i) \/ Cancelled(i) \/ Expire(i)

Next ==
    /\ ~aborted
    /\ \E i \in Ids :
          \/ Injector(i) \/ SessionFails(i) \/ Inject(i) \/ RecreateThread(i) \/ WorkerSteps(i) \/ WorkerGone(i)
          \/ \E call \in {"demonitor", "clone"} : Demonitor(i, call)

\* Timers fire and streams are read.
Spec == Init /\ [][Next]_vars /\ \A i \in Ids : WF_vars(~aborted /\ Injector(i))
-----------------------------------------------------------------------------
\* "assert (found)" of _destroy_inject_instance (): whoever destroys an instance, its session's
\* end, its expiry, a failed establishment or thread, finds it in the table.
AssertFound == ~aborted

\* The payload is not unmapped while a worker runs in it: the session waits for the thread to go.
\* Excepted are the timeouts (2 seconds to establish, 20 seconds to recreate) and a read of
\* the FIFO that fails, which do not.
PayloadOutlivesWorker ==
    \A i \in Ids : instance[i] = "gone" /\ worker[i] # "none" => mapped[i] \/ forced[i]

\* A session that ended has an instance to destroy, and nobody else will.
EndedHasInstance ==
    \A i \in Ids : ended[i] # "none" => instance[i] = "live" /\ session[i] = "none" /\ ~expiry[i]

\* An instance whose worker is gone is destroyed, by the session's end or by the expiry, unless
\* its thread is created again: none stays in the table for ever.
InstancesAreDestroyed ==
    \A i \in Ids : (instance[i] = "live" /\ worker[i] = "none")
                      ~> (instance[i] = "gone" \/ worker[i] # "none")
=============================================================================
