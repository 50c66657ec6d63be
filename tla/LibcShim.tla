------------------------------ MODULE LibcShim ------------------------------
(***************************************************************************)
(* What the threads of the agent share in src/lib/payload/libc-shim.c: the *)
(* tables of streams and directories with their lock, the exit handlers,   *)
(* and the end of it all, frida_run_atexit_handlers () followed by         *)
(* frida_libc_shim_deinit ().                                              *)
(*                                                                         *)
(* A handle is a FILE or a DIR.  The steps of a call are split where       *)
(* another thread can come in between.                                     *)
(***************************************************************************)
EXTENDS Naturals, Sequences, FiniteSets

CONSTANTS
    Threads, Handles,
    MaxHandlers,        \* bound on registered exit handlers
    OneLoader           \* handlers are registered by one thread at a time, as by a dynamic linker

ConstantsOK == MaxHandlers \in Nat /\ OneLoader \in BOOLEAN

VARIABLES
    handle,         \* none, open, freed
    fd,             \* its descriptor: none, open, closed
    table,          \* frida_streams and frida_dirs
    lock,           \* the thread that holds frida_stdio, or "none"
    todo,           \* what flush_all has yet to visit
    call,           \* what each thread is doing
    entries,        \* frida_atexit_entries: a sequence of slots in the current block
    block,          \* which block of memory that is; realloc () makes a new one
    slot,           \* the slot each thread is about to fill
    registered,     \* handlers whose registration returned
    ran,            \* handlers that were run
    phase           \* up, handlers have run, down; or the process exits with the agent in it

vars == <<handle, fd, table, lock, todo, call, entries, block, slot, registered, ran, phase>>

stdio == <<handle, fd, table, lock, todo>>
exits == <<entries, block, slot, registered, ran>>

Empty == 0      \* a slot without a handler

\* frida_libc_shim_init ().  The three standard streams are never in the table.
Init ==
    /\ handle = [h \in Handles |-> "none"] /\ fd = [h \in Handles |-> "none"]
    /\ table = {} /\ lock = "none" /\ todo = {}
    /\ call = [t \in Threads |-> <<"idle">>]
    /\ entries = <<>> /\ block = 0 /\ slot = [t \in Threads |-> [block |-> 0, at |-> 0]]
    /\ registered = {} /\ ran = <<>> /\ phase = "up"

Goes(t, from, to) == call[t] = from /\ call' = [call EXCEPT ![t] = to]
-----------------------------------------------------------------------------
\* fopen (), fdopen (), tmpfile (), opendir (), fdopendir (), up to the registration.
Open(t, h) ==
    /\ phase = "up" /\ Goes(t, <<"idle">>, <<"register", h>>) /\ handle[h] = "none"
    /\ handle' = [handle EXCEPT ![h] = "open"] /\ fd' = [fd EXCEPT ![h] = "open"]
    /\ UNCHANGED <<table, lock, todo, exits, phase>>

\* frida_stdio_register_stream (), frida_stdio_register_dir ()
Register(t, h) ==
    /\ Goes(t, <<"register", h>>, <<"idle">>) /\ lock = "none"
    /\ table' = table \cup {h}
    /\ UNCHANGED <<handle, fd, lock, todo, exits, phase>>

\* Mutant: fclose () leaves the stream in the table until it is freed.
CloseFrees(t, h) ==
    /\ phase = "up" /\ Goes(t, <<"idle">>, <<"unregister", h>>)
    /\ handle[h] = "open" /\ h \in table
    /\ handle' = [handle EXCEPT ![h] = "freed"] /\ fd' = [fd EXCEPT ![h] = "closed"]
    /\ UNCHANGED <<table, lock, todo, exits, phase>>

\* fclose () and closedir (): flush and close the descriptor.  If that fails the call returns, and
\* the stream stays; the caller may not use it again.
Close(t, h) ==
    /\ phase = "up" /\ call[t] = <<"idle">> /\ handle[h] = "open" /\ h \in table
    /\ \A u \in Threads : call[u] \notin {<<"unregister", h>>, <<"free", h>>}
    /\ fd[h] = "open" /\ fd' = [fd EXCEPT ![h] = "closed"]
    /\ call' \in {call, [call EXCEPT ![t] = <<"unregister", h>>]}
    /\ UNCHANGED <<handle, table, lock, todo, exits, phase>>

\* frida_stdio_unregister_stream (), frida_stdio_unregister_dir ()
Unregister(t, h) ==
    /\ Goes(t, <<"unregister", h>>, <<"free", h>>) /\ lock = "none"
    /\ table' = table \ {h}
    /\ UNCHANGED <<handle, fd, lock, todo, exits, phase>>

\* frida_file_free () and frida_file_unwrap (), frida_dir_free ()
Free(t, h) ==
    /\ Goes(t, <<"free", h>>, <<"idle">>) /\ handle' = [handle EXCEPT ![h] = "freed"]
    /\ UNCHANGED <<fd, table, lock, todo, exits, phase>>

\* fflush (NULL): frida_flush_all_streams () visits the table under the lock.
FlushAll(t) ==
    /\ Goes(t, <<"idle">>, <<"flush">>) /\ phase = "up" /\ lock = "none"
    /\ lock' = t /\ todo' = table
    /\ UNCHANGED <<handle, fd, table, exits, phase>>

FlushOne(t, h) ==
    /\ call[t] = <<"flush">> /\ h \in todo /\ todo' = todo \ {h}
    /\ UNCHANGED <<handle, fd, table, lock, call, exits, phase>>

FlushDone(t) ==
    /\ Goes(t, <<"flush">>, <<"idle">>) /\ todo = {} /\ lock' = "none"
    /\ UNCHANGED <<handle, fd, table, todo, exits, phase>>
-----------------------------------------------------------------------------
Busy == \E t \in Threads : call[t] = <<"atexit">>

\* __cxa_atexit () under the lock: the array grows by a slot, and may move.
CxaAtexit(t) ==
    /\ phase = "up" /\ Goes(t, <<"idle">>, <<"atexit">>) /\ (OneLoader => ~Busy)
    /\ Len(entries) < MaxHandlers
    /\ entries' = Append(entries, Empty)
    /\ block' \in {block, block + 1}
    /\ slot' = [slot EXCEPT ![t] = [block |-> block', at |-> Len(entries) + 1]]
    /\ UNCHANGED <<stdio, registered, ran, phase>>

\* ... and after it: the slot is filled, in the block it was in under the lock.  The handler is
\* known by the order in which registrations return.
CxaAtexitFill(t) ==
    /\ Goes(t, <<"atexit">>, <<"idle">>)
    /\ LET id == Cardinality(registered) + 1
       IN  /\ entries' = IF slot[t].block = block
                         THEN [entries EXCEPT ![slot[t].at] = id] ELSE entries
           /\ registered' = registered \cup {id}
    /\ UNCHANGED <<stdio, block, slot, ran, phase>>

\* frida_run_atexit_handlers (), once the agent's threads are gone: from the last to the first.
RunAtexitHandlers ==
    /\ phase = "up" /\ \A t \in Threads : call[t] = <<"idle">>
    /\ ran' = [i \in 1..Len(entries) |-> entries[Len(entries) + 1 - i]]
    /\ entries' = <<>> /\ phase' = "handlers"
    /\ UNCHANGED <<stdio, call, block, slot, registered>>

\* frida_libc_shim_deinit (), which agent and gadget announce: flush, close and free what is still in the tables.
Deinit ==
    /\ phase = "handlers" /\ phase' = "down"
    /\ handle' = [h \in Handles |-> IF h \in table THEN "freed" ELSE handle[h]]
    /\ fd' = [h \in Handles |-> IF h \in table THEN "closed" ELSE fd[h]]
    /\ table' = {} /\ UNCHANGED <<lock, todo, call, exits>>

\* ... as the destructor of a process that exits: the streams are flushed, and since
\* frida_deinit_expected is not set that is all.
DeinitUnexpected ==
    /\ phase = "up" /\ lock = "none" /\ phase' = "exit"
    /\ UNCHANGED <<stdio, call, exits>>

Next ==
    \/ \E t \in Threads, h \in Handles :
          Open(t, h) \/ Register(t, h) \/ Close(t, h) \/ Unregister(t, h) \/ Free(t, h)
          \/ FlushOne(t, h)
    \/ \E t \in Threads : FlushAll(t) \/ FlushDone(t) \/ CxaAtexit(t) \/ CxaAtexitFill(t)
    \/ RunAtexitHandlers \/ Deinit \/ DeinitUnexpected

Spec == Init /\ [][Next]_vars
-----------------------------------------------------------------------------
\* Whatever flush_all visits, or a shutdown would, is a stream that has not been freed: the
\* asserts of frida_file_get_impl () hold while other threads close their streams.
VisitedIsAlive == \A h \in table \cup todo : handle[h] = "open"

\* Once the shim is gone no descriptor that it opened is left open and no stream is left over,
\* whichever calls were made and failed.
NothingIsLeft ==
    phase = "down" => \A h \in Handles : fd[h] # "open" /\ handle[h] # "open"

\* "... to make sure any destructors registered that way will be run before we deallocate our
\* internal heap": every handler whose registration returned has been run, once, after those
\* registered after it.
HandlersRun ==
    phase \in {"handlers", "down"} =>
        /\ \A id \in registered : \E i \in DOMAIN ran : ran[i] = id
        /\ OneLoader => \A i, k \in DOMAIN ran : i < k => ran[i] > ran[k]
=============================================================================
