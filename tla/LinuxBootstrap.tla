--------------------------- MODULE LinuxBootstrap ---------------------------
(***************************************************************************)
(* InjectSession.bootstrap () of src/src/linux/frida-helper-backend.vala   *)
(* and the code it runs in the target, helpers/bootstrapper.c: memory is   *)
(* allocated, the target's C library is found, and when the target has not *)
(* come that far it is run until it has.                                   *)
(*                                                                         *)
(* The target goes through the stages of a program's start.  A stage is    *)
(* where its main thread is; it may be stopped at any of them.             *)
(***************************************************************************)
EXTENDS Naturals, Sequences, FiniteSets

CONSTANTS
    Inits,          \* the initializers a program may have, of Preinit, InitFn and InitArray
    LinkerStops     \* the stages at which the dynamic linker calls its r_brk function

Entry == 1          \* first instruction of the dynamic linker; its list of modules is empty
Adding == 2         \* the program is in that list
Visible == 3        \* so is the C library, but it is not relocated
Linked == 4         \* everything is
Preinit == 5        \* DT_PREINIT_ARRAY
InitFn == 6         \* DT_INIT
InitArray == 7      \* DT_INIT_ARRAY
Start == 8          \* the program's entrypoint proper
Main == 9
Stage == Entry..Main

ConstantsOK ==
    Inits \subseteq Preinit..InitArray /\ LinkerStops \subseteq Adding..Linked

Nowhere == 0
Calling == 0        \* in the registers: a call that the helper makes the main thread do

VARIABLES
    interpreter,    \* the program has a dynamic linker
    r_debug, r_brk, \* the linker's symbols of that name can be found
    dynamic,        \* the program's initializers, as its dynamic section lists them
    stage,          \* of the target
    begin,          \* the stage at which the injection began
    libc,           \* a C library was loaded into a program that has none
    swapped,        \* the bootstrapper lies over code of the target's
    breakpoint,     \* where there is a breakpoint, or Nowhere
    regs,           \* the stage that the main thread's registers are of, or Calling
    saved,          \* likewise of saved_regs
    running,        \* the main thread is not stopped
    step            \* of the helper

program == <<interpreter, r_debug, r_brk, dynamic, begin>>
thread == <<regs, saved, running>>
vars == <<program, stage, libc, swapped, breakpoint, thread, step>>

Listings(S) == {d \in [1..Cardinality(S) -> S] : \A i, j \in DOMAIN d : d[i] = d[j] => i = j}

Init ==
    /\ interpreter \in BOOLEAN /\ r_debug \in BOOLEAN /\ r_brk \in BOOLEAN
    /\ dynamic \in UNION {Listings(S) : S \in SUBSET Inits}
    /\ stage \in Stage
    /\ begin = stage
    /\ libc = FALSE /\ swapped = FALSE /\ breakpoint = Nowhere
    /\ regs = stage /\ saved = stage /\ running = FALSE
    /\ step = "allocate"
-----------------------------------------------------------------------------
\* frida_path_is_libc () on the linker's list, or on the lines of /proc/self/maps.
FindsLibc == IF interpreter THEN stage >= Visible ELSE libc

\* frida_probe_process (): DT_INIT, else the first array that the dynamic section lists, else the
\* entrypoint.
Initializer ==
    CASE \E i \in DOMAIN dynamic : dynamic[i] = InitFn -> InitFn
      [] dynamic = <<>> -> Start
      [] OTHER -> Head(dynamic)

\* The next time that the linker calls its r_brk function.
LinkerStop ==
    LET later == {s \in LinkerStops : s > stage}
    IN  IF r_brk /\ later # {} THEN CHOOSE s \in later : \A t \in later : s <= t ELSE Nowhere

\* layout->r_brk: "Injecting right after libc has been loaded is risky ... So instead of waiting
\* for r_brk to be executed again, we use the program's earliest initializer / entrypoint."
RunUntil == IF r_debug /\ stage >= Adding THEN Initializer ELSE LinkerStop

\* What frida_bootstrap () returns.  Its first call, which only allocates, is Allocate below.
Status ==
    CASE interpreter /\ ~FindsLibc -> "too_early"
      [] ~interpreter /\ ~FindsLibc -> "load_libc"
      [] OTHER -> "success"
-----------------------------------------------------------------------------
\* RemoteCall.execute (), up to its wait and from there.
Call == ~running /\ regs' = Calling /\ running' = TRUE /\ UNCHANGED saved
Returns == running /\ running' = FALSE /\ regs' = saved /\ UNCHANGED saved

\* What a failure of bootstrap () leads to once there is memory, which may be the C library's to
\* give back.
Failing == {"failed"} \cup IF interpreter /\ begin >= Visible THEN {"deallocate"} ELSE {}

\* Memory by a call of mmap () in the target, when it has the helper's own C library; else the
\* bootstrapper is put over code of the target, its other threads held, and asked for it.
AllocateByCall ==
    /\ step = "allocate" /\ interpreter /\ stage >= Visible
    /\ Call /\ step' = "mmap"
    /\ UNCHANGED <<program, stage, libc, swapped, breakpoint>>

SwapCode ==
    /\ step = "allocate"
    /\ \/ Call /\ step' = "allocating" /\ swapped' = TRUE
       \/ step' = "failed" /\ UNCHANGED <<thread, swapped>>
    /\ UNCHANGED <<program, stage, libc, breakpoint>>

\* The call returns or crashes; ProcessCodeSwapScope reverts either way.
Allocate ==
    /\ step \in {"mmap", "allocating"} /\ Returns /\ step' \in {"probe", "failed"} /\ swapped' = FALSE
    /\ UNCHANGED <<program, stage, libc, breakpoint>>

Probe ==
    /\ step = "probe" /\ Call /\ step' = "probing"
    /\ UNCHANGED <<program, stage, libc, swapped, breakpoint>>

\* frida_try_load_libc_and_raise (): a dynamic linker is mapped and started on a program made up
\* for it, which needs the C library and stops.  The bootstrapper is then called again.
LoadLibc == libc' \in BOOLEAN /\ step' \in IF libc' THEN {"probe"} ELSE Failing

\* frida_bootstrap (): success, unless a function is missing; too early, so that the target has to
\* run.  The auxiliary vector may be unreadable.
Probed ==
    /\ step = "probing" /\ Returns
    /\ \/ Status = "success" /\ step' \in {"done"} \cup Failing /\ UNCHANGED libc
       \/ Status = "too_early" /\ step' = "too early" /\ UNCHANGED libc
       \/ Status = "load_libc" /\ LoadLibc
       \/ step' \in Failing /\ UNCHANGED libc
    /\ UNCHANGED <<program, stage, swapped, breakpoint>>

\* resume_until_execution_reaches (), which needs an address to run to.
RunToBreakpoint ==
    /\ step = "too early"
    /\ \/ /\ RunUntil # Nowhere /\ breakpoint' = RunUntil /\ running' = TRUE /\ step' = "running"
          /\ UNCHANGED <<regs, saved>>
       \/ RunUntil = Nowhere /\ step' \in Failing /\ UNCHANGED <<thread, breakpoint>>
    /\ UNCHANGED <<program, stage, libc, swapped>>

\* The target runs from stage to stage ...
Run ==
    /\ step = "running" /\ stage < breakpoint /\ stage' = stage + 1 /\ regs' = stage'
    /\ UNCHANGED <<program, libc, swapped, breakpoint, saved, running, step>>

\* ... and reaches the breakpoint, or traps somewhere else.  The registers are read, and the code
\* is restored.
Reach ==
    /\ step = "running" /\ running' = FALSE /\ saved' = regs /\ breakpoint' = Nowhere
    /\ \/ stage = breakpoint /\ step' = "probe"
       \/ step' \in Failing
    /\ UNCHANGED <<program, stage, libc, swapped, regs>>

\* The call of munmap () of a bootstrap () that fails.
Deallocate ==
    /\ step = "deallocate" /\ Call /\ step' = "deallocating"
    /\ UNCHANGED <<program, stage, libc, swapped, breakpoint>>

Deallocated ==
    /\ step = "deallocating" /\ Returns /\ step' = "failed"
    /\ UNCHANGED <<program, stage, libc, swapped, breakpoint>>

\* The caller cancels, the 5 s of wait_for_next_stop () pass, or the target ends.  It is not stopped,
\* so neither its registers nor its code can be accessed, and what was written stays.
GiveUp ==
    /\ running /\ step # "failed" /\ step' = "failed"
    /\ UNCHANGED <<program, stage, libc, swapped, breakpoint, thread>>

Next ==
    \/ AllocateByCall \/ SwapCode \/ Allocate \/ Probe \/ Probed \/ RunToBreakpoint \/ Run \/ Reach
    \/ Deallocate \/ Deallocated \/ GiveUp

\* The target runs, and calls in it return or crash; the waits are limited anyway.
Spec == Init /\ [][Next]_vars /\ WF_vars(Next)
-----------------------------------------------------------------------------
\* The C library that the loader will be given is fully linked: not only mapped, but relocated.
\* The exceptions are a target without r_debug and one in "the brief moment right after libc has
\* become visible, but before it's been fully linked in", both of which the code knows.
LinkedWhenUsed ==
    (step = "done" /\ interpreter /\ r_debug /\ begin # Visible) => stage >= Linked

\* A target that was held at its start has run none of its own initializers when the bootstrap
\* is done: "we use the program's earliest initializer / entrypoint".
HeldBeforeOwnCode ==
    (step = "done" /\ begin = Entry /\ interpreter /\ r_debug) =>
        \A i \in DOMAIN dynamic : stage <= dynamic[i]

\* Whenever the helper has the target stopped and is not at work on it, success or failure, its
\* code is what it was and its registers are those of where it is, also after it was run to a
\* breakpoint between two calls.  A target that runs when a wait is given up is not restored.
AsItWas ==
    ~running /\ step \in {"probe", "too early", "deallocate", "done", "failed"} =>
        ~swapped /\ breakpoint = Nowhere /\ regs = stage /\ saved = stage

\* The bootstrap comes to an end: no target is sent back to its own code for ever.
BootstrapEnds == <>(step \in {"done", "failed"})
=============================================================================
