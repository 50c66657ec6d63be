------------------------------ MODULE QnxCall -------------------------------
(***************************************************************************)
(* frida_remote_call () of src/src/qnx/qinjector-glue.c: a thread of the   *)
(* target is stopped, made to call a function, and sent back to what it    *)
(* was doing.  An injection makes several such calls.                      *)
(*                                                                         *)
(* The thread runs and blocks in the kernel as it likes.  A debugger's     *)
(* request to stop one that is blocked takes effect only when it leaves    *)
(* the kernel, for which a SIGHUP is sent that the debugger intercepts.    *)
(***************************************************************************)
EXTENDS Naturals

CONSTANTS
    Calls,          \* number of remote calls
    MaxFaults       \* bound on the page faults within a call

ConstantsOK == {Calls, MaxFaults} \subseteq Nat

VARIABLES
    call,           \* index of the call
    pc,             \* what the injector does next
    thread,         \* running, blocked, stopped or dead
    registers,      \* own: the program's; call, return: of the remote call; garbled
    saved,          \* saved_registers
    sighup,         \* none, pending: intercepted, or delivered to the program
    faults,
    result,         \* outcome of the call
    failedAt        \* where calls have failed; for the properties

vars == <<call, pc, thread, registers, saved, sighup, faults, result, failedAt>>

Init ==
    /\ call = 1 /\ pc = "open" /\ thread \in {"running", "blocked"}
    /\ registers = "own" /\ saved = "none" /\ sighup = "none" /\ faults = 0 /\ result = "none"
    /\ failedAt = {}

Free == thread \in {"running", "blocked"}

\* The program's own doing.  With the registers of a call that was given up it can only end.
Program ==
    /\ Free /\ pc \notin {"run", "fault"}
    /\ \/ registers = "own" /\ thread' \in {"running", "blocked"} \ {thread}
       \/ thread' = "dead"
    /\ UNCHANGED <<call, pc, registers, saved, sighup, faults, result, failedAt>>

GivesUp == pc' = "done" /\ result' = "failed" /\ failedAt' = failedAt \cup {pc}
GoesOn == UNCHANGED <<result, failedAt>>

\* Every devctl () may fail, and so may open (); the process is left as it is.  When the wait for
\* the SIGHUP fails, the thread has stopped, or nobody intercepts the signal any longer.
Fail ==
    /\ pc \notin {"done", "returned"} /\ GivesUp
    /\ \/ UNCHANGED <<thread, sighup>> /\ (pc = "wait" => ~Free)
       \/ pc = "wait" /\ Free /\ thread' = "stopped" /\ UNCHANGED sighup
       \/ pc = "wait" /\ Free /\ sighup' = "delivered" /\ UNCHANGED thread
    /\ UNCHANGED <<call, registers, saved, faults>>

Open ==
    /\ pc = "open" /\ thread # "dead" /\ pc' = "stop" /\ GoesOn
    /\ UNCHANGED <<call, thread, registers, saved, sighup, faults>>

\* What follows the first DCMD_PROC_STOP.
AfterStop(state) == IF state = "stopped" THEN "save" ELSE "kick"

Stop ==
    /\ pc = "stop"
    /\ \/ thread = "dead" /\ GivesUp /\ UNCHANGED thread
       \/ thread # "dead" /\ thread' = (IF thread = "running" THEN "stopped" ELSE thread)
          /\ pc' = AfterStop(thread') /\ GoesOn
    /\ UNCHANGED <<call, registers, saved, sighup, faults>>

\* DCMD_PROC_RUN with SIGHUP traced, and kill ().
Kick ==
    /\ pc = "kick" /\ pc' = "wait" /\ GoesOn
    /\ sighup' = IF thread = "dead" THEN sighup ELSE "pending"
    /\ UNCHANGED <<call, thread, registers, saved, faults>>

\* DCMD_PROC_WAITSTOP, and DCMD_PROC_STOP again.
WaitStop ==
    /\ pc = "wait"
    /\ \/ thread = "dead" /\ GivesUp /\ UNCHANGED thread
       \/ thread # "dead" /\ thread' = "stopped" /\ pc' = "save" /\ GoesOn
    /\ UNCHANGED <<call, registers, saved, sighup, faults>>

\* Setting the registers of a thread in the kernel is undone, in part, when it leaves it.
Set(value) == registers' = IF thread = "stopped" THEN value ELSE "garbled"

Save ==
    /\ pc = "save" /\ saved' = registers /\ Set("call") /\ pc' = "run" /\ GoesOn
    /\ UNCHANGED <<call, thread, sighup, faults>>

\* DCMD_PROC_RUN: a signal that the thread has stopped for is delivered, unless it is cleared.
Continue(CLRSIG) ==
    /\ thread' = "running"
    /\ sighup' = IF sighup # "pending" THEN sighup ELSE IF CLRSIG THEN "none" ELSE "delivered"

Run ==
    /\ pc = "run" /\ Continue(TRUE) /\ pc' = "fault" /\ GoesOn
    /\ UNCHANGED <<call, registers, saved, faults>>

\* The PC is the dummy address.
Returned == registers' = "return"

\* DCMD_PROC_WAITSTOP: the function returned, or it has met a page fault of its own; or it died.
Fault ==
    /\ pc = "fault"
    /\ \/ /\ thread' = "stopped"
          /\ \/ registers' = "return" /\ UNCHANGED faults
             \/ faults < MaxFaults /\ faults' = faults + 1 /\ UNCHANGED registers
          /\ pc' = IF Returned THEN "restore" ELSE "run"
          /\ GoesOn
       \/ thread' = "dead" /\ GivesUp /\ UNCHANGED <<registers, faults>>
    /\ UNCHANGED <<call, saved, sighup>>

\* The result is read, and the registers are restored.
Restore ==
    /\ pc = "restore" /\ pc' = "continue"
    /\ result' = (IF registers = "return" THEN "value" ELSE "garbage") /\ Set(saved)
    /\ UNCHANGED <<call, thread, saved, sighup, faults, failedAt>>

\* The thread goes on.
Resume ==
    /\ pc = "continue" /\ Continue(TRUE) /\ pc' = "returned" /\ GoesOn
    /\ UNCHANGED <<call, registers, saved, faults>>

\* The next call; also after one that failed, when frida_injection_instance_free () calls munmap ().
NextCall ==
    /\ pc \in {"returned", "done"} /\ call < Calls
    /\ call' = call + 1 /\ pc' = "open" /\ faults' = 0 /\ saved' = "none" /\ result' = "none"
    /\ UNCHANGED <<thread, registers, sighup, failedAt>>

Injector ==
    Fail \/ Open \/ Stop \/ Kick \/ WaitStop \/ Save \/ Run \/ Fault \/ Restore \/ Resume \/ NextCall

Next == Injector \/ Program

Spec == Init /\ [][Next]_vars
-----------------------------------------------------------------------------
\* A call that succeeds has run the function to its end, and the thread has the registers of the
\* program, whether it ran or was blocked when it was stopped, and also when an earlier call was
\* given up, which leaves the thread stopped.  Only one that was given up between setting and
\* restoring the registers loses them for good: the next one saves what it finds.
BackAsBefore ==
    pc = "returned" =>
        /\ result = "value" /\ thread # "stopped"
        /\ registers # "own" => failedAt \cap {"run", "fault", "restore"} # {}

\* The SIGHUP that gets a thread out of the kernel, and would end the program, is never delivered
\* to it, also when the call is given up with the signal pending and another follows; it is only
\* where the wait for the signal itself fails.
NoHangup == sighup = "delivered" => "wait" \in failedAt

\* The registers are replaced while the thread is stopped, and only then.
ChangedWhileStopped == pc = "run" => thread = "stopped" /\ registers # "garbled"
=============================================================================
