-------------------------- MODULE SpawnGaterProofs --------------------------
(***************************************************************************)
(* Spawn gating on Linux forgets a process that it has stopped in two ways *)
(* only, for any number of processes and any size of the ring buffer.      *)
(***************************************************************************)
EXTENDS SpawnGater, TLAPS

\* What the proof needs to know of the variables.
Shape ==
    /\ pc \in [Pids -> {"run", "stop"}]
    /\ stopped \subseteq Pids
    /\ events \in Seq(Pids)

Known == Range(events) \cup pending_spawn \cup resuming \cup raced \cup unresumed

\* StoppedIsKnown is not inductive: a process is known from its event on, before it stops.
StoppingIsKnown == \A p \in Pids : pc[p] = "stop" => p \in Known

IInv == Shape /\ StoppingIsKnown /\ StoppedIsKnown

\* A process whose event is appended to the ring buffer is among those reported.
LEMMA RangeOfAppend ==
    ASSUME NEW S, NEW s \in Seq(S), NEW x \in S
    PROVE  Range(Append(s, x)) = Range(s) \cup {x}
<1>1. ASSUME NEW y \in Range(Append(s, x)) PROVE y \in Range(s) \cup {x}
  BY <1>1 DEF Range
<1>2. ASSUME NEW y \in Range(s) PROVE y \in Range(Append(s, x))
  <2>1. PICK i \in DOMAIN s : y = s[i]
    BY <1>2 DEF Range
  <2>2. i \in DOMAIN Append(s, x) /\ Append(s, x)[i] = s[i]
    BY <2>1
  <2> QED BY <2>1, <2>2 DEF Range
<1>3. x \in Range(Append(s, x))
  <2>1. Len(s) + 1 \in DOMAIN Append(s, x) /\ Append(s, x)[Len(s) + 1] = x
    OBVIOUS
  <2> QED BY <2>1 DEF Range
<1> QED BY <1>1, <1>2, <1>3

\* Initially nobody is stopped.
LEMMA GaterInit == Init => IInv
BY DEF Init, IInv, Shape, StoppingIsKnown, StoppedIsKnown

\* Every step of the kernel's program, of the main loop and of the client keeps it.
LEMMA GaterStep == IInv /\ [Next]_vars => IInv'
<1> SUFFICES ASSUME IInv, [Next]_vars PROVE IInv'
  OBVIOUS
<1> USE DEF IInv, Shape, StoppingIsKnown, StoppedIsKnown, Known
<1>1. ASSUME NEW p \in Pids, OnExecveEnter(p) PROVE IInv'
  <2>1. CASE attached /\ Len(events) < RingSize
    <3>1. events' = Append(events, p) /\ events' \in Seq(Pids)
      <4> HIDE DEF IInv, Shape, StoppingIsKnown, StoppedIsKnown, Known
      <4>1. events \in Seq(Pids)
        BY DEF IInv, Shape
      <4>2. events' = Append(events, p)
        BY <1>1, <2>1 DEF OnExecveEnter
      <4> QED BY <4>1, <4>2
    <3>2. Range(Append(events, p)) = Range(events) \cup {p}
      <4> HIDE DEF IInv, Shape
      <4>1. events \in Seq(Pids)
        BY DEF IInv, Shape
      <4> QED BY <4>1, RangeOfAppend
    <3> QED BY <1>1, <2>1, <3>1, <3>2 DEF OnExecveEnter
  <2>2. CASE ~(attached /\ Len(events) < RingSize)
    BY <1>1, <2>2 DEF OnExecveEnter
  <2> QED BY <2>1, <2>2
<1>2. ASSUME NEW p \in Pids, SendStop(p) PROVE IInv'
  BY <1>2 DEF SendStop
<1>3. ASSUME NEW p \in Pids, TryResume(p) PROVE IInv'
  BY <1>3 DEF TryResume
<1>4. ASSUME NEW p \in Pids, PerformResume(p) PROVE IInv'
  <2>1. CASE Resumed(p)
    BY <2>1 DEF Resumed
  <2>2. CASE ResumeFails(p)
    BY <2>2 DEF ResumeFails
  <2> QED BY <1>4, <2>1, <2>2 DEF PerformResume
<1>5. ASSUME ProcessPendingEvents PROVE IInv'
  BY <1>5 DEF ProcessPendingEvents
<1>6. ASSUME Stop PROVE IInv'
  BY <1>6 DEF Stop
<1>7. ASSUME Start PROVE IInv'
  BY <1>7 DEF Start
<1>8. CASE UNCHANGED vars
  BY <1>8 DEF vars
<1> QED BY <1>1, <1>2, <1>3, <1>4, <1>5, <1>6, <1>7, <1>8 DEF Next

\* A process that on_execve_enter () stopped is in the ring buffer, in pending_spawn or being
\* resumed, whatever the order in which it stops, is read, is resumed and gating ends.  The
\* only ways in which SpawnGater forgets a stopped process are the SIGSTOP that comes after its
\* own resume, and a perform_resume () whose error is not INVALID_ARGUMENT.
THEOREM StoppedIsKnownAlways == Spec => []StoppedIsKnown
<1>1. IInv => StoppedIsKnown
  BY DEF IInv
<1> QED BY <1>1, GaterInit, GaterStep, PTL DEF Spec
=============================================================================
