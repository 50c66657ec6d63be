--------------------------- MODULE SyscallEvents ---------------------------
(***************************************************************************)
(* System calls of a traced process: on_sys_enter () and on_sys_exit () of *)
(* src/src/linux/helpers/syscall-tracer.bpf.c, which run in the kernel on  *)
(* the thread that makes the call, and SyscallTracer of                    *)
(* src/src/linux/syscall-tracer.vala, which hands their events to a client.*)
(*                                                                         *)
(* An event carries attachments: copies of what arguments point to.  What  *)
(* the call itself writes can only be copied when it returns, from the     *)
(* pointer that on_sys_enter () left in the map "inflight" for the thread. *)
(* A byte string is abstracted to its length, a pointer to the call that   *)
(* passed it.                                                              *)
(***************************************************************************)
EXTENDS Integers, Sequences, FiniteSets, Functions

CONSTANTS
    Threads,
    Calls,                  \* the system calls threads make, see Call
    Results,                \* what they return, see Result
    MAX_PATH, MAX_STAT, MAX_SOCK, TIMESPEC_SIZE,
    MAX_INFLIGHT_COPIES,
    RingSize,               \* events that fit into syscall_events
    MaxCalls,               \* bound on the number of calls
    MaxSwitches             \* bound on changes of the target and exclusion sets

VARIABLES
    call,                   \* the call a thread is in, or Idle
    inflight,               \* BPF map: the copy to make when the thread's call returns
    syscall_events,         \* ring buffer
    stats,
    target,                 \* the process is in target_tgids or target_uids
    excluded,               \* numbers in excluded_syscalls
    armed,                  \* syscall_events_source is attached
    available,              \* events_available was emitted, or the last read said "more"
    serial,                 \* numbers the calls
    unseen,                 \* calls whose return was not recorded
    switches

vars == <<call, inflight, syscall_events, stats, target, excluded, armed, available,
          serial, unseen, switches>>

\* Paths named by arguments, in the order of their attachments.
OnePath ==
    [openat |-> <<1>>, faccessat |-> <<1>>, statfs |-> <<0>>, readlinkat |-> <<1>>]

OnePathStat ==
    [newfstatat |-> <<1>>, statx |-> <<1>>]

TwoPaths ==
    [rename |-> <<0, 1>>, renameat |-> <<1, 3>>, renameat2 |-> <<1, 3>>, link |-> <<0, 1>>,
     linkat |-> <<1, 3>>, symlink |-> <<0, 1>>, symlinkat |-> <<0, 2>>]

ThreePaths ==
    [mount |-> <<0, 1, 2>>]

\* Arguments that point to a struct timespec: what to sleep, what was left of it.
Timespec ==
    [nanosleep |-> [rqtp |-> 0, rmtp |-> 1], clock_nanosleep |-> [rqtp |-> 2, rmtp |-> 3]]

\* Socket addresses passed in, and returned.
SockIn ==
    [connect |-> 1, bind |-> 1, sendto |-> 4]

SockOut ==
    [accept |-> 1, accept4 |-> 1, getsockname |-> 1, getpeername |-> 1, recvfrom |-> 4]

\* Results of the stat family.
StatOut ==
    [statfs |-> 1, newfstatat |-> 2, statx |-> 4, fstatfs |-> 1, fstat |-> 1, statmount |-> 1]

Paths(nr) ==
    CASE nr \in DOMAIN OnePath -> OnePath[nr]
      [] nr \in DOMAIN OnePathStat -> OnePathStat[nr]
      [] nr \in DOMAIN TwoPaths -> TwoPaths[nr]
      [] nr \in DOMAIN ThreePaths -> ThreePaths[nr]
      [] OTHER -> <<>>

\* str: length of the strings it passes, -1 if they cannot be read; len: a length
\* argument; in, out: the pointers to what it passes and what it gets are not NULL.
Call == [nr : STRING, str : Int, len : Nat, in : BOOLEAN, out : BOOLEAN]

\* ret: what the call returns, -EINTR as -4; user_len: length of the address it stored.
Result == [ret : Int, user_len : Int]

EINTR == 4

ConstantsOK ==
    /\ Calls \subseteq Call /\ Results \subseteq Result
    /\ \E k \in 1..16 : MAX_PATH = 2 ^ k
    /\ {MAX_STAT, MAX_SOCK, TIMESPEC_SIZE, RingSize} \subseteq Nat \ {0}
    /\ {MAX_INFLIGHT_COPIES, MaxCalls, MaxSwitches} \subseteq Nat

Idle == [id |-> 0]

None == [kind |-> "none"]

Attachment == [type : {"string", "bytes"}, arg : 0..5, capacity : Nat, size : Nat, from : Nat]
-----------------------------------------------------------------------------
Min2(a, b) == IF a < b THEN a ELSE b

\* write_attach_str_arg (): bpf_probe_read_user_str () counts the terminator.
StrArg(id, arg, length) ==
    [type |-> "string", arg |-> arg, capacity |-> MAX_PATH, from |-> id,
     size |-> IF length >= 0 THEN Min2(length + 1, MAX_PATH) ELSE 1]

\* write_attach_bytes_arg ()
BytesArg(id, arg, capacity, n) ==
    [type |-> "bytes", arg |-> arg, capacity |-> capacity, from |-> id,
     size |-> Min2(n, capacity)]

EnterAttachments(id, c) ==
    CASE c.nr \in DOMAIN Timespec ->
            IF c.in THEN <<BytesArg(id, Timespec[c.nr].rqtp, TIMESPEC_SIZE, TIMESPEC_SIZE)>>
                    ELSE <<>>
      [] c.nr \in DOMAIN SockIn -> <<BytesArg(id, SockIn[c.nr], MAX_SOCK, c.len)>>
      [] OTHER -> [i \in DOMAIN Paths(c.nr) |-> StrArg(id, Paths(c.nr)[i], c.str)]

StrCopy(id, c) ==
    [kind |-> "str", nr |-> c.nr, arg |-> 2, max_len |-> c.len, from |-> id]

StatCopy(id, c) ==
    [kind |-> "stat", nr |-> c.nr, from |-> id,
     arg |-> IF c.nr \in DOMAIN StatOut THEN StatOut[c.nr] ELSE Timespec[c.nr].rmtp,
     max_len |-> CASE c.nr \in DOMAIN Timespec -> TIMESPEC_SIZE
                   [] c.nr = "statmount" -> Min2(c.len, MAX_STAT)
                   [] OTHER -> MAX_STAT]

SockCopy(id, c) ==
    [kind |-> "sock", nr |-> c.nr, arg |-> SockOut[c.nr], max_len |-> MAX_SOCK, from |-> id]

\* The copies on_sys_enter () schedules for the return of a call: one or none.
Scheduled(id, c) ==
    CASE c.nr = "readlinkat" -> {StrCopy(id, c)}
      [] c.nr \in DOMAIN StatOut \/ (c.nr \in DOMAIN Timespec /\ c.out) -> {StatCopy(id, c)}
      [] c.nr \in DOMAIN SockOut -> {SockCopy(id, c)}
      [] OTHER -> {}

\* Mutant: BPF_NOEXIST, so that an entry left behind stays.
RememberFirst(t, copies) ==
    inflight' = IF copies # {} /\ inflight[t] = None
                THEN [inflight EXCEPT ![t] = CHOOSE copy \in copies : TRUE]
                ELSE inflight

\* bpf_map_update_elem (&inflight, ..., BPF_ANY) fails for a new key in a full map.
Remember(t, copies) ==
    LET used == {u \in Threads : inflight[u] # None}
        fits == t \in used \/ Cardinality(used) < MAX_INFLIGHT_COPIES
    IN  inflight' = IF copies # {} /\ fits
                    THEN [inflight EXCEPT ![t] = CHOOSE copy \in copies : TRUE]
                    ELSE inflight

HasRoom == Len(syscall_events) < RingSize

\* bpf_ringbuf_reserve () and bpf_ringbuf_submit (), counted in stats.
Emit(e) ==
    IF HasRoom
    THEN /\ syscall_events' = Append(syscall_events, e)
         /\ stats' = [stats EXCEPT !.emitted = @ + 1]
    ELSE /\ stats' = [stats EXCEPT !.dropped = @ + 1]
         /\ UNCHANGED syscall_events

\* should_trace_current (), syscall_is_excluded ()
Traced(nr) == target /\ nr \notin excluded
-----------------------------------------------------------------------------
Init ==
    /\ call = [t \in Threads |-> Idle]
    /\ inflight = [t \in Threads |-> None]
    /\ syscall_events = <<>> /\ stats = [emitted |-> 0, dropped |-> 0]
    /\ target \in BOOLEAN /\ excluded = {}
    /\ armed = TRUE /\ available = FALSE
    /\ serial = 0 /\ unseen = {} /\ switches = 0

\* on_sys_enter (): known is what ensure_process_state () returns.
Enter(t, c) ==
    /\ call[t] = Idle /\ serial < MaxCalls
    /\ serial' = serial + 1
    /\ \E known \in BOOLEAN :
        LET recorded == Traced(c.nr) /\ known
            copies == IF recorded /\ HasRoom THEN Scheduled(serial', c) ELSE {}
        IN  /\ Remember(t, copies)
            /\ call' = [call EXCEPT ![t] = [id |-> serial', nr |-> c.nr, len |-> c.len,
                                            copied |-> copies # {}]]
            /\ IF recorded
               THEN Emit([type |-> "enter", id |-> serial', nr |-> c.nr, ret |-> 0, copied |-> TRUE,
                          attachments |-> EnterAttachments(serial', c)])
               ELSE UNCHANGED <<syscall_events, stats>>
    /\ UNCHANGED <<target, excluded, armed, available, unseen, switches>>

StrOut(in, r) ==
    LET wanted == Min2(r.ret, in.max_len)
        size == (IF wanted >= MAX_PATH THEN MAX_PATH - 1 ELSE wanted) % MAX_PATH
    IN  IF r.ret > 0
        THEN <<[type |-> "string", arg |-> in.arg, capacity |-> MAX_PATH, size |-> size + 1,
                from |-> in.from]>>
        ELSE <<>>

StatOk(nr, r) == r.ret = 0 \/ (nr \in DOMAIN Timespec /\ r.ret = -EINTR)

StatAttachments(in, r) ==
    IF StatOk(in.nr, r)
    THEN <<[type |-> "bytes", arg |-> in.arg, capacity |-> MAX_STAT,
            size |-> Min2(in.max_len, MAX_STAT), from |-> in.from]>>
    ELSE <<>>

SockOk(nr, r) ==
    IF nr \in {"accept", "accept4", "recvfrom"} THEN r.ret >= 0 ELSE r.ret = 0

SockAttachments(in, r) ==
    IF SockOk(in.nr, r)
    THEN <<[type |-> "bytes", arg |-> in.arg, capacity |-> MAX_SOCK, from |-> in.from,
            size |-> IF r.user_len > 0 THEN Min2(r.user_len, Min2(in.max_len, MAX_SOCK))
                                       ELSE 0]>>
    ELSE <<>>

ExitAttachments(in, r) ==
    CASE in.kind = "str" -> StrOut(in, r)
      [] in.kind = "stat" -> StatAttachments(in, r)
      [] in.kind = "sock" -> SockAttachments(in, r)

\* What the kernel may return: no more than readlinkat () was given room for, 0 or an
\* error from the stat family.
CanReturn(c, r) ==
    /\ c.nr = "readlinkat" => r.ret <= c.len
    /\ c.nr \in DOMAIN StatOut \cup DOMAIN Timespec => r.ret <= 0

Forget(t) == inflight' = [inflight EXCEPT ![t] = None]

\* on_sys_exit (): an entry for this system call is used up once there is room for the
\* event; without room the handler returns before it deletes the entry.
Exit(t, r) ==
    /\ call[t] # Idle /\ CanReturn(call[t], r)
    /\ call' = [call EXCEPT ![t] = Idle]
    /\ \E known \in BOOLEAN :
        LET recorded == Traced(call[t].nr) /\ known
            in == inflight[t]
            match == in # None /\ in.nr = call[t].nr
        IN  /\ IF recorded
               THEN Emit([type |-> "exit", id |-> call[t].id, nr |-> call[t].nr, ret |-> r.ret,
                          copied |-> call[t].copied /\ in # None,
                          attachments |-> IF match THEN ExitAttachments(in, r) ELSE <<>>])
               ELSE UNCHANGED <<syscall_events, stats>>
            /\ IF recorded /\ HasRoom /\ match THEN Forget(t) ELSE UNCHANGED inflight
            /\ unseen' = IF recorded /\ HasRoom THEN unseen ELSE unseen \cup {call[t].id}
    /\ UNCHANGED <<target, excluded, armed, available, serial, switches>>
-----------------------------------------------------------------------------
\* add_target_tgid (), remove_target_tgid (), add_target_uid (), remove_target_uid ()
SwitchTarget ==
    /\ switches < MaxSwitches /\ switches' = switches + 1
    /\ target' = ~target
    /\ UNCHANGED <<call, inflight, syscall_events, stats, excluded, armed, available, serial,
                   unseen>>

\* exclude_syscall (), include_syscall ()
SwitchExcluded(nr) ==
    /\ switches < MaxSwitches /\ switches' = switches + 1
    /\ excluded' = IF nr \in excluded THEN excluded \ {nr} ELSE excluded \cup {nr}
    /\ UNCHANGED <<call, inflight, syscall_events, stats, target, armed, available, serial,
                   unseen>>

\* arm_syscall_events_watch (), once the ring buffer is drained.
Arm(drained) == armed' = (armed \/ drained)

\* The watch of the ring buffer fires once, and tells the client to read.
OnSyscallEventsReadable ==
    /\ armed /\ syscall_events # <<>>
    /\ armed' = FALSE /\ available' = TRUE
    /\ UNCHANGED <<call, inflight, syscall_events, stats, target, excluded, serial, unseen,
                   switches>>

\* The client's "read-events" request: drain_events () takes events until the ring buffer is
\* empty, which re-arms the watch, or until the batch is full and the answer says "more".
DrainEvents ==
    /\ \E n \in 0..Len(syscall_events) :
        LET drained == n = Len(syscall_events)
        IN  /\ n = 0 => drained
            /\ syscall_events' = SubSeq(syscall_events, n + 1, Len(syscall_events))
            /\ Arm(drained)
            /\ available' = ~drained
    /\ UNCHANGED <<call, inflight, stats, target, excluded, serial, unseen, switches>>

Next ==
    \/ \E t \in Threads : (\E c \in Calls : Enter(t, c)) \/ (\E r \in Results : Exit(t, r))
    \/ SwitchTarget \/ \E c \in Calls : SwitchExcluded(c.nr)
    \/ OnSyscallEventsReadable \/ DrainEvents

\* The main loop dispatches a watch that is ready; a client that was told of events reads.
Fairness == WF_vars(OnSyscallEventsReadable) /\ WF_vars(available /\ DrainEvents)

Spec == Init /\ [][Next]_vars /\ Fairness
-----------------------------------------------------------------------------
Event == [type : {"enter", "exit"}, id : Nat, nr : STRING, ret : Int, copied : BOOLEAN,
          attachments : Seq(Attachment)]

Copy == {None} \cup [kind : {"str", "stat", "sock"}, nr : STRING, arg : 0..5, max_len : Nat,
                    from : Nat]

\* Type of every variable; an attachment has one of the six arguments and is not larger than
\* the room its event has for it, whatever lengths the call passed and returned.
TypeOK ==
    /\ call \in [Threads -> {Idle} \cup [id : Nat, nr : STRING, len : Nat, copied : BOOLEAN]]
    /\ inflight \in [Threads -> Copy]
    /\ syscall_events \in Seq(Event) /\ Len(syscall_events) <= RingSize
    /\ stats \in [emitted : Nat, dropped : Nat]
    /\ target \in BOOLEAN /\ excluded \in SUBSET STRING
    /\ armed \in BOOLEAN /\ available \in BOOLEAN
    /\ serial \in 0..MaxCalls /\ unseen \subseteq 1..serial /\ switches \in 0..MaxSwitches
    /\ \A e \in Range(syscall_events) : \A a \in Range(e.attachments) : a.size <= a.capacity

\* on_sys_exit () attaches the whole target of a link, cut to what an event has room for next
\* to its terminator.
LinkTargetIsWhole ==
    \A e \in Range(syscall_events) :
        e.type = "exit" /\ e.nr = "readlinkat" /\ e.copied /\ e.ret > 0
        => \E a \in Range(e.attachments) : a.size = 1 + Min2(e.ret, MAX_PATH - 1)

\* What on_sys_exit () attaches was copied from the pointer passed to the call that returns.
\* It is another call's only when on_sys_enter () left no copy for this one (its event was
\* dropped, or it passed NULL) and the return of that other call was not recorded, so that
\* nobody deleted its entry.
CopiesAreOwn ==
    \A e \in Range(syscall_events) : \A a \in Range(e.attachments) :
        a.from # e.id => ~e.copied /\ a.from \in unseen

\* An entry of "inflight" outlives its call only if the return of the call was not recorded:
\* otherwise the entries are no more than the calls in progress.
EntriesAreUsedUp ==
    \A t \in Threads :
        inflight[t] # None /\ inflight[t].from # call[t].id => inflight[t].from \in unseen

\* While there are events to read the watch is armed or the client knows: drain_events ()
\* leaves the watch unarmed only when it told the client that there is more.
NoLostWakeup == syscall_events # <<>> => armed \/ available

\* Every event is read: the ring buffer becomes empty again and again.
EventsAreRead == []<>(syscall_events = <<>>)
=============================================================================
