---------------------------- MODULE MapTracking ----------------------------
(***************************************************************************)
(* How the system call tracer follows the mapped files of a process, so    *)
(* that it can name the code in a stack taken at some earlier time.        *)
(*                                                                         *)
(* In the kernel, syscall-tracer.bpf.c (src/src/linux/helpers/) asks for a *)
(* snapshot of a process it has not seen, stops the process with SIGSTOP,  *)
(* and later numbers each change of its mappings with a generation.  In    *)
(* user space, SyscallTracer (src/src/linux/syscall-tracer.vala) takes the *)
(* snapshot and continues the process, and SymbolResolver                  *)
(* (src/src/linux/symbol-resolver.vala) applies the changes in the order   *)
(* of their generations.                                                   *)
(*                                                                         *)
(* One process and one file, which is always mapped from its beginning, so *)
(* that where a mapping starts tells what each of its pages shows.         *)
(* SIGSTOP takes effect when a thread returns to user mode: a call that is *)
(* in the kernel by then completes.  A process that is gone when its       *)
(* snapshot is read gets an empty one, and is not modelled.                *)
(***************************************************************************)
EXTENDS Integers, Sequences, SequencesExt, FiniteSets, Functions, FiniteSetsExt

CONSTANTS
    Threads,
    NumPages,               \* of the address space
    RingSize,               \* events that fit into map_events
    MAX_PENDING,
    PromptStop,             \* the SIGSTOP is sent before the snapshot request is read
    AnonMappings,           \* uprobe_mmap () is also called for mappings without a file
    MaxGen, MaxEvictions    \* bounds on generations and on evictions

ConstantsOK ==
    /\ NumPages \in Nat \ {0} /\ RingSize \in Nat \ {0} /\ MAX_PENDING \in Nat
    /\ PromptStop \in BOOLEAN /\ AnonMappings \in BOOLEAN
    /\ MaxGen \in Nat /\ MaxEvictions \in Nat

Absent == -1

Pages == 0..NumPages - 1

Nothing == -1               \* content of a page that no file is mapped at

\* Addresses from r[1] up to, not including, r[2].
Ranges == {r \in Pages \X (1..NumPages) : r[1] < r[2]}

VARIABLES
    map_gen,                \* process_states: Absent, 0 before the snapshot, then counting
    mapped,                 \* of a page: the offset in the file that is mapped there, or Nothing
    pc, ev,                 \* where a thread is, and the change it has not reported yet
    stopped,                \* a SIGSTOP is in effect
    map_events,             \* ring buffer
    running,                \* state of the tracer
    handler,                \* on_map_event () of a snapshot request: "idle", "taken", "set"
    snap,                   \* cache of the resolver: the snapshot, or None
    pending, incomplete,    \* of the resolver
    hist,                   \* what was mapped at each generation since the snapshot
    lost,                   \* generations whose change was not reported
    missed,                 \* something changed between the snapshot and generation 1
    raced,                  \* a SIGCONT was sent before the SIGSTOP it answers
    evictions

procVars == <<mapped, pc, ev, stopped>>
userVars == <<handler, snap, pending, incomplete>>
ghosts == <<hist, lost, missed, raced, evictions>>
vars == <<map_gen, procVars, map_events, running, userVars, ghosts>>

None == [gen |-> 0, maps |-> <<>>]

Change == [type : {"create", "destroy"}, gen : Nat, start : Nat, end : Nat]

Request == [type |-> "snapshot"]

Mapping ==
    [start : Nat, end : Nat, file_offset : Nat, start_gen : Nat, end_gen : Nat]

\* The pages of r show the file from its beginning, or nothing.
Showing(content, r) == [p \in Pages |-> IF p \in r[1]..r[2]-1 THEN p - r[1] ELSE content[p]]

Hiding(content, r) == [p \in Pages |-> IF p \in r[1]..r[2]-1 THEN Nothing ELSE content[p]]

Empty == [p \in Pages |-> Nothing]

Init ==
    /\ map_gen = Absent /\ mapped \in {Empty} \cup {Showing(Empty, r) : r \in Ranges}
    /\ pc = [t \in Threads |-> "user"] /\ ev \in [Threads -> {Request}] /\ stopped = FALSE
    /\ map_events = <<>> /\ running = TRUE /\ handler = "idle"
    /\ snap = None /\ pending = <<>> /\ incomplete = FALSE
    /\ hist = <<mapped>> /\ lost = {} /\ missed = FALSE /\ raced = FALSE /\ evictions = 0

HasRoom == Len(map_events) < RingSize
-----------------------------------------------------------------------------
\* ensure_process_state (): a process that is not known is entered and stopped once a snapshot
\* was asked for; without room for the request it stays unknown.
EnsureProcessState(t, stop, next) ==
    IF map_gen = Absent /\ HasRoom
    THEN /\ map_gen' = 0
         /\ map_events' = Append(map_events, Request)
         /\ pc' = [pc EXCEPT ![t] = stop]
    ELSE pc' = [pc EXCEPT ![t] = next] /\ UNCHANGED <<map_gen, map_events>>

\* on_sys_enter (), for a system call that is traced and for one that is excluded.
Enter(t) ==
    /\ pc[t] = "user" /\ ~stopped
    /\ \/ running /\ EnsureProcessState(t, "stopEnter", "kernel")
       \/ pc' = [pc EXCEPT ![t] = "kernel"] /\ UNCHANGED <<map_gen, map_events>>
    /\ UNCHANGED <<mapped, ev, stopped, running, userVars, ghosts>>

\* on_sys_exit ()
Leave(t) ==
    /\ pc[t] \in {"kernel", "done"}
    /\ \/ running /\ EnsureProcessState(t, "stopLeave", "user")
       \/ pc' = [pc EXCEPT ![t] = "user"] /\ UNCHANGED <<map_gen, map_events>>
    /\ UNCHANGED <<mapped, ev, stopped, running, userVars, ghosts>>

\* bpf_send_signal (SIGSTOP), after the request was submitted.
SendStop(t) ==
    /\ pc[t] \in {"stopEnter", "stopLeave"}
    /\ pc' = [pc EXCEPT ![t] = IF pc[t] = "stopEnter" THEN "kernel" ELSE "user"]
    /\ stopped' = TRUE
    /\ UNCHANGED <<map_gen, mapped, ev, map_events, running, userVars, ghosts>>

\* A change of the mappings, with the generation that bump_map_gen () gives it: none before
\* the snapshot.  hist grows with the generation.  Changes after stop () are left out: nobody
\* looks at them any more.
Bump(t, type, r, now) ==
    /\ running
    /\ mapped' = now
    /\ IF map_gen > 0
       THEN /\ map_gen < MaxGen /\ map_gen' = map_gen + 1
            /\ hist' = Append(hist, now)
            /\ ev' = [ev EXCEPT ![t] = [type |-> type, gen |-> map_gen', start |-> r[1], end |-> r[2]]]
            /\ pc' = [pc EXCEPT ![t] = "emit"]
       ELSE pc' = [pc EXCEPT ![t] = "done"] /\ UNCHANGED <<map_gen, hist, ev>>
    /\ UNCHANGED <<stopped, map_events, running, userVars, lost, missed, raced, evictions>>

\* on_uprobe_mmap (), of a file.
Map(t, r) ==
    /\ pc[t] = "kernel"
    /\ \A p \in r[1]..r[2]-1 : mapped[p] = Nothing
    /\ Bump(t, "create", r, Showing(mapped, r))

\* The pages of r are of one area: they show consecutive pages of the file.
IsOneArea(content, r) ==
    \A p \in r[1]..r[2]-1 : content[p] # Nothing /\ content[p] - content[r[1]] = p - r[1]

\* on_uprobe_munmap (), for a part of an area or all of it; a mapping without a file is ignored
\* before a generation is taken.
Unmap(t, r) ==
    pc[t] = "kernel" /\ IsOneArea(mapped, r) /\ Bump(t, "destroy", r, Hiding(mapped, r))

\* on_uprobe_mmap () without a file: the generation is taken and nothing is reported.
MapAnon(t) ==
    /\ AnonMappings /\ pc[t] = "kernel" /\ running /\ map_gen \in 1..MaxGen-1
    /\ map_gen' = map_gen + 1
    /\ hist' = Append(hist, mapped)
    /\ lost' = lost \cup {map_gen'}
    /\ pc' = [pc EXCEPT ![t] = "done"]
    /\ UNCHANGED <<mapped, ev, stopped, map_events, running, userVars, missed, raced, evictions>>

\* The rest of the two handlers: the change is reported if there is room.
EmitChange(t) ==
    /\ pc[t] = "emit"
    /\ pc' = [pc EXCEPT ![t] = "done"]
    /\ IF HasRoom /\ running
       THEN map_events' = Append(map_events, ev[t]) /\ UNCHANGED lost
       ELSE lost' = lost \cup {ev[t].gen} /\ UNCHANGED map_events
    /\ UNCHANGED <<map_gen, mapped, ev, stopped, running, userVars, hist, missed, raced,
                   evictions>>

\* process_states is an LRU map: an entry may be evicted at any time.
Evict ==
    /\ evictions < MaxEvictions /\ evictions' = evictions + 1
    /\ map_gen # Absent /\ map_gen' = Absent
    /\ UNCHANGED <<procVars, map_events, running, userVars, hist, lost, missed, raced>>
-----------------------------------------------------------------------------
\* mapping_contains () and mapping_alive_at ()
Matches(m, addr, gen) ==
    /\ addr >= m.start /\ addr < m.end
    /\ m.start_gen <= gen /\ (m.end_gen = 0 \/ gen < m.end_gen)

\* The scans of find_mapping_at_gen () down from an entry that contains the address, then up.
Scan(maps, mid, addr, gen) ==
    LET down == {k \in 1..mid : /\ Matches(maps[k], addr, gen)
                                /\ \A l \in k..mid : addr >= maps[l].start}
        upwards == {k \in mid+1..Len(maps) : /\ Matches(maps[k], addr, gen)
                                             /\ \A l \in mid+1..k : addr >= maps[l].start}
    IN  IF down # {} THEN Max(down) ELSE IF upwards # {} THEN Min(upwards) ELSE 0

\* find_mapping_at_gen (): the index of the entry it returns, 0 for null.
FindMappingAtGen(maps, addr, gen) ==
    LET search[lo \in 1..Len(maps)+1, hi \in 0..Len(maps)] ==
            LET mid == lo + (hi - lo) \div 2
            IN  IF lo > hi THEN 0
                ELSE IF addr < maps[mid].start THEN search[lo, mid - 1]
                ELSE IF addr >= maps[mid].end THEN search[mid + 1, hi]
                ELSE Scan(maps, mid, addr, gen)
    IN  search[1, Len(maps)]

\* What resolve_addresses () makes of an entry: the offset in the file.
Rel(m, addr) == addr - m.start + m.file_offset

\* Mutant: the offset of what remains of a mapping stays that of its former beginning.
PiecesAtOldOffset(m, start, end, gen) ==
    LET dead == [m EXCEPT !.start = Max({start, m.start}), !.end = Min({end, m.end}),
                          !.file_offset = Rel(m, Max({start, m.start})), !.end_gen = gen]
        left == [m EXCEPT !.end = start]
        right == [m EXCEPT !.start = end]
    IN  IF m.end_gen # 0 \/ end <= m.start \/ start >= m.end THEN <<m>>
        ELSE IF start <= m.start /\ end >= m.end THEN <<[m EXCEPT !.end_gen = gen]>>
        ELSE IF start <= m.start THEN <<right, dead>>
        ELSE IF end >= m.end THEN <<left, dead>>
        ELSE <<left, dead, right>>

\* end_range_at_gen (), for one entry: it is active and covered in full, at its head, at its tail
\* or in its middle.  The part that ends is put after the part that goes on.
Pieces(m, start, end, gen) ==
    LET dead == [m EXCEPT !.start = Max({start, m.start}), !.end = Min({end, m.end}),
                          !.file_offset = Rel(m, Max({start, m.start})), !.end_gen = gen]
        left == [m EXCEPT !.end = start]
        right == [m EXCEPT !.start = end, !.file_offset = Rel(m, end)]
    IN  IF m.end_gen # 0 \/ end <= m.start \/ start >= m.end THEN <<m>>
        ELSE IF start <= m.start /\ end >= m.end THEN <<[m EXCEPT !.end_gen = gen]>>
        ELSE IF start <= m.start THEN <<right, dead>>
        ELSE IF end >= m.end THEN <<left, dead>>
        ELSE <<left, dead, right>>

EndRangeAtGen(maps, start, end, gen) ==
    FlattenSeq([k \in DOMAIN maps |-> Pieces(maps[k], start, end, gen)])

\* insert_sorted (): before the first entry that starts at or after m.
InsertSorted(maps, m) ==
    LET before == {k \in DOMAIN maps : \A l \in 1..k : maps[l].start < m.start}
    IN  InsertAt(maps, Cardinality(before) + 1, m)

\* apply_create () and apply_destroy_range () of ProcMapsSnapshot.
Apply(maps, e) ==
    LET ended == EndRangeAtGen(maps, e.start, e.end, e.gen)
    IN  IF e.type = "create"
        THEN InsertSorted(ended, [start |-> e.start, end |-> e.end, file_offset |-> 0,
                                  start_gen |-> e.gen, end_gen |-> 0])
        ELSE ended

\* build_from_pid (): the areas in /proc/<pid>/maps, by address.
BuildFromPid ==
    LET OneArea == {r \in Ranges : IsOneArea(mapped, r)}
        areas == {r \in OneArea : ~ \E q \in OneArea \ {r} : q[1] <= r[1] /\ q[2] >= r[2]}
        Entry(r) == [start |-> r[1], end |-> r[2], file_offset |-> mapped[r[1]],
                     start_gen |-> 1, end_gen |-> 0]
    IN  SetToSortSeq({Entry(r) : r \in areas}, LAMBDA a, b : a.start < b.start)

\* The generation up to which q, from generation to change, has no gap.
LastReady(s, q) ==
    Max({g \in s.gen .. s.gen + Cardinality(DOMAIN q) : \A k \in s.gen + 1 .. g : k \in DOMAIN q})

\* drain_map_events ()
DrainMapEvents(q) ==
    IF Cardinality(DOMAIN q) > MAX_PENDING
    THEN incomplete' = TRUE /\ pending' = <<>> /\ UNCHANGED snap
    ELSE LET last == LastReady(snap, q)
             maps[g \in snap.gen .. last] ==
                IF g = snap.gen THEN snap.maps
                ELSE IF g \in DOMAIN q THEN Apply(maps[g - 1], q[g]) ELSE maps[g - 1]
         IN  /\ snap' = [gen |-> last, maps |-> maps[last]]
             /\ pending' = Restrict(q, {g \in DOMAIN q : g > last})
             /\ UNCHANGED incomplete

\* apply_map_create () and apply_map_destroy_range (), called by on_map_event ().
ApplyChange ==
    /\ running /\ handler = "idle" /\ map_events # <<>> /\ Head(map_events) # Request
    /\ map_events' = Tail(map_events)
    /\ LET e == Head(map_events)
       IN  IF snap = None \/ e.gen <= snap.gen
           THEN UNCHANGED <<snap, pending, incomplete>>
           ELSE DrainMapEvents([g \in DOMAIN pending \cup {e.gen} |->
                                    IF g = e.gen THEN e ELSE pending[g]])
    /\ UNCHANGED <<map_gen, procVars, running, handler, ghosts>>

\* on_map_event () of a snapshot request: refresh_snapshot (), which reads /proc/<pid>/maps.
RefreshSnapshot ==
    /\ running /\ handler = "idle" /\ map_events # <<>> /\ Head(map_events) = Request
    /\ PromptStop => \A t \in Threads : pc[t] \notin {"stopEnter", "stopLeave"}
    /\ map_events' = Tail(map_events)
    /\ snap' = [gen |-> 1, maps |-> BuildFromPid]
    /\ pending' = <<>> /\ incomplete' = FALSE
    /\ hist' = <<mapped>> /\ lost' = {} /\ missed' = FALSE
    /\ handler' = "taken"
    /\ UNCHANGED <<map_gen, procVars, running, raced, evictions>>

\* ... then map_gen = 1, unless the entry is gone, which lookup_raw () reports and the handler
\* ignores.
SetGeneration ==
    /\ handler = "taken" /\ handler' = "set"
    /\ IF map_gen # Absent
       THEN /\ map_gen' = 1
            /\ missed' = (mapped # hist[1]) /\ hist' = <<mapped>>
       ELSE UNCHANGED <<map_gen, missed, hist>>
    /\ UNCHANGED <<procVars, map_events, running, snap, pending, incomplete, lost, raced, evictions>>

\* ... then SIGCONT.
SendContinue ==
    /\ handler = "set" /\ handler' = "idle"
    /\ stopped' = FALSE
    /\ raced' = (raced \/ \E t \in Threads : pc[t] \in {"stopEnter", "stopLeave"})
    /\ UNCHANGED <<map_gen, mapped, pc, ev, map_events, running, snap, pending, incomplete,
                   hist, lost, missed, evictions>>

\* stop (), between two events.
Stop ==
    /\ running /\ handler = "idle"
    /\ running' = FALSE
    /\ UNCHANGED <<map_gen, procVars, map_events, userVars, ghosts>>

User == ApplyChange \/ RefreshSnapshot \/ SetGeneration \/ SendContinue

Thread(t) ==
    \/ Enter(t) \/ Leave(t) \/ SendStop(t) \/ MapAnon(t) \/ EmitChange(t)
    \/ \E r \in Ranges : Map(t, r) \/ Unmap(t, r)

Next == (\E t \in Threads : Thread(t)) \/ User \/ Evict \/ Stop

\* The main loop serves the ring buffer; a handler that runs in the kernel completes.
Fairness ==
    /\ WF_vars(User)
    /\ \A t \in Threads : WF_vars(SendStop(t)) /\ WF_vars(EmitChange(t))

Spec == Init /\ [][Next]_vars /\ Fairness
-----------------------------------------------------------------------------
\* Type of every variable; the resolver never claims a generation the kernel has not given.
TypeOK ==
    /\ map_gen \in Absent..MaxGen /\ mapped \in [Pages -> {Nothing} \cup Pages]
    /\ pc \in [Threads -> {"user", "stopEnter", "kernel", "emit", "done", "stopLeave"}]
    /\ ev \in [Threads -> Change \cup {Request}] /\ stopped \in BOOLEAN
    /\ map_events \in Seq(Change \cup {Request}) /\ Len(map_events) <= RingSize
    /\ running \in BOOLEAN /\ handler \in {"idle", "taken", "set"}
    /\ snap \in [gen : 0..Len(hist), maps : Seq(Mapping)]
    /\ \A g \in DOMAIN pending : pending[g] \in Change /\ pending[g].gen = g
    /\ incomplete \in BOOLEAN /\ raced \in BOOLEAN

\* What SymbolResolver has recorded about a generation it has reached is what was mapped then, in
\* whatever order the changes arrived and however they cut mappings into pieces: at every page
\* one entry, with the right offset in the file, or none.  The exception is a change between
\* the snapshot and generation 1, which nobody reports.
RecordsAreExact ==
    snap # None /\ ~missed =>
        \A g \in 1..snap.gen, p \in Pages :
            {Rel(m, p) : m \in {x \in Range(snap.maps) : Matches(x, p, g)}}
                = IF hist[g][p] = Nothing THEN {} ELSE {hist[g][p]}

\* The binary search of find_mapping_at_gen () expects this of the list: entries by address, of
\* which no two overlap in part.  end_range_at_gen () keeps it when changes cover mappings in
\* full, at the tail or in the middle.  It loses it at the head, where it puts the part that
\* ended after the part that starts behind it; and a mapping created over a part of an ended
\* one loses it, too.
IsOrdered(maps) ==
    \A k \in DOMAIN maps : \A l \in k+1..Len(maps) :
        \/ maps[k].end <= maps[l].start
        \/ maps[k].start = maps[l].start /\ maps[k].end = maps[l].end

\* Where the list is in that order the search finds what is recorded.  Where it is not, it may
\* find nothing, even about the present, but never something else.
SearchFinds ==
    snap # None /\ ~missed =>
        \A g \in 1..snap.gen, p \in Pages :
            LET k == FindMappingAtGen(snap.maps, p, g)
            IN  IF k = 0 THEN hist[g][p] = Nothing \/ ~IsOrdered(snap.maps)
                ELSE Rel(snap.maps[k], p) = hist[g][p]

\* A generation whose change was not reported holds the resolver back: drain_map_events ()
\* never goes past it, and neither clear () of the queue nor later changes help.  Only a new
\* snapshot does.
LostGenerationBlocks == \A g \in lost : snap.gen < g

\* A stopped process has its SIGCONT coming, as long as the tracer runs: the request is still
\* to be read or is being handled.  The exception is a request that was read, and answered,
\* before the process sent itself the SIGSTOP.
StopHasWaker ==
    stopped /\ running => Request \in Range(map_events) \/ handler # "idle" \/ raced

\* A process that was stopped for its snapshot is continued, unless the tracer is stopped.
Resumes == stopped /\ running ~> ~stopped \/ ~running

\* If no generation gets lost the resolver reaches the kernel's.  This takes a process_states
\* that keeps its entries: after an eviction two requests may be queued, and the second answer
\* sets a generation back to 1 that is counting already.
CatchesUp ==
    LET behind == /\ running /\ map_gen > 0 /\ snap.gen # map_gen
                  /\ lost = {} /\ ~incomplete /\ evictions = 0
    IN  behind ~> ~behind
=============================================================================
