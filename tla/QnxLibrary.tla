----------------------------- MODULE QnxLibrary -----------------------------
(***************************************************************************)
(* frida_resolve_remote_library_function () and frida_find_library_base () *)
(* of src/src/qnx/qinjector-glue.c: a function of the target's libc is     *)
(* found by where it is in the injector's own.                             *)
(*                                                                         *)
(* A process has a list of mappings in order of address; a library may     *)
(* have several, the first of which holds its code.                        *)
(***************************************************************************)
EXTENDS Integers, Sequences, SequencesExt, FiniteSets

CONSTANTS
    MaxMappings,    \* bound on the mappings of a process
    MaxOffset       \* bound on the offset of a function in its library

ConstantsOK == {MaxMappings, MaxOffset} \subseteq Nat

\* What a path looks like, for the name "libc": it is that name; there is a slash in it, which
\* the names of anonymous memory lack; what follows the last slash begins with libc, with next
\* behind it, and ends in .so, once a number is cut off.
Name(exact, slash, prefix, next, suffix) ==
    [exact |-> exact, slash |-> slash, prefix |-> prefix, next |-> next, suffix |-> suffix]

Libc3 == Name(FALSE, TRUE, TRUE, ".", TRUE)        \* /usr/lib/libc.so.3
LibcDash == Name(FALSE, TRUE, TRUE, "-", TRUE)     \* /lib/libc-2.so
Bare == Name(TRUE, FALSE, TRUE, "", FALSE)         \* libc

Libraries == {Libc3, LibcDash, Bare}

Others ==
    {Name(FALSE, TRUE, TRUE, "r", TRUE),            \* /usr/lib/libcrypto.so.2
     Name(FALSE, TRUE, TRUE, "+", TRUE),            \* /usr/lib/libc++.so.1
     Name(FALSE, TRUE, FALSE, "", TRUE),            \* /usr/lib/libm.so
     Name(FALSE, TRUE, TRUE, ".", FALSE),           \* /etc/libc.conf
     Name(FALSE, TRUE, FALSE, "", FALSE),           \* the program
     Name(FALSE, FALSE, FALSE, "", FALSE)}          \* memory without a file
Size == 10

VARIABLES
    maps,           \* [process -> names of the mappings; mapping i is at address i * Size]
    offset,         \* of the function in libc
    who,            \* whose mappings are searched
    index, base, stage,
    path            \* [process -> the mapping that library_path is a copy of]

vars == <<maps, offset, who, index, base, stage, path>>

InMaps(m, names) == {i \in DOMAIN m : m[i] \in names}

\* A process has one C library, in one mapping or in two next to each other.
Lists == {m \in BoundedSeq(Libraries \cup Others, MaxMappings) :
            \A i, j \in InMaps(m, Libraries) : m[i] = m[j] /\ i - j \in {-1, 0, 1}}

Init ==
    /\ maps \in [{"local", "remote"} -> Lists] /\ InMaps(maps["local"], Libraries) # {}
    /\ offset \in 0..MaxOffset
    /\ who = "local" /\ index = 1 /\ base = [w \in {"local", "remote"} |-> 0] /\ stage = "search"
    /\ path = [w \in {"local", "remote"} |-> {}]

\* The second branch; the first one, for the exact name, does not end the search.
Stops(name) ==
    ~name.exact /\ name.slash /\ name.prefix /\ name.suffix /\ name.next \in {"-", "."}

IsLibrary(name) == name.exact \/ Stops(name)

\* The loop over the mappings.
Search ==
    /\ stage = "search" /\ index <= Len(maps[who])
    /\ LET name == maps[who][index]
       IN  /\ IF IsLibrary(name)
              THEN /\ base' = [base EXCEPT ![who] = index * Size]
                   /\ path' = [path EXCEPT ![who] = {name}]
              ELSE UNCHANGED <<base, path>>
           /\ IF Stops(name) THEN stage' = "found" /\ UNCHANGED index
                             ELSE index' = index + 1 /\ UNCHANGED stage
    /\ UNCHANGED <<maps, offset, who>>

\* The process may not be readable, or not tell of one of its mappings: what was found counts.
SearchEnds ==
    /\ stage = "search" /\ (index > Len(maps[who]) \/ who = "remote")
    /\ stage' = "found"
    /\ UNCHANGED <<maps, offset, who, index, base, path>>

\* The callers: the assertion on the two paths ends the injector.
Found ==
    /\ stage = "found"
    /\ IF who = "local"
       THEN who' = "remote" /\ index' = 1 /\ stage' = "search"
       ELSE /\ stage' = IF base["remote"] # 0 /\ path["local"] # path["remote"]
                        THEN "aborted" ELSE "done"
            /\ UNCHANGED <<who, index>>
    /\ UNCHANGED <<maps, offset, base, path>>

Next == Search \/ SearchEnds \/ Found

Spec == Init /\ [][Next]_vars
-----------------------------------------------------------------------------
BaseOf(w) == SelectInSeq(maps[w], LAMBDA n : n \in Libraries) * Size

\* dlsym () in the injector.
LocalAddress == BaseOf("local") + offset

Resolved == IF base["remote"] = 0 THEN 0 ELSE base["remote"] + LocalAddress - base["local"]

\* Both bases are those of the last mapping of a library with the exact name, of which the target
\* has as many as the injector and told of all.
ExactIsWhole ==
    path["remote"] = {Bare} =>
        /\ index > Len(maps["remote"])
        /\ Cardinality(InMaps(maps["local"], {Bare})) = Cardinality(InMaps(maps["remote"], {Bare}))

\* The address is that of the function in the target, where it has the library, wherever the
\* library is in either process and whatever else they have loaded.  A path that is just the
\* name does not end the search, so that its last mapping counts: it must be the same one in both (ExactIsWhole).
ResolvedIsRight ==
    stage = "done" /\ ExactIsWhole => Resolved \in {0, BaseOf("remote") + offset}
=============================================================================
