---------------------------- MODULE ExportsTrie -----------------------------
(***************************************************************************)
(* frida_exports_trie_find () and frida_read_uleb128 () of                 *)
(* src/src/fruity/helpers/symbol-resolver.c: an export is looked up in the *)
(* trie of a Mach-O image.                                                 *)
(*                                                                         *)
(* A trie has three nodes, of which the first is the root.  The characters *)
(* on the edges to the children of a node differ in the first one.         *)
(***************************************************************************)
EXTENDS Naturals, Sequences, SequencesExt

CONSTANTS
    Char,           \* characters
    MaxLabel,       \* bound on the length of an edge
    MaxName,        \* bound on the length of a name
    Radix           \* 128

ConstantsOK == {MaxLabel, MaxName} \subseteq Nat \ {0} /\ Radix \in Nat \ {0, 1}

Words(min, max) == UNION {[1..n -> Char] : n \in min..max}

VARIABLES
    parent,         \* of nodes 2 and 3
    label,          \* of the edges to nodes 2 and 3
    terminal,       \* the nodes that are the end of an export
    swapped,        \* node 3 comes before node 2
    name,           \* what is looked for
    node, rest,     \* p, and s: the node, and what is left of the name
    child,          \* index of the child that is looked at
    result

trie == <<parent, label, terminal, swapped, name>>
vars == <<trie, node, rest, child, result>>

\* The address of an export, as the digits that the linker writes, and what they mean.
Address(n) == Radix * n + 1
Digits(k) == LET digit[i \in 1..3] == (k \div Radix^(i - 1)) % Radix IN digit

\* frida_read_uleb128 ()
ReadUleb128(digits) == FoldRight(LAMBDA d, acc : acc * Radix + d, digits, 0)

Children(n) ==
    LET listed == IF swapped THEN <<3, 2>> ELSE <<2, 3>>
    IN  SelectSeq(listed, LAMBDA c : parent[c] = n)

Init ==
    /\ parent \in [{2, 3} -> {1, 2}] /\ parent[2] = 1
    /\ label \in [{2, 3} -> Words(1, MaxLabel)]
    /\ parent[3] = 1 => label[2][1] # label[3][1]
    /\ terminal \in SUBSET {1, 2, 3} /\ swapped \in BOOLEAN
    /\ name \in Words(0, MaxName)
    /\ node = 1 /\ rest = name /\ child = 1 /\ result = <<>>

\* Mutant: the end of the name is enough for an edge to match.
MatchesPrefix(edge, s) == IsPrefix(edge, s) \/ IsPrefix(s, edge)

\* matching_edge
Matches(edge, s) == IsPrefix(edge, s)

\* A node whose end is the end of the name.
Terminal ==
    /\ result = <<>> /\ child = 1 /\ rest = <<>> /\ node \in terminal
    /\ result' = <<ReadUleb128(Digits(Address(node)))>>
    /\ UNCHANGED <<trie, node, rest, child>>

\* A child: the edge matches and the search goes on there, or the next one is looked at.
Child ==
    /\ result = <<>> /\ ~(child = 1 /\ rest = <<>> /\ node \in terminal)
    /\ child <= Len(Children(node))
    /\ LET next == Children(node)[child]
       IN  IF Matches(label[next], rest)
           THEN /\ node' = next /\ child' = 1
                /\ rest' = SubSeq(rest, Len(label[next]) + 1, Len(rest))
           ELSE child' = child + 1 /\ UNCHANGED <<node, rest>>
    /\ UNCHANGED <<trie, result>>

\* No child is left.
NotFound ==
    /\ result = <<>> /\ ~(child = 1 /\ rest = <<>> /\ node \in terminal)
    /\ child > Len(Children(node))
    /\ result' = <<0>>
    /\ UNCHANGED <<trie, node, rest, child>>

Next == Terminal \/ Child \/ NotFound

Spec == Init /\ [][Next]_vars
-----------------------------------------------------------------------------
Path(n) ==
    IF n = 1 THEN <<>> ELSE IF parent[n] = 1 THEN label[n] ELSE label[parent[n]] \o label[n]

Exports == {n \in terminal : Path(n) = name}

\* An export is found, with its address, exactly when the trie has one of that name; names that
\* are the beginning of others, and edges that share one, included.
FindsTheExport ==
    result # <<>> =>
        IF Exports = {} THEN result = <<0>> ELSE \E n \in Exports : result = <<Address(n)>>
=============================================================================
