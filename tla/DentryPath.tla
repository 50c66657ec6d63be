----------------------------- MODULE DentryPath -----------------------------
(***************************************************************************)
(* write_attach_dentry_path () of src/src/linux/helpers/                   *)
(* syscall-tracer.bpf.c: the path of a mapped file, built from the kernel's*)
(* directory entries in a buffer of MAX_BUF_BUILDER_SIZE bytes and copied  *)
(* into an event.  The BPF verifier makes it bound every loop and mask     *)
(* every index.                                                            *)
(*                                                                         *)
(* A file is given by what lies between it and the root, from the file     *)
(* upwards: the names of directory entries, and Mount where the root of a  *)
(* mounted file system is left for its mount point.  A text is a sequence  *)
(* of characters, NUL included.                                            *)
(***************************************************************************)
EXTENDS Integers, Sequences, SequencesExt

CONSTANTS
    Names,                  \* names of directory entries, sequences of characters
    MaxUp,                  \* bound on the entries above a file
    MAX_PATH_DEPTH, MAX_BUF_BUILDER_SIZE, MAX_PATH

ConstantsOK ==
    /\ MaxUp \in Nat /\ MAX_PATH_DEPTH \in Nat \ {0}
    /\ \E k \in 1..16 : MAX_BUF_BUILDER_SIZE = 2 ^ k
    /\ MAX_PATH \in 1..MAX_BUF_BUILDER_SIZE-1
    /\ \A n \in Names : n # <<>>

VARIABLES
    up,                     \* the file
    text                    \* what is attached to its event
vars == <<up, text>>

NUL == "NUL"
Slash == "/"
Mount == <<"mount">>

Min2(a, b) == IF a < b THEN a ELSE b

\* The loop that collects entries, from the file upwards.  Leaving a mount takes a round too.
Chain(file) ==
    SelectSeq(SubSeq(file, 1, Min2(Len(file), MAX_PATH_DEPTH)), LAMBDA e : e # Mount)

\* bb_append_kstr (): the name, cut to leave room for a terminator.
AppendKstr(b, name) ==
    b \o SubSeq(name, 1, Min2(Len(name), MAX_BUF_BUILDER_SIZE - Len(b) - 1))

Full(b) == Len(b) >= MAX_BUF_BUILDER_SIZE - 1

\* The loop that appends the names from the root downwards, until one does not fit.
Build(chain) ==
    LET put(b, name) ==
            LET sep == IF Len(b) = 1 THEN b ELSE Append(b, Slash)
            IN  CASE Full(b) -> b
                  [] ~Full(b) /\ Full(sep) -> sep
                  [] OTHER -> AppendKstr(sep, name)
    IN  FoldRight(LAMBDA name, b : put(b, name), chain, <<Slash>>)

\* The terminator: its index has bit 0 cleared by the mask MAX_BUF_BUILDER_SIZE - 2.
Terminate(b) ==
    IF Full(b) THEN b
    ELSE Append(SubSeq(b, 1, Len(b) - (Len(b) % 2)), NUL)

\* The whole function: the attachment is cut to what the event has room for.
WriteAttachDentryPath(file) ==
    LET chain == Chain(file)
        b == IF chain = <<>> THEN <<Slash, NUL>> ELSE Terminate(Build(chain))
    IN  SubSeq(b, 1, Min2(Len(b), MAX_PATH))

Init == up \in BoundedSeq(Names \cup {Mount}, MaxUp) /\ text = <<>>

\* on_uprobe_mmap () of the file.
OnUprobeMmap == text = <<>> /\ text' = WriteAttachDentryPath(up) /\ UNCHANGED up

Next == OnUprobeMmap

Spec == Init /\ [][Next]_vars
-----------------------------------------------------------------------------
\* The path by its definition: the names below the root, each after a slash.
PathOf(names) ==
    IF names = <<>> THEN <<Slash>>
    ELSE FoldRight(LAMBDA name, b : b \o <<Slash>> \o name, names, <<>>)

IsShown == text # <<>>

\* What a reader of the C string sees.
Shown == SelectSeq(text, LAMBDA c : c # NUL)

Path == PathOf(SelectSeq(up, LAMBDA e : e # Mount))

\* The attachment holds a path that starts at the root and is never empty; what it shows is
\* the beginning of the file's path, or of the deepest part of it when there are more entries
\* than MAX_PATH_DEPTH.
ShowsBeginning == IsShown => IsPrefix(Shown, PathOf(Chain(up)))

\* A path that fits is shown up to its last character at least: the mask of the terminator's
\* index costs a path of odd length its last character, and never more.
LosesAtMostOne ==
    IsShown /\ Len(up) <= MAX_PATH_DEPTH /\ Len(Path) < MAX_PATH
    => Len(Shown) >= Len(Path) - 1

\* A path that fits is terminated, once and at the end: on_map_event () reads it as a C string.
\* (One that does not fit fills its room without a terminator.)
IsTerminated ==
    IsShown /\ Len(PathOf(Chain(up))) < MAX_PATH
    => {i \in DOMAIN text : text[i] = NUL} = {Len(text)}
=============================================================================
