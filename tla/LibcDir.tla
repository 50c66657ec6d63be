------------------------------ MODULE LibcDir ------------------------------
(***************************************************************************)
(* readdir () of src/lib/payload/libc-shim.c: directory entries are got    *)
(* from the kernel a buffer at a time, and handed out one by one.          *)
(*                                                                         *)
(* An entry is a record of some size with a name of some length.  The      *)
(* kernel puts as many whole records into the buffer as it likes, at least *)
(* one; a call may fail, up to MaxErrors times.                            *)
(***************************************************************************)
EXTENDS Naturals, Sequences

CONSTANTS
    Lengths,        \* lengths of names
    Count,          \* number of entries in the directory
    Cap,            \* d->cap, in records of one unit plus the name
    NameSize,       \* sizeof (d->cur.d_name) - 1
    MaxErrors

ConstantsOK == Lengths \subseteq 1..(Cap - 1) /\ {Count, Cap, NameSize, MaxErrors} \subseteq Nat

VARIABLES
    directory,      \* the entries, as the kernel enumerates them
    fetched,        \* how many of them the kernel has returned
    buf,            \* d->buf [d->pos .. d->len)
    cur,            \* d->cur
    returned,       \* the names that readdir () returned
    ended, errors

vars == <<directory, fetched, buf, cur, returned, ended, errors>>

Entry == [name : 1..Count, length : Lengths]
None == [name |-> 0, length |-> 0]

\* opendir (), fdopendir ()
Init ==
    /\ directory \in {d \in [1..Count -> Entry] : \A i \in 1..Count : d[i].name = i}
    /\ fetched = 0 /\ buf = <<>> /\ cur = None /\ returned = <<>> /\ ended = FALSE /\ errors = 0

Size(s) ==
    LET sum[i \in 0..Len(s)] == IF i = 0 THEN 0 ELSE sum[i - 1] + 1 + s[i].length
    IN  sum[Len(s)]

\* The name as it fits into d_name, which ends with a NUL.
Name(entry) == [entry EXCEPT !.length = IF @ > NameSize THEN NameSize ELSE @]

\* The record at d->pos goes into d->cur; d->pos moves on.
HandOut(s) ==
    /\ buf' = Tail(s) /\ cur' = Name(Head(s)) /\ returned' = Append(returned, cur')

\* readdir () with records left in the buffer.
ReaddirBuffered ==
    /\ buf # <<>> /\ HandOut(buf)
    /\ UNCHANGED <<directory, fetched, ended, errors>>

\* frida_getdirents_nointr () and, on Darwin, frida_dir_refill_darwin ()
Fetched(n) == SubSeq(directory, fetched + 1, fetched + n)

\* readdir () that has to ask the kernel first.
ReaddirRefill ==
    /\ buf = <<>>
    /\ \E n \in 1..(Count - fetched) :
          /\ Size(Fetched(n)) <= Cap
          /\ fetched' = fetched + n /\ HandOut(Fetched(n))
    /\ UNCHANGED <<directory, ended, errors>>

ReaddirFails ==
    /\ buf = <<>> /\ errors < MaxErrors /\ errors' = errors + 1
    /\ UNCHANGED <<directory, fetched, buf, cur, returned, ended>>

ReaddirEnd ==
    /\ buf = <<>> /\ fetched = Count /\ ended' = TRUE
    /\ UNCHANGED <<directory, fetched, buf, cur, returned, errors>>

Next == ReaddirBuffered \/ ReaddirRefill \/ ReaddirFails \/ ReaddirEnd

Spec == Init /\ [][Next]_vars
-----------------------------------------------------------------------------
\* readdir () returns the entries in the kernel's order, each once and none left out, however
\* the kernel groups them and whatever calls fail in between.
InOrder == \A i \in DOMAIN returned : returned[i].name = i

\* It reports the end only when it has returned them all.
EndIsTheEnd == ended => Len(returned) = Count

\* A name never outgrows d_name.
NameFits == cur.length <= NameSize
=============================================================================
