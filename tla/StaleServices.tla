---------------------------- MODULE StaleServices ----------------------------
(***************************************************************************)
(* frida_unregister_stale_services () of                                   *)
(* src/src/windows/frida-helper-service-glue.c: inactive services that an  *)
(* earlier run left behind are found by enumerating all inactive ones into *)
(* a buffer that may hold only some of them, then deleted together with    *)
(* the directories they run from, which services of one run share.         *)
(***************************************************************************)
EXTENDS Integers, Sequences, SequencesExt

CONSTANTS
    MaxServices,    \* number of inactive services
    MaxSize,        \* size of one's entry, and of its configuration
    Dir,            \* directories that services run from
    BufferSize      \* services_size at the start (16384 in the code)

ConstantsOK == MaxServices \in Nat /\ MaxSize \in Nat \ {0} /\ Dir # {} /\ BufferSize \in Nat

VARIABLES
    inactive,       \* what the system knows, an Entry for each
    pc, size, resume, failed,
    found,          \* stale_services
    configSize, deleted,
    dirs,           \* stale_dirs
    removed,        \* directories removed
    unread          \* services whose configuration could not be read; kept for the property

vars == <<inactive, pc, size, resume, failed, found, configSize, deleted, dirs, removed, unread>>

Entry == [stale : BOOLEAN, size : 1..MaxSize, config : 1..MaxSize, dir : Dir, opens : BOOLEAN]

Init ==
    /\ inactive \in UNION {[1..n -> Entry] : n \in 0..MaxServices}
    /\ pc = "enumerate" /\ size = BufferSize /\ resume = 0 /\ failed = FALSE /\ found = <<>>
    /\ configSize = 0 /\ deleted = {} /\ dirs = {} /\ removed = {} /\ unread = {}

Bytes(from, to) == FoldLeft(LAMBDA sum, e : sum + e.size, 0, SubSeq(inactive, from, to))
\* The last entry that fits when the enumeration continues at the handle.
LastThatFits == CHOOSE k \in resume..Len(inactive) :
    /\ Bytes(resume + 1, k) <= size
    /\ k = Len(inactive) \/ Bytes(resume + 1, k + 1) > size

\* The condition of the loop.
Again(n, handle) == n = 0 \/ handle # 0

Continue(n, handle) == pc' = IF Again(n, handle) THEN "enumerate" ELSE "delete"

\* Frida's among those that a call returned, and that could be opened.
Stale(from, to) == SelectSeq([i \in 1..(to - from + 1) |-> from + i - 1],
                             LAMBDA i : inactive[i].stale /\ inactive[i].opens)

\* bytes_needed
Grown == Bytes(resume + 1, Len(inactive))

\* EnumServicesStatusExW () and what follows.
Enumerate ==
    /\ pc = "enumerate"
    /\ UNCHANGED <<inactive, failed, configSize, deleted, dirs, removed, unread>>
    /\ LET last == LastThatFits
           more == last # Len(inactive)
           handle == IF more THEN last ELSE 0
       IN /\ IF more /\ last = resume
             THEN size' = Grown /\ UNCHANGED <<found, resume>>
             ELSE /\ found' = found \o Stale(resume + 1, last) /\ resume' = handle /\ UNCHANGED size
          /\ Continue(last - resume, resume')

\* It may also fail.
EnumerateFails ==
    /\ pc = "enumerate" /\ pc' = "delete" /\ failed' = TRUE
    /\ UNCHANGED <<inactive, size, resume, found, configSize, deleted, dirs, removed, unread>>

\* DeleteService ()
Deleted ==
    /\ pc = "delete" /\ found # <<>>
    /\ found' = Tail(found) /\ deleted' = deleted \cup {Head(found)}

\* A round of the loop over stale_services; the first one may find that the buffer is too small.
Delete ==
    /\ IF pc = "delete" /\ found # <<>> /\ inactive[Head(found)].config > configSize
       THEN configSize' = inactive[Head(found)].config /\ UNCHANGED <<found, deleted, dirs>>
       ELSE Deleted /\ dirs' = dirs \cup {inactive[Head(found)].dir} /\ UNCHANGED configSize
    /\ UNCHANGED <<inactive, pc, size, resume, failed, removed, unread>>

\* QueryServiceConfigW () fails for another reason: the service is deleted all the same.
DeleteUnread ==
    /\ Deleted /\ unread' = unread \cup {Head(found)}
    /\ UNCHANGED <<inactive, pc, size, resume, failed, configSize, dirs, removed>>

\* frida_rmtree () for each of stale_dirs.
RemoveDirs ==
    /\ pc = "delete" /\ found = <<>> /\ pc' = "done" /\ removed' = dirs
    /\ UNCHANGED <<inactive, size, resume, failed, found, configSize, deleted, dirs, unread>>

Next == Enumerate \/ EnumerateFails \/ Delete \/ DeleteUnread \/ RemoveDirs

Spec == Init /\ [][Next]_vars /\ WF_vars(Enumerate \/ Delete \/ RemoveDirs)
-----------------------------------------------------------------------------
\* The enumeration comes to an end when the system has an inactive service at all: without one
\* the condition of its loop holds for ever.
EnumerationEnds == inactive # <<>> => <>(pc = "done")

\* Unless the enumeration fails, exactly the stale services that can be opened are deleted; and
\* exactly the directories of those deleted are removed, but where the configuration of all the
\* services of one could not be read: then it is left, and nothing remembers it any more.
AllAreRemoved ==
    pc = "done" =>
        /\ failed \/ deleted = {i \in DOMAIN inactive : inactive[i].stale /\ inactive[i].opens}
        /\ removed = {inactive[i].dir : i \in deleted \ unread}
=============================================================================
