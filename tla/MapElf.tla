------------------------------- MODULE MapElf -------------------------------
(***************************************************************************)
(* frida_map_elf () of src/src/linux/helpers/bootstrapper.c: the segments  *)
(* of a dynamic linker are mapped from its file, page by page.             *)
(*                                                                         *)
(* Addresses are relative to base.  A byte of memory is the offset of the  *)
(* byte of the file that it shows, Zero, or Unmapped.                      *)
(***************************************************************************)
EXTENDS Integers, Sequences, FiniteSetsExt

CONSTANTS
    Page,           \* ctx->page_size
    Top,            \* bound on the addresses of segments
    MaxSize         \* bound on the size of a segment

ConstantsOK == {Page, Top, MaxSize} \subseteq Nat \ {0}

Zero == -1
Unmapped == -2

PageStart(a) == a - (a % Page)

PageAlign(a) == PageStart(a + Page - 1)
Address == 0..(Top + MaxSize + 2 * Page)

VARIABLES
    segments,       \* the PT_LOAD headers
    next,           \* index of the one to map
    memory,         \* of the target, from base on
    previous_end,
    failed

vars == <<segments, next, memory, previous_end, failed>>

Segment == [vaddr : 0..Top, filesz : 1..MaxSize, memsz : 1..MaxSize, shift : {0, Page}]

\* As linkers lay out the segments of a dynamic linker: in order, on pages of their own, and only
\* the last, which is the writable one, larger in memory than in the file.
WellFormed(s) ==
    /\ \A i \in DOMAIN s : s[i].memsz >= s[i].filesz /\ (i < Len(s) => s[i].memsz = s[i].filesz)
    /\ \A i \in 1..(Len(s) - 1) : PageAlign(s[i].vaddr + s[i].memsz) <= PageStart(s[i + 1].vaddr)

Lowest == PageStart(segments[1].vaddr)
Relative(i) == segments[i].vaddr - Lowest
Offset(i) == segments[i].vaddr + segments[i].shift

\* p_vaddr + p_memsz of the last segment, as the loop over all of them finds it.
Footprint ==
    Max({segments[i].vaddr + segments[i].memsz : i \in DOMAIN segments}) - Lowest

\* mmap () of whole pages, of the file from `offset` on
Mapped(from, size, offset) ==
    [a \in Address |->
        IF a \in from..(from + PageAlign(size) - 1) THEN offset + (a - from) ELSE memory[a]]

Init ==
    /\ segments \in {s \in [1..2 -> Segment] : WellFormed(s)}
    /\ next = 1 /\ previous_end = -1 /\ failed = FALSE
    /\ memory = [a \in Address |-> IF a < PageAlign(Footprint) THEN Zero ELSE Unmapped]

\* map_offset
FileOffset(i) == Offset(i) - (Relative(i) % Page)

\* The body of the second loop: what lies between two segments is unmapped.
MapSegment ==
    /\ next <= Len(segments) /\ ~failed
    /\ LET map_address == PageStart(Relative(next))
           map_size == PageAlign(segments[next].filesz + (Relative(next) % Page))
           gap == {a \in Address : previous_end # -1 /\ previous_end <= a /\ a < map_address}
           shown == Mapped(map_address, map_size, FileOffset(next))
       IN  \/ /\ memory' = [a \in Address |-> IF a \in gap THEN Unmapped ELSE shown[a]]
              /\ previous_end' = map_address + map_size /\ UNCHANGED failed
           \/ /\ failed' = TRUE /\ UNCHANGED previous_end
              /\ memory' = [a \in Address |-> IF a < PageAlign(Footprint) THEN Unmapped ELSE memory[a]]
    /\ next' = next + 1
    /\ UNCHANGED segments

BssStart == Max({Relative(i) + segments[i].filesz : i \in DOMAIN segments})

\* Mutant: the rest of the last page keeps what the file has there.
ZeroNothing == {}

\* The rest of the page in which the file's part of the image ends.
ZeroFill ==
    {a \in Address : BssStart % Page # 0 /\ BssStart <= a /\ a < PageStart(BssStart) + Page}

Finish ==
    /\ next = Len(segments) + 1 /\ ~failed /\ next' = next + 1
    /\ memory' = [a \in Address |-> IF a \in ZeroFill THEN Zero ELSE memory[a]]
    /\ UNCHANGED <<segments, previous_end, failed>>

Next == MapSegment \/ Finish

Spec == Init /\ [][Next]_vars
-----------------------------------------------------------------------------
\* The image is what the program headers say: every byte of a segment is the file's, up to
\* p_filesz, and zero from there to p_memsz, whatever the alignment of addresses and sizes.
ImageIsRight ==
    next > Len(segments) + 1 =>
        \A i \in DOMAIN segments : \A k \in 0..(segments[i].memsz - 1) :
            memory[Relative(i) + k] = IF k < segments[i].filesz THEN Offset(i) + k ELSE Zero

\* Nothing is mapped but the pages of the segments, and nothing at all after a failure.
NothingElseIsMapped ==
    failed \/ next > Len(segments) + 1 =>
        \A a \in {b \in Address : memory[b] # Unmapped} :
            /\ ~failed
            /\ \E i \in DOMAIN segments :
                  Relative(i) < PageStart(a) + Page /\ PageStart(a) < Relative(i) + segments[i].memsz
=============================================================================
