--------------------------- MODULE ChainedFixups ----------------------------
(***************************************************************************)
(* frida_process_chained_fixups () and frida_apply_threaded_items () of    *)
(* src/src/fruity/helpers/upload-receiver.c: the pointers of the gadget's  *)
(* image are linked into chains, each pointer's own bits saying what it    *)
(* stands for and how far the next one is, and are replaced in place.      *)
(*                                                                         *)
(* The linker's side is given by Encode: what an item means in the image,  *)
(* and what is written for it in each format.  Addresses count strides.    *)
(***************************************************************************)
EXTENDS Integers, Sequences, FiniteSetsExt

CONSTANTS
    Preferred, Actual,  \* preferred_base_address and actual_base_address
    PageSize, Pages,    \* of a segment; the image has two segments
    Wide, Narrow,       \* number of symbols that fit in an ordinal of 24 and of 16 bits
    AddendRange,        \* number of values of an addend of 19 bits
    MaxItems            \* bound on the number of pointers

ConstantsOK ==
    /\ {Preferred, Actual} \subseteq Nat
    /\ {PageSize, Pages, Wide, Narrow, AddendRange, MaxItems} \subseteq Nat \ {0}

Format == {"64", "64_offset", "arm64e", "arm64e_offset", "userland24", "threaded"}
Arm == Format \ {"64", "64_offset"}
Data == [what |-> "data"]
Slot == 0..(2 * Pages * PageSize - 1)

VARIABLES
    format,
    meant,          \* [slot -> what the linker put there; Data where there is no pointer]
    memory,         \* [slot -> what is there]
    page,           \* index of the page that is processed, over both segments
    cursor,         \* the slot that is processed, or -1 between pages
    done            \* slots that were processed

vars == <<format, meant, memory, page, cursor, done>>

Symbols(f) == IF f = "userland24" THEN Wide ELSE Narrow

\* What a pointer may stand for: a place in the image or a symbol, signed or not, with an addend
\* where the format has a field for it.
Meaning(f) ==
    [what : {"rebase"}, to : {0, 1}, addend : {0}, auth : IF f \in Arm THEN BOOLEAN ELSE {FALSE}]
    \cup [what : {"bind"}, to : {0, Symbols(f) - 1}, auth : {FALSE},
          addend : IF f = "threaded" THEN {0} ELSE IF f \in Arm THEN {-1, 0, 1} ELSE {0, 1}]
    \cup [what : {"bind"}, to : {Symbols(f) - 1}, auth : IF f \in Arm THEN {TRUE} ELSE {FALSE}, addend : {0}]

Items(m) == {s \in DOMAIN m : m[s] # Data}
PageOf(s) == s \div PageSize
Behind(m, s) == {t \in Items(m) : PageOf(t) = PageOf(s) /\ t > s}

\* What the linker writes.  Targets are addresses in the formats 64, arm64e and threaded, and
\* offsets in the others and wherever a pointer is signed.
Encode(f, m) ==
    [s \in Slot |->
        IF m[s] = Data THEN Data
        ELSE [what |-> m[s].what, auth |-> m[s].auth,
              to |-> IF m[s].what = "rebase" /\ f \in {"64", "arm64e", "threaded"} /\ ~m[s].auth
                     THEN Preferred + m[s].to ELSE m[s].to,
              addend |-> m[s].addend % AddendRange,
              next |-> IF Behind(m, s) = {} THEN 0 ELSE Min(Behind(m, s)) - s]]

Init ==
    /\ format \in Format
    /\ \E items \in SUBSET Slot : \E kinds \in [items -> Meaning(format)] :
          /\ Cardinality(items) <= MaxItems
          /\ meant = [s \in Slot |-> IF s \in items THEN kinds[s] ELSE Data]
    /\ memory = Encode(format, meant)
    /\ page = 0 /\ cursor = -1 /\ done = {}

slide == Actual - Preferred
Symbol(n) == 100 * (n + 1)
Signed(address, auth) == [what |-> "pointer", address |-> address, auth |-> auth]

\* frida_sign_extend_int19 ()
SignExtend(i19) == IF i19 >= AddendRange \div 2 THEN i19 - AddendRange ELSE i19

Ordinal(item) == IF format = "userland24" THEN item.to % Wide ELSE item.to % Narrow

\* frida_process_chained_fixups_in_segment_generic64 ()
Generic64(item) ==
    IF item.what = "rebase"
    THEN Signed(IF format = "64_offset" THEN Actual + item.to ELSE item.to + slide, FALSE)
    ELSE Signed(Symbol(Ordinal(item)) + item.addend, FALSE)

\* frida_process_chained_fixups_in_segment_arm64e ()
Arm64e(item) ==
    CASE item.what = "rebase" /\ ~item.auth ->
            Signed(IF format = "arm64e" THEN item.to + slide ELSE Actual + item.to, FALSE)
      [] item.what = "bind" /\ ~item.auth ->
            Signed(Symbol(Ordinal(item)) + SignExtend(item.addend), FALSE)
      [] item.what = "rebase" /\ item.auth -> Signed(Preferred + item.to + slide, TRUE)
      [] item.what = "bind" /\ item.auth -> Signed(Symbol(Ordinal(item)), TRUE)

\* frida_apply_threaded_items ()
Threaded(item) ==
    Signed(IF item.what = "bind" THEN Symbol(Ordinal(item))
           ELSE item.to + (IF item.auth THEN Preferred ELSE 0) + slide, item.auth)

Value(item) ==
    CASE format \in {"64", "64_offset"} -> Generic64(item)
      [] format = "threaded" -> Threaded(item)
      [] OTHER -> Arm64e(item)

\* page_start, or the region that the bind opcodes name; none is FRIDA_CHAINED_PTR_START_NONE,
\* and a segment without any has no seg_info_offset.
Start(p) ==
    LET items == {s \in Items(meant) : PageOf(s) = p} IN IF items = {} THEN -1 ELSE Min(items)

\* The loops over segments and pages.
EnterPage ==
    /\ cursor = -1 /\ page < 2 * Pages
    /\ cursor' = Start(page)
    /\ page' = IF cursor' = -1 THEN page + 1 ELSE page
    /\ UNCHANGED <<format, meant, memory, done>>

Delta(item) == item.next

\* The body of the loop over a chain.
Process ==
    /\ cursor # -1
    /\ LET item == memory[cursor]
       IN  /\ memory' = [memory EXCEPT ![cursor] = Value(item)]
           /\ done' = done \cup {cursor}
           /\ cursor' = IF Delta(item) = 0 THEN -1 ELSE cursor + Delta(item)
           /\ page' = IF Delta(item) = 0 THEN page + 1 ELSE page
    /\ UNCHANGED <<format, meant>>

Next == EnterPage \/ Process

Spec == Init /\ [][Next]_vars
-----------------------------------------------------------------------------
\* The value that a pointer has to have in the image at its actual place.
Right(m) ==
    Signed(IF m.what = "rebase" THEN Actual + m.to ELSE Symbol(m.to) + m.addend, m.auth)

\* A pointer that was processed is what the linker meant, in every format: where the image is, not
\* where it prefers to be, and with its addend's sign.
PointersAreRight == \A s \in done : memory[s] = Right(meant[s])

\* In the end every pointer was processed, and nothing that is not one was touched.
ChainsAreFollowed ==
    /\ page = 2 * Pages => done = Items(meant)
    /\ \A s \in Slot \ Items(meant) : memory[s] = Data
=============================================================================
