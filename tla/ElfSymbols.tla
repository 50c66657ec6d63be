----------------------------- MODULE ElfSymbols -----------------------------
(***************************************************************************)
(* src/src/linux/helpers/elf-parser.c: where a module begins, and which    *)
(* symbols it exports.                                                     *)
(*                                                                         *)
(* An address counts words of the size of a symbol.  The length of the     *)
(* dynamic symbol table is written nowhere: the code reads on until a name *)
(* lies beyond the strings, or the segment ends.  Behind the table may be  *)
(* anything, which reads as a symbol as well.                              *)
(***************************************************************************)
EXTENDS Naturals, Sequences, SequencesExt

CONSTANTS
    Base,           \* where the module is loaded: ehdr
    Page,           \* page_size
    MaxSymbols,     \* bound on the length of the table
    MaxRest         \* bound on what follows the table in its segment

ConstantsOK ==
    /\ {Base, Page} \subseteq Nat \ {0} /\ Base % Page = 0
    /\ {MaxSymbols, MaxRest} \subseteq Nat

VARIABLES
    table, rest,    \* the symbols of the module, and what follows them in their segment
    headers,        \* its program headers
    dynamic,        \* its dynamic section: DT_SYMTAB, and whether DT_STRTAB and DT_STRSZ are there
    i,              \* index of the next symbol
    found,          \* the symbols func was called with
    step

vars == <<table, rest, headers, dynamic, i, found, step>>

\* inside: the name lies within the strings (st_name < strings_size)
Symbol ==
    [inside : {TRUE}, defined : BOOLEAN, kind : {"func", "other"}, bind : {"global", "local"}]

\* What the words behind the table may read as: an export, another symbol, or a name beyond.
Behind ==
    {[inside |-> b[1], defined |-> b[2], kind |-> "func", bind |-> "global"] :
        b \in {<<TRUE, TRUE>>, <<TRUE, FALSE>>, <<FALSE, TRUE>>}}

Table == 1          \* offset of the symbol table in its module
Headers == 0        \* offset of the program headers, which are on the first page
Seg(type, offset, vaddr, size) ==
    [type |-> type, offset |-> offset, vaddr |-> vaddr, size |-> size]

\* Headers as linkers write them, for n words in the first segment: at addresses that are final
\* or not, with the headers themselves listed or not.
Layouts(n) ==
    {listed \o <<Seg("load", 0, link, n), Seg("load", n, link + n, 1)>> :
        listed \in {<<>>, <<Seg("phdr", Headers, Headers, 1)>>}, link \in {0, Base}}

Init ==
    /\ table \in BoundedSeq(Symbol, MaxSymbols) \ {<<>>} /\ rest \in BoundedSeq(Behind, MaxRest)
    /\ headers \in Layouts(1 + Len(table) + Len(rest))
    /\ dynamic \in [symtab : {0, Table, Base + Table}, strings : BOOLEAN]
    /\ i = 1 /\ found = <<>> /\ step = "base"

\* frida_elf_compute_base_from_phdrs (); the headers are at Base + Headers.
ComputeBase ==
    LET phdr == SelectSeq(headers, LAMBDA h : h.type = "phdr")
        load == SelectSeq(headers, LAMBDA h : h.type = "load" /\ h.offset = 0 /\ h.vaddr # 0)
        at == Base + Headers
    IN  IF phdr # <<>> THEN at - phdr[1].offset
        ELSE IF load # <<>> THEN load[1].vaddr ELSE at - (at % Page)

\* The address of the table, with or without the linker's adjustment.
SymbolsBase == IF dynamic.symtab < Base THEN dynamic.symtab + Base ELSE dynamic.symtab

\* frida_compute_elf_region_upper_bound (): the words from address on in the segment it lies in.
UpperBound(address) ==
    LET around ==
            SelectSeq(headers, LAMBDA h :
                h.type = "load" /\ address >= h.vaddr /\ address < h.vaddr + h.size)
    IN  IF around = <<>> THEN 0 ELSE around[1].vaddr + around[1].size - address

\* The first part of frida_elf_enumerate_exports (), which reads the dynamic section.
Start ==
    /\ step = "base"
    /\ step' = IF dynamic.symtab = 0 \/ ~dynamic.strings THEN "missing" ELSE "symbols"
    /\ UNCHANGED <<table, rest, headers, dynamic, i, found>>

\* The k-th word from the beginning of the table on.
Word(k) == (table \o rest)[k]

\* probably_reached_end
ReachedEnd(k) == ~Word(k).inside

\* A symbol that is exported: defined, a function or an object, and not local.
Exported(symbol) == symbol.defined /\ symbol.kind = "func" /\ symbol.bind = "global"

More == i <= UpperBound(SymbolsBase - Base) /\ ~ReachedEnd(i)

\* The loop of frida_elf_enumerate_exports (); func may end it.
Enumerate ==
    /\ step = "symbols" /\ More /\ i' = i + 1
    /\ IF Exported(Word(i)) THEN found' = Append(found, Word(i)) /\ step' \in {"symbols", "stopped"}
       ELSE UNCHANGED <<found, step>>
    /\ UNCHANGED <<table, rest, headers, dynamic>>

End ==
    /\ step = "symbols" /\ ~More /\ step' = "done"
    /\ UNCHANGED <<table, rest, headers, dynamic, i, found>>

Next == Start \/ Enumerate \/ End

Spec == Init /\ [][Next]_vars
-----------------------------------------------------------------------------
\* frida_elf_compute_base_from_phdrs () finds where the module is, for a program that was
\* relocated or not and that lists its headers or not.
BaseIsFound == ComputeBase = Base

Exports ==
    SelectSeq(table, LAMBDA symbol :
        symbol.defined /\ symbol.kind = "func" /\ symbol.bind = "global")

\* What is enumerated are the exported symbols of the table, in its order; and then what the words
\* behind it read as, unless the first of them reads as a name beyond the strings.  Nothing
\* but the layout that linkers choose ensures the latter.
OnlyExports ==
    /\ IsPrefix(found, Exports) \/ IsPrefix(Exports, found)
    /\ Len(found) > Len(Exports) => rest # <<>> /\ rest[1].inside

\* None is left out, unless func ended the enumeration: for a module whose addresses are relative,
\* which is every one that is position-independent.
AllExports ==
    step = "done" /\ (\A h \in ToSet(headers) : h.vaddr < Base) => IsPrefix(Exports, found)
=============================================================================
