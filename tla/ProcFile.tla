------------------------------ MODULE ProcFile ------------------------------
(***************************************************************************)
(* frida_parse_file () of src/src/linux/helpers/bootstrapper.c, which      *)
(* hands the lines of a file of /proc to a parser, from a buffer that may  *)
(* end in the middle of one.                                               *)
(*                                                                         *)
(* A byte is its position in the file.  The parser takes whole lines, and  *)
(* says so when there is none, or when it has found what it looks for.     *)
(***************************************************************************)
EXTENDS Naturals, Sequences, FiniteSetsExt

CONSTANTS
    Cap,            \* sizeof (buffer) - 1
    MaxLines        \* bound on the number of lines

ConstantsOK == Cap \in Nat \ {0} /\ MaxLines \in Nat

VARIABLES
    ends,           \* positions after the newlines: ends[i] is where line i ends
    tail,           \* length of what follows the last newline
    at,             \* position of the descriptor
    start,          \* position of the first byte in the buffer; fill_amount is at - start
    cursor,         \* where the parser is called next
    lines,          \* what it was given: first and last position of each
    step

vars == <<ends, tail, at, start, cursor, lines, step>>

Lengths == UNION {[1..n -> 1..Cap] : n \in 0..MaxLines}
Ends(l) == [i \in DOMAIN l |-> LET sum[k \in 0..i] == IF k = 0 THEN 0 ELSE sum[k - 1] + l[k] IN sum[i]]
Size == tail + (IF ends = <<>> THEN 0 ELSE ends[Len(ends)])
Newlines == {ends[i] : i \in DOMAIN ends}

Init ==
    /\ ends \in {Ends(l) : l \in Lengths} /\ tail \in 0..2
    /\ at = 0 /\ start = 0 /\ cursor = 0 /\ lines = <<>> /\ step = "read"

\* A read () returns as many whole lines as there is space for, or fills it with a part of one.
Amounts ==
    LET space == Min({Cap - (at - start), Size - at})
    IN  IF space = 0 THEN {0} ELSE {n \in 1..space : n = space \/ (at + n) \in Newlines}

\* The outer loop.  It ends when the buffer is empty after a read.
Read ==
    /\ step = "read"
    /\ \E n \in Amounts : at' = at + n
    /\ cursor' = start
    /\ step' = IF at' = start THEN "done" ELSE "parse"
    /\ UNCHANGED <<ends, tail, start, lines>>

\* The lines that lie in the buffer from cursor on.
Complete == {e \in Newlines : cursor < e /\ e <= at}

\* The inner loop: a line is parsed; the parser may have found what it looks for.
ParseLine ==
    /\ step = "parse" /\ Complete # {}
    /\ LET end == Min(Complete)
       IN  lines' = Append(lines, <<cursor, end>>) /\ cursor' = end
    /\ step' \in {"parse", "done"}
    /\ UNCHANGED <<ends, tail, at, start>>

\* Mutant: the part of a line at the end of the buffer is dropped.
LeftoverDropped == at

\* ... and kept for the next round, unless the buffer holds nothing else.
Leftover == IF cursor # start THEN cursor ELSE at

ParseRest ==
    /\ step = "parse" /\ Complete = {} /\ step' = "read"
    /\ start' = Leftover
    /\ UNCHANGED <<ends, tail, at, cursor, lines>>

Next == Read \/ ParseLine \/ ParseRest

Spec == Init /\ [][Next]_vars /\ WF_vars(Next)
-----------------------------------------------------------------------------
\* The parser is given the lines of the file, in order, and nothing that is not a whole line,
\* however the reads cut them.
WholeLinesInOrder ==
    \A i \in DOMAIN lines : lines[i] = <<IF i = 1 THEN 0 ELSE ends[i - 1], ends[i]>>

\* At the end of the file every line has been parsed, unless the parser stopped before.
EndIsReached == [][step = "read" /\ step' = "done" => Len(lines) = Len(ends)]_vars

\* The loop ends, on a file that ends in the middle of a line too.
ParsingEnds == <>(step = "done")
=============================================================================
