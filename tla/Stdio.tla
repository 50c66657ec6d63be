------------------------------- MODULE Stdio -------------------------------
(***************************************************************************)
(* What the C library promises of a stream: a file with one position, and  *)
(* bytes pushed back in front of it.  There are no buffers.                *)
(***************************************************************************)
EXTENDS Naturals, Sequences

CONSTANTS
    Byte,           \* with "newline" among them
    MaxLen,         \* bound on the file's size
    Appending       \* opened with "a"

VARIABLES
    data,       \* the file's content
    pos,        \* the stream's position
    back,       \* pushed back bytes, the next to be read first
    result      \* what the last call returned

vars == <<data, pos, back, result>>

NewLine == "newline"

Bytes(s) == [bytes |-> s, number |-> 0]
Number(n) == [bytes |-> <<>>, number |-> n]
Nothing == Number(0)

After(s, n) == SubSeq(s, n + 1, Len(s))
First(s, n) == SubSeq(s, 1, IF n < Len(s) THEN n ELSE Len(s))

\* The content after writing bytes at a position, with a hole if that is past the end.
Overlay(s, at, bytes) ==
    [i \in 1..(IF Len(s) > at + Len(bytes) THEN Len(s) ELSE at + Len(bytes)) |->
        IF i > at /\ i <= at + Len(bytes) THEN bytes[i - at]
        ELSE IF i <= Len(s) THEN s[i] ELSE "hole"]

\* What is there to read.
Rest == back \o After(data, pos)

\* Up to and with the first delimiter.
Line(s) ==
    IF \E i \in 1..Len(s) : s[i] = NewLine
    THEN First(s, CHOOSE i \in 1..Len(s) :
                     s[i] = NewLine /\ \A k \in 1..(i - 1) : s[k] # NewLine)
    ELSE s

Init == data \in [1..2 -> Byte] /\ pos = 0 /\ back = <<>> /\ result = Nothing

Consume(bytes) ==
    /\ result' = Bytes(bytes)
    /\ back' = After(back, IF Len(bytes) < Len(back) THEN Len(bytes) ELSE Len(back))
    /\ pos' = pos + (IF Len(bytes) > Len(back) THEN Len(bytes) - Len(back) ELSE 0)
    /\ UNCHANGED data

\* fread () and getc (), getline ()
Read(n) == Consume(First(Rest, n))
ReadLine == Consume(Line(Rest))

\* fwrite () and fprintf (), at the position or at the end.
Write(bytes) ==
    LET at == IF Appending THEN Len(data) ELSE pos
    IN  /\ result' = Number(Len(bytes)) /\ pos' = at + Len(bytes)
        /\ data' = Overlay(data, at, bytes) /\ UNCHANGED back

Unget(byte) == result' = Bytes(<<byte>>) /\ back' = <<byte>> \o back /\ UNCHANGED <<data, pos>>
Seek(p) == result' = Nothing /\ pos' = p /\ back' = <<>> /\ UNCHANGED data

\* ftell (), where it can be told: a byte pushed back at the start has no place in the file.
Tell ==
    /\ result' = Number(pos - Len(back)) /\ pos >= Len(back)
    /\ UNCHANGED <<data, pos, back>>

Strings == UNION {[1..n -> Byte] : n \in 1..3}

Next ==
    \/ \E n \in 1..3 : Read(n)
    \/ ReadLine \/ Tell
    \/ \E bytes \in Strings : Write(bytes)
    \/ \E byte \in Byte : Unget(byte)
    \/ \E p \in 0..MaxLen : Seek(p)

Spec == Init /\ [][Next]_vars
=============================================================================
