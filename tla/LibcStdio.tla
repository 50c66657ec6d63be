----------------------------- MODULE LibcStdio -----------------------------
(***************************************************************************)
(* The streams of src/lib/payload/libc-shim.c, which replaces the C        *)
(* library's stdio inside the agent: a FridaFile with a read buffer, a     *)
(* write buffer and eight bytes for ungetc (), over a file descriptor.     *)
(*                                                                         *)
(* One stream.  Each call is one step; how much a read () returns is up to *)
(* the kernel, and a write () may fail after a part, up to MaxErrors       *)
(* times.  The caller keeps to the rules of ISO C for streams that are     *)
(* read and written (a seek between them) and, if Careful, to three more   *)
(* that this implementation needs: see Synced.                             *)
(***************************************************************************)
EXTENDS Naturals, Sequences, SequencesExt

CONSTANTS
    Byte,           \* with "newline" among them
    Cap,            \* rcap and wcap
    UngotSize,      \* G_N_ELEMENTS (f->ungot_buf)
    MaxLen,         \* bound on the file's size
    MaxErrors,      \* bound on failing write () calls
    Careful,
    Appending,      \* opened with "a"
    Ops             \* the calls the caller makes

ConstantsOK == {Cap, UngotSize, MaxLen, MaxErrors} \subseteq Nat /\ Cap > 0

VARIABLES
    file, off,      \* the file and the descriptor's offset in it
    rbuf,           \* rbuf[rpos .. rlen)
    wbuf,           \* wbuf[0 .. wlen)
    ungot,          \* ungot_buf[0 .. ungot_len), the last is the next to be read
    buf_mode, eof, err,
    result,         \* what the last call returned
    last,           \* whether the last transfer was a read or a write
    accepted,       \* all bytes that fwrite () reported as written, of a stream that appends
    errors

vars == <<file, off, rbuf, wbuf, ungot, buf_mode, eof, err, result, last, accepted, errors>>

\* The file as the kernel sees it after a write () of some bytes.
K == INSTANCE Stdio WITH data <- file, pos <- off, back <- <<>>, result <- result

Kernel(f, o, bytes) ==
    IF bytes = <<>> THEN [file |-> f, off |-> o]
    ELSE IF Appending THEN [file |-> f \o bytes, off |-> Len(f) + Len(bytes)]
    ELSE [file |-> K!Overlay(f, o, bytes), off |-> o + Len(bytes)]

\* frida_file_new () and frida_fopen_impl (): an existing file, fully buffered, or one of the
\* streams made by frida_libc_shim_init (), which are line buffered or unbuffered.
Init ==
    /\ file \in [1..2 -> Byte] /\ off = 0 /\ rbuf = <<>> /\ wbuf = <<>> /\ ungot = <<>>
    /\ buf_mode \in {"_IOFBF", "_IOLBF", "_IONBF"}
    /\ eof = FALSE /\ err = FALSE /\ result = K!Nothing /\ last = "none" /\ accepted = <<>>
    /\ errors = 0

\* The caller's care: no byte is buffered in either direction when it asks where it is, seeks
\* from there, or prints past the buffer.
Synced == Careful => rbuf = <<>> /\ wbuf = <<>> /\ ungot = <<>>

MayRead == last # "write" /\ ~Appending
MayWrite == last # "read"
-----------------------------------------------------------------------------
\* What there is to read, and how it is taken: pushed back bytes first, then the buffer, then
\* the file.
Pending == Reverse(ungot) \o rbuf
Readable == Pending \o K!After(file, off)

\* frida_file_fill_read (): once the buffer is used up, a read () gets up to rcap bytes, of which
\* some may be left over.  Unbuffered, read () gets what is wanted.
Take(bytes) ==
    LET n == Len(bytes)
        u == Len(ungot)
        fromFile == IF n > Len(Pending) THEN n - Len(Pending) ELSE 0
    IN  /\ result' = K!Bytes(bytes)
        /\ ungot' = K!First(ungot, IF n < u THEN u - n ELSE 0)
        /\ IF fromFile = 0
           THEN rbuf' = K!After(rbuf, IF n > u THEN n - u ELSE 0) /\ UNCHANGED off
           ELSE \E ahead \in 0..(IF buf_mode = "_IONBF" THEN 0 ELSE Cap - 1) :
                   /\ off + fromFile + ahead <= Len(file)
                   /\ rbuf' = SubSeq(file, off + fromFile + 1, off + fromFile + ahead)
                   /\ off' = off + fromFile + ahead

\* A call that gets fewer bytes than it wants has met the end of the file.
ReadCall(bytes, short, invalid) ==
    /\ MayRead /\ Take(bytes) /\ last' = "read" /\ eof' = (eof \/ short) /\ err' = (err \/ invalid)
    /\ UNCHANGED <<file, wbuf, buf_mode, accepted, errors>>

\* fread (); getc () is fread () of one byte.
Fread ==
    \E n \in 1..3 : ReadCall(K!First(Readable, n), Len(Readable) < n, FALSE)

\* getdelim (): getc () until the delimiter.
Getdelim ==
    /\ "line" \in Ops
    /\ ReadCall(K!Line(Readable), \A i \in DOMAIN Readable : Readable[i] # K!NewLine, FALSE)

\* fgets (), which also stops when the caller's buffer is full.
Fgets ==
    /\ "line" \in Ops
    /\ \E size \in 2..3 :
          LET line == K!First(K!Line(Readable), size - 1)
          IN  ReadCall(line, Len(line) < size - 1 /\ K!NewLine \notin Range(line), FALSE)

\* frida_utf8_expected_len (): 0 for a byte that starts no character.
ExpectedLen(byte) == CASE byte = "lead" -> 2 [] byte = "tail" -> 0 [] OTHER -> 1

\* fgetwc (): the bytes of one character, or an error once they are read.
Fgetwc ==
    /\ "wide" \in Ops /\ Readable # <<>>
    /\ LET need == ExpectedLen(Readable[1])
           bytes == K!First(Readable, IF need = 0 THEN 1 ELSE need)
           valid == Len(bytes) = need /\ (need = 2 => bytes[2] = "tail")
       IN  ReadCall(bytes, Len(bytes) < need, ~valid)

\* ungetc (), and ungetwc () of a character of one byte.
Ungetc(byte) ==
    /\ MayRead /\ Len(ungot) < UngotSize
    /\ ungot' = Append(ungot, byte) /\ eof' = FALSE /\ result' = K!Bytes(<<byte>>)
    /\ UNCHANGED <<file, off, rbuf, wbuf, buf_mode, err, last, accepted, errors>>
-----------------------------------------------------------------------------
\* The stream while a call writes; "failed" once a write () did.
Writing == [file |-> file, off |-> off, wbuf |-> wbuf, failed |-> FALSE]

\* frida_file_flush_write (): the loop of write () calls.  If one fails, the buffer stays as it
\* was, with the part that was already written.
Flush(s, fails, part) ==
    LET failing == fails /\ part < Len(s.wbuf)
        k == Kernel(s.file, s.off, IF failing THEN K!First(s.wbuf, part) ELSE s.wbuf)
    IN  [file |-> k.file, off |-> k.off, wbuf |-> IF failing THEN s.wbuf ELSE <<>>,
         failed |-> failing]

\* The loop of fwrite (): fills the buffer, flushes it when it is full and, if line buffered,
\* after a piece with a newline.  It stops when a flush fails.
RECURSIVE Buffer(_, _, _, _)
Buffer(s, bytes, fails, part) ==
    IF bytes = <<>> THEN [s |-> s, left |-> <<>>]
    ELSE LET room == IF Len(s.wbuf) = Cap THEN Flush(s, fails, part) ELSE s
             take == K!First(bytes, Cap - Len(room.wbuf))
             filled == [room EXCEPT !.wbuf = @ \o take]
             done == IF buf_mode = "_IOLBF" /\ \E i \in DOMAIN take : take[i] = K!NewLine
                     THEN Flush(filled, fails, part) ELSE filled
         IN  IF room.failed THEN [s |-> room, left |-> bytes]
             ELSE IF done.failed THEN [s |-> done, left |-> K!After(bytes, Len(take))]
             ELSE Buffer(done, K!After(bytes, Len(take)), fails, part)

\* Without a buffer fwrite () is a loop of write () calls.
Direct(bytes, fails, part) ==
    LET failing == fails /\ part < Len(bytes)
        k == Kernel(file, off, IF failing THEN K!First(bytes, part) ELSE bytes)
    IN  [s |-> [Writing EXCEPT !.file = k.file, !.off = k.off, !.failed = failing],
         left |-> IF failing THEN K!After(bytes, part) ELSE <<>>]

Accept(bytes) == accepted' = IF Appending THEN accepted \o bytes ELSE <<>>

Outcome(s) ==
    /\ file' = s.file /\ off' = s.off /\ wbuf' = s.wbuf /\ err' = (err \/ s.failed)
    /\ errors' = errors + (IF s.failed THEN 1 ELSE 0) /\ errors' <= MaxErrors

\* fwrite (), which fputc () and fputs () call.
Fwrite(bytes) ==
    /\ MayWrite /\ Len(file) + Len(wbuf) + Len(bytes) <= MaxLen
    /\ \E fails \in BOOLEAN, part \in 0..1 :
          LET out == IF buf_mode = "_IONBF" THEN Direct(bytes, fails, part)
                     ELSE Buffer(Writing, bytes, fails, part)
              done == Len(bytes) - Len(out.left)
          IN  /\ Outcome(out.s) /\ result' = K!Number(done)
              /\ Accept(K!First(bytes, done))
    /\ last' = "write"
    /\ UNCHANGED <<rbuf, ungot, buf_mode, eof>>

\* fprintf () and printf (): frida_write_formatted_to_fd () goes past the buffer.
Fprintf(bytes) ==
    /\ "printf" \in Ops /\ MayWrite /\ Synced /\ Len(file) + Len(bytes) <= MaxLen
    /\ LET k == Kernel(file, off, bytes) IN file' = k.file /\ off' = k.off
    /\ result' = K!Number(Len(bytes)) /\ last' = "write" /\ Accept(bytes)
    /\ UNCHANGED <<rbuf, wbuf, ungot, buf_mode, eof, err, errors>>

\* fflush (), of this stream or of all.
Fflush ==
    /\ \E fails \in BOOLEAN, part \in 0..1 : Outcome(Flush(Writing, fails, part))
    /\ last' = IF last = "write" /\ errors' = errors THEN "none" ELSE last
    /\ UNCHANGED <<rbuf, ungot, buf_mode, eof, result, accepted>>

\* setvbuf () and its kin: flushes, and drops what was read ahead.
Setvbuf ==
    /\ "setvbuf" \in Ops /\ Synced
    /\ LET s == Flush(Writing, FALSE, 0) IN file' = s.file /\ off' = s.off /\ wbuf' = <<>>
    /\ buf_mode' \in {"_IOFBF", "_IOLBF", "_IONBF"} /\ rbuf' = <<>>
    /\ UNCHANGED <<ungot, eof, err, result, last, accepted, errors>>

\* Mutant: what was pushed back survives the seek.
SeekKeepsUngot(to) ==
    /\ LET s == Flush(Writing, FALSE, 0) IN file' = s.file /\ wbuf' = s.wbuf
    /\ rbuf' = <<>> /\ eof' = FALSE /\ off' = to /\ UNCHANGED ungot

\* frida_fseek_impl (): flush, drop the buffers, lseek ().
Seek(to) ==
    /\ LET s == Flush(Writing, FALSE, 0) IN file' = s.file /\ wbuf' = s.wbuf
    /\ rbuf' = <<>> /\ ungot' = <<>> /\ eof' = FALSE /\ off' = to

\* fseek () with SEEK_SET, or with SEEK_CUR, which counts from the descriptor's offset; rewind ().
Fseek ==
    /\ "seek" \in Ops /\ ~Appending /\ result' = K!Nothing
    /\ \/ \E to \in 0..MaxLen : Seek(to)
       \/ \E by \in 0..2 : Synced /\ off + by <= MaxLen /\ Seek(off + by)
    /\ last' = "none" /\ err' \in {err, FALSE}
    /\ UNCHANGED <<buf_mode, accepted, errors>>

\* frida_ftell_impl (), which does not count the write buffer.
FtellImpl == off - Len(rbuf) - Len(ungot)

Ftell ==
    /\ Careful => wbuf = <<>>
    /\ off >= Len(rbuf) + Len(ungot)
    /\ result' = K!Number(FtellImpl)
    /\ UNCHANGED <<file, off, rbuf, wbuf, ungot, buf_mode, eof, err, last, accepted, errors>>

Strings == UNION {[1..n -> Byte] : n \in 1..3}

Next ==
    \/ "read" \in Ops /\ (Fread \/ Ftell \/ \E byte \in Byte : Ungetc(byte))
    \/ Getdelim \/ Fgets \/ Fgetwc \/ Fflush \/ Setvbuf \/ Fseek
    \/ \E bytes \in Strings : Fwrite(bytes) \/ Fprintf(bytes)

Spec == Init /\ [][Next]_vars
-----------------------------------------------------------------------------
\* The stream a caller sees: the file with the write buffer in it, the position before what was
\* read ahead and after what is still to be written, and the pushed back bytes in front.
S == INSTANCE Stdio WITH
        data <- Kernel(file, off, wbuf).file,
        pos <- Kernel(file, off, wbuf).off - Len(rbuf),
        back <- Reverse(ungot)

\* The buffered stream behaves as the stream of the C library: reads return the bytes at the
\* position, writes take effect at it in order, seeks and pushed back bytes count as they should,
\* with all three ways of buffering, however much each read () gets.
ImplementsStdio == S!Spec

\* The step of ImplementsStdio, for two instances side by side.
StdioStep == [S!Next]_(S!vars)

\* a is what remains of b when some of its bytes are left out.
Embedded(a, b) ==
    \E f \in [DOMAIN a -> 0..Len(b)] :
        \A i \in DOMAIN a : f[i] # 0 /\ a[i] = b[f[i]] /\ \A k \in 1..(i - 1) : f[k] < f[i]

\* Bytes that fwrite () reported as written are in the file or in the write buffer, in order,
\* also when write () fails on the way.  (What was written before the failure is written again.)
NothingAcceptedIsLost == Embedded(accepted, file \o wbuf)
=============================================================================
