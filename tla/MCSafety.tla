------------------------------ MODULE MCSafety ------------------------------
(***************************************************************************)
(* The algorithms, and larger instances of components, of which only       *)
(* safety is asked, for TLC. A behaviour is about one component, the one   *)
(* `component` names: it begins with one of the component's initial        *)
(* states, and the variables of the others keep the value 0.               *)
(***************************************************************************)
EXTENDS Integers, Sequences, FiniteSets, TLC

CONSTANT Alike      \* the apps of the launcher, or the threads of the shim or of a traced process

VARIABLES
    component,
    up, text,
    android, exports, api, mode, total_missing, api_step,
    segments, next, memory, previous_end, failed,
    table, behind, headers, dynamic, i, found, step,
    format, meant, image, page, cursor, done,
    parent, label, terminal, swapped, name, node, rest, child, result,
    maps, offset, who, index, base, stage, library_path,
    publicKey, privateKey, signature, number, out,
    directory, fetched, buf, cur, returned, ended, errors,
    map_gen, mapped, pc, ev, stopped, map_events, running, handler, snap, pending, incomplete,
    hist, lost, missed, raced, evictions,
    file, off, rbuf, wbuf, ungot, buf_mode, eof, err, stdio_result, last, accepted, stdio_errors,
    handle, fd, shim_table, lock, todo, shim_call, entries, block, slot, shim_registered, ran,
    shim_phase,
    package, app, hooked, named, link, zygote_stopped, load, recorded, revert, connections,
    pending_spawn, gating, requests, spawn, promise, resuming, phase, closing, lost_apps,
    role, connected, pipe, peer, ready, ops, pipe_pc, io, with, cancelled, cancel, orphans,
    spoilt, pipe_last

pathVars == <<up, text>>
apiVars == <<android, exports, api, mode, total_missing, api_step>>
elfVars == <<segments, next, memory, previous_end, failed>>
symbolVars == <<table, behind, headers, dynamic, i, found, step>>
fixupVars == <<format, meant, image, page, cursor, done>>
trieVars == <<parent, label, terminal, swapped, name, node, rest, child, result>>
libraryVars == <<maps, offset, who, index, base, stage, library_path>>
derVars == <<publicKey, privateKey, signature, number, out>>
dirVars == <<directory, fetched, buf, cur, returned, ended, errors>>
mapVars == <<map_gen, mapped, pc, ev, stopped, map_events, running, handler, snap, pending,
             incomplete, hist, lost, missed, raced, evictions>>
stdioVars == <<file, off, rbuf, wbuf, ungot, buf_mode, eof, err, stdio_result, last, accepted,
               stdio_errors>>
shimVars == <<handle, fd, shim_table, lock, todo, shim_call, entries, block, slot,
              shim_registered, ran, shim_phase>>
appVars == <<package, app, hooked, named, link, zygote_stopped, load, recorded, revert,
             connections, pending_spawn, gating, requests, spawn, promise, resuming, phase,
             closing, lost_apps>>
pipeVars == <<role, connected, pipe, peer, ready, ops, pipe_pc, io, with, cancelled, cancel,
              orphans, spoilt, pipe_last>>
vars == <<component, pathVars, apiVars, elfVars, symbolVars, fixupVars, trieVars, libraryVars,
          derVars, dirVars, mapVars, stdioVars, shimVars, appVars, pipeVars>>

Path == INSTANCE DentryPath WITH
    Names <- {<<"a">>, <<"b", "b">>, <<"a", "b", "c">>}, MaxUp <- 5, MAX_PATH_DEPTH <- 4,
    MAX_BUF_BUILDER_SIZE <- 16, MAX_PATH <- 8

Api == INSTANCE LibcApi WITH
    Basic <- {"mmap"}, step <- api_step

Elf == INSTANCE MapElf WITH
    Page <- 4, Top <- 8, MaxSize <- 5

Symbols == INSTANCE ElfSymbols WITH
    Base <- 8, Page <- 4, MaxSymbols <- 2, MaxRest <- 2, rest <- behind

Fixups == INSTANCE ChainedFixups WITH
    Preferred <- 40, Actual <- 60, PageSize <- 3, Pages <- 1, Wide <- 4, Narrow <- 2,
    AddendRange <- 8, MaxItems <- 2, memory <- image

Trie == INSTANCE ExportsTrie WITH
    Char <- {"a", "b"}, MaxLabel <- 2, MaxName <- 4, Radix <- 2

Library == INSTANCE QnxLibrary WITH
    MaxMappings <- 2, MaxOffset <- 1, path <- library_path

Der == INSTANCE DerCertificate WITH
    Base <- 8, Width <- 3, MaxLength <- 8

Dir == INSTANCE LibcDir WITH
    Lengths <- {1, 2, 3}, Count <- 4, Cap <- 6, NameSize <- 2, MaxErrors <- 2

\* Mappings without a file are reported too, and a stop may come late.
Order == INSTANCE MapTracking WITH
    Threads <- Alike, NumPages <- 2, RingSize <- 1, MAX_PENDING <- 1,
    PromptStop <- FALSE, AnonMappings <- TRUE, MaxGen <- 3, MaxEvictions <- 0

\* One thread, whose changes cut mappings at the head, at the tail and in the middle.
Cuts == INSTANCE MapTracking WITH
    Threads <- {"t1"}, NumPages <- 3, RingSize <- 1, MAX_PENDING <- 1, PromptStop <- TRUE,
    AnonMappings <- FALSE, MaxGen <- 3, MaxEvictions <- 0

\* Streams of single bytes, and of wide characters.
Plain == INSTANCE LibcStdio WITH
    Byte <- {"a", "newline"}, Cap <- 2, UngotSize <- 2, MaxLen <- 3, MaxErrors <- 0,
    Careful <- TRUE, Appending <- FALSE, Ops <- {"read", "line", "seek", "printf", "setvbuf"},
    result <- stdio_result, errors <- stdio_errors

Wide == INSTANCE LibcStdio WITH
    Byte <- {"lead", "tail"}, Cap <- 2, UngotSize <- 2, MaxLen <- 4, MaxErrors <- 0,
    Careful <- TRUE, Appending <- FALSE, Ops <- {"read", "wide"}, result <- stdio_result,
    errors <- stdio_errors

Shim == INSTANCE LibcShim WITH
    Threads <- Alike, Handles <- {"h1", "h2"}, MaxHandlers <- 3, OneLoader <- TRUE,
    table <- shim_table, call <- shim_call, phase <- shim_phase, registered <- shim_registered

\* A stream that appends, and whose write () calls may fail.
Errors == INSTANCE LibcStdio WITH
    Byte <- {"a", "newline"}, Cap <- 2, UngotSize <- 2, MaxLen <- 6, MaxErrors <- 2,
    Careful <- TRUE, Appending <- TRUE, Ops <- {}, result <- stdio_result,
    errors <- stdio_errors

Apps == INSTANCE Zymbiote WITH
    App <- Alike, Package <- {"p"}, Chrome <- "chrome", Coincide <- FALSE,
    stopped <- zygote_stopped, pending <- pending_spawn, lost <- lost_apps

Pipe == INSTANCE WindowsPipe WITH
    MaxOps <- 2, pc <- pipe_pc, last <- pipe_last

\* No component tells its apps or its threads apart.
Symmetry == Permutations(Alike)

ASSUME Path!ConstantsOK /\ Api!ConstantsOK /\ Elf!ConstantsOK /\ Symbols!ConstantsOK
    /\ Fixups!ConstantsOK /\ Trie!ConstantsOK /\ Library!ConstantsOK /\ Der!ConstantsOK
    /\ Dir!ConstantsOK /\ Order!ConstantsOK /\ Cuts!ConstantsOK /\ Plain!ConstantsOK
    /\ Wide!ConstantsOK /\ Shim!ConstantsOK /\ Errors!ConstantsOK /\ Pipe!ConstantsOK

Init ==
    /\ component \in {"path", "api", "elf", "symbols", "fixups", "trie", "library", "der",
                      "dir", "order", "cuts", "plain", "wide", "shim", "stdio", "apps", "pipe"}
    /\ IF component = "path" THEN Path!Init
       ELSE up = 0 /\ text = 0
    /\ IF component = "api" THEN Api!Init
       ELSE android = 0 /\ exports = 0 /\ api = 0 /\ mode = 0 /\ total_missing = 0
            /\ api_step = 0
    /\ IF component = "elf" THEN Elf!Init
       ELSE segments = 0 /\ next = 0 /\ memory = 0 /\ previous_end = 0 /\ failed = 0
    /\ IF component = "symbols" THEN Symbols!Init
       ELSE table = 0 /\ behind = 0 /\ headers = 0 /\ dynamic = 0 /\ i = 0 /\ found = 0 /\ step = 0
    /\ IF component = "fixups" THEN Fixups!Init
       ELSE format = 0 /\ meant = 0 /\ image = 0 /\ page = 0 /\ cursor = 0 /\ done = 0
    /\ IF component = "trie" THEN Trie!Init
       ELSE parent = 0 /\ label = 0 /\ terminal = 0 /\ swapped = 0 /\ name = 0 /\ node = 0
            /\ rest = 0 /\ child = 0 /\ result = 0
    /\ IF component = "library" THEN Library!Init
       ELSE maps = 0 /\ offset = 0 /\ who = 0 /\ index = 0 /\ base = 0 /\ stage = 0
            /\ library_path = 0
    /\ IF component = "der" THEN Der!Init
       ELSE publicKey = 0 /\ privateKey = 0 /\ signature = 0 /\ number = 0 /\ out = 0
    /\ IF component = "dir" THEN Dir!Init
       ELSE directory = 0 /\ fetched = 0 /\ buf = 0 /\ cur = 0 /\ returned = 0 /\ ended = 0
            /\ errors = 0
    /\ IF component = "order" THEN Order!Init
       ELSE IF component = "cuts" THEN Cuts!Init
       ELSE map_gen = 0 /\ mapped = 0 /\ pc = 0 /\ ev = 0 /\ stopped = 0 /\ map_events = 0
            /\ running = 0 /\ handler = 0 /\ snap = 0 /\ pending = 0 /\ incomplete = 0
            /\ hist = 0 /\ lost = 0 /\ missed = 0 /\ raced = 0 /\ evictions = 0
    /\ IF component = "plain" THEN Plain!Init
       ELSE IF component = "wide" THEN Wide!Init
       ELSE IF component = "stdio" THEN Errors!Init
       ELSE file = 0 /\ off = 0 /\ rbuf = 0 /\ wbuf = 0 /\ ungot = 0 /\ buf_mode = 0 /\ eof = 0
            /\ err = 0 /\ stdio_result = 0 /\ last = 0 /\ accepted = 0 /\ stdio_errors = 0
    /\ IF component = "shim" THEN Shim!Init
       ELSE handle = 0 /\ fd = 0 /\ shim_table = 0 /\ lock = 0 /\ todo = 0 /\ shim_call = 0
            /\ entries = 0 /\ block = 0 /\ slot = 0 /\ shim_registered = 0 /\ ran = 0
            /\ shim_phase = 0
    /\ IF component = "apps" THEN Apps!Init
       ELSE package = 0 /\ app = 0 /\ hooked = 0 /\ named = 0 /\ link = 0 /\ zygote_stopped = 0
            /\ load = 0 /\ recorded = 0 /\ revert = 0 /\ connections = 0 /\ pending_spawn = 0
            /\ gating = 0 /\ requests = 0 /\ spawn = 0 /\ promise = 0 /\ resuming = 0
            /\ phase = 0 /\ closing = 0 /\ lost_apps = 0
    /\ IF component = "pipe" THEN Pipe!Init
       ELSE role = 0 /\ connected = 0 /\ pipe = 0 /\ peer = 0 /\ ready = 0 /\ ops = 0
            /\ pipe_pc = 0 /\ io = 0 /\ with = 0 /\ cancelled = 0 /\ cancel = 0 /\ orphans = 0
            /\ spoilt = 0 /\ pipe_last = 0

Others(c) ==
    /\ component = c /\ UNCHANGED component
    /\ c # "path" => UNCHANGED pathVars
    /\ c # "api" => UNCHANGED apiVars
    /\ c # "elf" => UNCHANGED elfVars
    /\ c # "symbols" => UNCHANGED symbolVars
    /\ c # "fixups" => UNCHANGED fixupVars
    /\ c # "trie" => UNCHANGED trieVars
    /\ c # "library" => UNCHANGED libraryVars
    /\ c # "der" => UNCHANGED derVars
    /\ c # "dir" => UNCHANGED dirVars
    /\ c \notin {"order", "cuts"} => UNCHANGED mapVars
    /\ c \notin {"plain", "wide", "stdio"} => UNCHANGED stdioVars
    /\ c # "shim" => UNCHANGED shimVars
    /\ c # "apps" => UNCHANGED appVars
    /\ c # "pipe" => UNCHANGED pipeVars

Next ==
    \/ Others("path") /\ Path!Next
    \/ Others("api") /\ Api!Next
    \/ Others("elf") /\ Elf!Next
    \/ Others("symbols") /\ Symbols!Next
    \/ Others("fixups") /\ Fixups!Next
    \/ Others("trie") /\ Trie!Next
    \/ Others("library") /\ Library!Next
    \/ Others("der") /\ Der!Next
    \/ Others("dir") /\ Dir!Next
    \/ Others("order") /\ Order!Next
    \/ Others("cuts") /\ Cuts!Next
    \/ Others("plain") /\ Plain!Next
    \/ Others("wide") /\ Wide!Next
    \/ Others("shim") /\ Shim!Next
    \/ Others("stdio") /\ Errors!Next
    \/ Others("apps") /\ Apps!Next
    \/ Others("pipe") /\ Pipe!Next

Spec == Init /\ [][Next]_vars

\* Of the launcher, a behaviour is followed until it has lost a second process or record.
OneLoss == component = "apps" => Cardinality(lost_apps) <= 1
-----------------------------------------------------------------------------
\* An image in memory is what its file means.  Of an ELF image, every byte of a segment is the
\* file's, or zero from p_filesz on, whatever the alignments, and no other page is mapped.  Of a
\* Mach-O image, every pointer of a chain is where the image is, with its addend's sign, in
\* every format, and nothing else was touched.
ImageIsRight ==
    /\ component = "elf" => Elf!ImageIsRight /\ Elf!NothingElseIsMapped
    /\ component = "fixups" => Fixups!PointersAreRight /\ Fixups!ChainsAreFollowed

\* A symbol is found exactly when it is there, with its address: in the dynamic symbols of an ELF
\* module, relocated or not; in an exports trie, names that are the beginning of others
\* included; by its offset in the injector's own copy of a library; and the loader is started
\* only when every function it may call was found, under whichever name.
SymbolIsRight ==
    /\ component = "symbols" =>
          Symbols!BaseIsFound /\ Symbols!OnlyExports /\ Symbols!AllExports
    /\ component = "trie" => Trie!FindsTheExport
    /\ component = "library" => Library!ResolvedIsRight
    /\ component = "api" => Api!ResolvedIsComplete /\ Api!CountIsExact

\* What is put into a format of limited room reads back.  A certificate is X.509 with what was put
\* in, its integers minimal, and the key is PKCS #8; readdir () returns the kernel's entries
\* in order, each once, and the end only then; and a path that is attached shows the file's
\* path, terminated, but for the character that the mask costs.
ReadsBack ==
    /\ component = "der" =>
          Der!CertificateReadsBack /\ Der!IntegersAreMinimal /\ Der!KeyReadsBack
    /\ component = "dir" => Dir!InOrder /\ Dir!EndIsTheEnd /\ Dir!NameFits
    /\ component = "path" => Path!ShowsBeginning /\ Path!LosesAtMostOne /\ Path!IsTerminated

\* What SymbolResolver has recorded about a generation it has reached is what was mapped then, page
\* by page, in whatever order the changes arrived and however they cut mappings into pieces, and
\* a change that was lost holds it back until the next snapshot; except for a change between the
\* snapshot and generation 1, which nobody reports.  The binary search returns what is recorded as
\* long as the list is in the order it expects, and nothing wrong when it is not.  A process that
\* stopped for a snapshot has its SIGCONT coming, unless the request was answered before it stopped.
ViewIsExact ==
    /\ component = "order" =>
          /\ Order!TypeOK /\ Order!RecordsAreExact /\ Order!SearchFinds
          /\ Order!LostGenerationBlocks /\ Order!StopHasWaker
    /\ component = "cuts" => Cuts!TypeOK /\ Cuts!RecordsAreExact /\ Cuts!SearchFinds

\* The buffered stream behaves as the stream of the C library: reads return the bytes at the
\* position, writes take effect at it in order, seeks and pushed back bytes count as they should,
\* with all three ways of buffering, however much each read () gets.
ImplementsStdio ==
    /\ component = "plain" => Plain!S!Init
    /\ component = "wide" => Wide!S!Init
    /\ [][/\ component = "plain" => Plain!StdioStep
          /\ component = "wide" => Wide!StdioStep]_vars

\* The shim keeps what it was given.  The streams that flush_all visits are alive (the asserts of
\* frida_file_get_impl ()) while other threads close theirs; once the shim is gone no descriptor is
\* left open and every exit handler has run, once, after those registered after it; and bytes
\* that fwrite () reported as written are in the file or in the buffer when write () fails.
StreamsAreKept ==
    /\ component = "shim" => Shim!VisitedIsAlive /\ Shim!NothingIsLeft /\ Shim!HandlersRun
    /\ component = "stdio" => Errors!NothingAcceptedIsLost

\* An app that the launcher let go runs without the hooks, with the payload's page as it was and the
\* name freed; except when a patch could not be recorded, or the launcher had been closed before.
\* One that spawn () returned, or that is reported as pending, stays until somebody resumes it.
RunsUnpatched ==
    component = "apps" => Apps!RunsUnpatched /\ Apps!NothingIsKept /\ Apps!HeldUntilResumed

\* When an operation on a pipe has returned its request is over, for the OVERLAPPED was on the stack,
\* and it fails only when the pipe is closed or broken: cancelling the other stream does not
\* affect it.  Of the stream itself a cancelled operation is excepted, which does not wait for what
\* CancelIo () asks for, and those after it, for which the event stays signalled.
OperationsAreOver == component = "pipe" => Pipe!NothingInFlight /\ Pipe!FailsForAReason
=============================================================================
