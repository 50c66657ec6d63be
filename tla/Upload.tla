------------------------------- MODULE Upload -------------------------------
(***************************************************************************)
(* How the gadget gets into an app on a device: Session.upload () and      *)
(* perform_upload () of src/src/fruity/injector.vala on the host, and the  *)
(* code they run on the app's main thread, helpers/upload-listener.c and   *)
(* helpers/upload-receiver.c of src/src/fruity.                            *)
(*                                                                         *)
(* The connection is a sequence of items: the session ID, commands, and    *)
(* the data of a segment, which follows its command.  The host writes them *)
(* without waiting for the app.                                            *)
(***************************************************************************)
EXTENDS Naturals, Sequences, SequencesExt

CONSTANTS
    Segments,       \* number of segments of the gadget
    MaxStrangers    \* bound on the connections of others

ConstantsOK == {Segments, MaxStrangers} \subseteq Nat

VARIABLES
    script,         \* what perform_upload () writes
    host,           \* upload (): listening, receiving, or what it returned
    sent,           \* number of items of script that were written
    client,         \* perform_upload (): idle, writing, checking or gone
    queue,          \* connections in the backlog
    peer,           \* whose connection client_fd is
    stream,         \* items on the way to the app
    back,           \* number of ACK_MAGICs on the way to the host
    app,            \* frida_listen () and frida_receive ()
    greeted,        \* ~expecting_client
    written, fixed, protected,   \* segments
    result,         \* what the constructors stored
    failure,        \* the call of frida_listen () that failed, from 1 on
    reported,       \* error_code
    strangers

memory == <<written, fixed, protected, result>>
vars == <<script, host, sent, client, queue, peer, stream, back, app, greeted, memory, failure, reported, strangers>>

Command(name, segment) == <<name, segment>>
Cmd(name) == Command(name, 0)
Each(item(_)) == FlattenSeq([s \in 1..Segments |-> item(s)])

\* Mutant: the constructors run before the segments are protected.
ScriptEarly(threaded, chained) ==
    <<Cmd("sid")>>
    \o Each(LAMBDA s : <<Command("write", s), Command("data", s)>>)
    \o (IF threaded THEN <<Cmd("fix")>> ELSE <<>>) \o (IF chained THEN <<Cmd("fix")>> ELSE <<>>)
    \o <<Cmd("construct")>> \o Each(LAMBDA s : <<Command("protect", s)>>) \o <<Cmd("check")>>

\* perform_upload (); APPLY_THREADED and PROCESS_FIXUPS are for modules that have such items.
Script(threaded, chained) ==
    <<Cmd("sid")>>
    \o Each(LAMBDA s : <<Command("write", s), Command("data", s)>>)
    \o (IF threaded THEN <<Cmd("fix")>> ELSE <<>>) \o (IF chained THEN <<Cmd("fix")>> ELSE <<>>)
    \o Each(LAMBDA s : <<Command("protect", s)>>)
    \o <<Cmd("construct"), Cmd("check")>>

Init ==
    /\ script \in {Script(threaded, chained) : threaded, chained \in BOOLEAN}
    /\ host = "listening" /\ sent = 0 /\ client = "idle" /\ queue = <<>> /\ peer = "none"
    /\ stream = <<>> /\ back = 0 /\ app = "listen" /\ greeted = FALSE
    /\ written = {} /\ fixed = FALSE /\ protected = {} /\ result = "none"
    /\ failure = 0 /\ reported = 0 /\ strangers = 0

\* The top byte of what frida_listen () returns, which is error_code << 57, as upload () and the
\* listener's test program read it: result >> 56.
ErrorCode(step) == (step * 2^(57 - 56)) % 256

\* frida_listen (); each of its five calls may fail, and closes the socket then.
Listen ==
    /\ app = "listen"
    /\ \/ app' = "accept" /\ host' = "receiving" /\ client' = "connecting" /\ UNCHANGED <<failure, reported>>
       \/ /\ app' = "done" /\ host' = "failed" /\ UNCHANGED client
          /\ failure' \in 1..5 /\ reported' = ErrorCode(failure')
    /\ UNCHANGED <<script, sent, queue, peer, stream, back, greeted, memory, strangers>>
-----------------------------------------------------------------------------
(* The host. *)

Connect ==
    /\ client = "connecting"
    /\ \/ client' = "writing" /\ queue' = Append(queue, "host")
       \/ client' = "gone" /\ UNCHANGED queue
    /\ UNCHANGED <<script, host, sent, peer, stream, back, app, greeted, memory, failure, reported, strangers>>

\* Whether perform_upload () has to wait for an ACK_MAGIC before it goes on.
MustWait == sent = 1 /\ back = 0

Write ==
    /\ client = "writing" /\ sent < Len(script) /\ ~MustWait
    /\ sent' = sent + 1 /\ stream' = Append(stream, script[sent + 1])
    /\ back' = IF sent = 1 THEN 0 ELSE back
    /\ UNCHANGED <<script, host, client, queue, peer, app, greeted, memory, failure, reported, strangers>>

\* After the last ACK_MAGIC, or when the connection fails, the stream is closed.
CloseStream ==
    /\ client = "writing"
    /\ client' = "gone"
    /\ UNCHANGED <<script, host, sent, queue, peer, stream, back, app, greeted, memory, failure, reported, strangers>>

\* Somebody else connects to the port.
Stranger ==
    /\ app \in {"accept", "sid"} /\ strangers < MaxStrangers /\ strangers' = strangers + 1
    /\ queue' = Append(queue, "stranger")
    /\ UNCHANGED <<script, host, sent, client, peer, stream, back, app, greeted, memory, failure, reported>>
-----------------------------------------------------------------------------
(* The app. *)

\* accept () may fail for a connection that is gone; the listener is closed then.
Accept ==
    /\ app = "accept" /\ queue # <<>> /\ queue' = Tail(queue)
    /\ \/ peer' = Head(queue) /\ app' = "sid" /\ UNCHANGED host
       \/ app' = "done" /\ host' = "failed" /\ UNCHANGED peer
    /\ UNCHANGED <<script, sent, client, stream, back, greeted, memory, failure, reported, strangers>>

\* The loop goes on as long as expecting_client.
AfterClient(known) == IF known THEN "done" ELSE "accept"

NextClient(known) ==
    /\ app' = AfterClient(known) /\ greeted' = known /\ peer' = "none"
    /\ host' = IF app' = "done" THEN (IF result = "port" THEN "started" ELSE "failed") ELSE host

\* The session ID of the client; a connection that ends before it is an unknown client too.
ReadSid ==
    /\ app = "sid"
    /\ \/ /\ peer = "host" /\ stream = <<>> /\ client = "gone"
          /\ NextClient(FALSE) /\ UNCHANGED <<stream, back, memory>>
       \/ /\ peer = "host" /\ stream # <<>> /\ stream' = Tail(stream)
          /\ \/ /\ back' = back + 1 /\ app' = "command" /\ greeted' = TRUE /\ UNCHANGED <<host, peer, memory>>
             \/ NextClient(TRUE) /\ UNCHANGED <<back, memory>>
    /\ UNCHANGED <<script, sent, client, queue, failure, reported, strangers>>

\* That of a stranger, which sends what is no session ID, or leaves; or does neither, for ever.
ReadOther ==
    /\ app = "sid" /\ peer = "stranger" /\ NextClient(FALSE)
    /\ UNCHANGED <<script, sent, client, queue, stream, back, memory, failure, reported, strangers>>

\* The connection ends.
ReadEnd ==
    /\ app \in {"command", "data"} /\ stream = <<>> /\ client = "gone"
    /\ NextClient(TRUE)
    /\ UNCHANGED <<script, sent, client, queue, stream, back, memory, failure, reported, strangers>>

Is(name) == app = "command" /\ stream # <<>> /\ Head(stream)[1] = name /\ stream' = Tail(stream)
Stay == UNCHANGED <<host, greeted, peer, app>>
Unchanged == UNCHANGED <<script, sent, client, queue, failure, reported, strangers>>

WriteFails == NextClient(TRUE)

\* FRIDA_UPLOAD_COMMAND_WRITE: the data is read into a mapping that may not be had.
WriteHeader ==
    /\ Is("write")
    /\ \/ app' = "data" /\ UNCHANGED <<host, greeted, peer, memory>>
       \/ WriteFails /\ UNCHANGED memory
    /\ UNCHANGED back /\ Unchanged

WriteData ==
    /\ app = "data" /\ stream # <<>> /\ stream' = Tail(stream)
    /\ app' = "command"
    /\ written' = written \cup {Head(stream)[2]}
    /\ UNCHANGED <<host, greeted, peer, fixed, protected, result, back>> /\ Unchanged

\* FRIDA_UPLOAD_COMMAND_APPLY_THREADED and _PROCESS_FIXUPS
Fix ==
    /\ Is("fix") /\ fixed' = TRUE /\ Stay
    /\ UNCHANGED <<written, protected, result, back>> /\ Unchanged

Protect ==
    /\ Is("protect")
    /\ \/ protected' = protected \cup {Head(stream)[2]} /\ Stay /\ UNCHANGED <<written, fixed, result>>
       \/ NextClient(TRUE) /\ UNCHANGED memory
    /\ UNCHANGED back /\ Unchanged

\* FRIDA_UPLOAD_COMMAND_CONSTRUCT_FROM_POINTERS and _FROM_OFFSETS
Construct ==
    /\ Is("construct") /\ result' \in {"port", "error"} /\ Stay
    /\ UNCHANGED <<written, fixed, protected, back>> /\ Unchanged

Check ==
    /\ Is("check")
    /\ \/ back' = back + 1 /\ Stay /\ UNCHANGED memory
       \/ NextClient(TRUE) /\ UNCHANGED <<back, memory>>
    /\ Unchanged

App == Accept \/ ReadSid \/ ReadEnd \/ WriteHeader \/ WriteData \/ Fix \/ Protect \/ Construct \/ Check
Client == Connect \/ Write \/ CloseStream

Next == Listen \/ App \/ Client \/ Stranger \/ ReadOther

Spec == Init /\ [][Next]_vars /\ WF_vars(Listen) /\ WF_vars(App) /\ WF_vars(Client)
-----------------------------------------------------------------------------
\* The constructors run on a gadget that is complete: every segment is written and protected, and
\* its pointers are fixed; although the host waits for nothing while it writes.
ConstructedWhenComplete ==
    result # "none" =>
        /\ written = 1..Segments /\ protected = 1..Segments
        /\ fixed \/ ~Contains(script, Cmd("fix"))

\* A command that fails ends the connection, so that what follows it, its data above all, is
\* not taken for a command.
InStep == app = "command" /\ stream # <<>> => Head(stream)[1] # "data"

\* upload () returns, however the connection ends once the receiver knows the client.  Before
\* that, two things can keep it for ever, for the receiver has no timeout: perform_upload () fails,
\* of which nobody tells it, or a client that is not ours stays connected and sends nothing.
UploadReturns ==
    \/ <>(host \in {"started", "failed"})
    \/ <>(client = "gone" /\ ~greeted)
    \/ <>[](app = "sid" /\ peer = "stranger")
=============================================================================
