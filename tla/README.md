# A TLA+ verification of frida-core

frida-core injects an agent into a process and lets a client talk to it, possibly
across a network and through a server or a portal in between.  This directory
models the parts of it in which several peers, threads, processes or suspended
coroutines share state, and the algorithms on which an injection depends; it
checks them with TLC on small instances, and proves the central invariants for
every instance with TLAPS.

Contents

1. The system and its parts
2. What makes it hard
3. Modules, and how the runs combine them
4. The portal
5. Message delivery and migration
6. Library runtime
7. C library of the payload
8. Linux
9. Android
10. FreeBSD
11. QNX
12. iOS
13. Windows
14. Certificates of peers
15. Runs, bounds and results
16. Fairness
17. Proofs
18. Disagreements between the code and what it says
19. Assumptions stated as constants
20. What is only model-checked, and what is not modelled

## 1. The system and its parts

| Part | Source | Operations |
| --- | --- | --- |
| Portal service | `src/src/portal-service.vala` | start, stop, authenticate, join, attach, reattach, link, expire, tag, gate, resume |
| Message delivery | `src/lib/base/session.vala`, `src/src/frida.vala`, `src/lib/payload/base-agent-session.vala` | post, deliver, acknowledge, interrupt, resume, migrate |
| Library runtime | `src/src/frida-glue.c` | init, shutdown, deinit, hand over an object |
| C library of the payload | `src/lib/payload/libc-shim.c` | streams, directories, exit handlers |
| Linux tracer and spawn gater | `src/src/linux/helpers/*.bpf.c`, `syscall-tracer.vala`, `spawn-gater.vala`, `proc-maps.vala` | record, attach data, stop, drain, resolve, resume |
| Linux injection | `src/src/linux/helpers/{bootstrapper,loader,elf-parser}.c`, `frida-helper-backend.vala` | stop, bootstrap, load, monitor, recreate, deallocate |
| Android apps | `src/src/linux/helpers/zymbiote.c`, `linux-host-session.vala` | patch Zygote, spawn, gate, resume |
| FreeBSD | `src/src/freebsd/binjector-glue.c`, `binjector.vala` | spawn, inject, exec transition, monitor |
| QNX | `src/src/qnx/qinjector-glue.c`, `qinjector.vala` | remote call, inject, pulses |
| iOS upload | `src/src/fruity/injector.vala`, `src/src/fruity/helpers/*.c` | serve, map, fix up, construct |
| Windows | `src/src/windows/*-glue.c`, `src/lib/pipe/pipe-windows.c` | helper services, injection, pipes |
| Certificates | `src/lib/base/p2p-glue.c` | write DER |

`PROJECT.json` lists every part of the repository, also those that are not modelled,
with the reason.

A client's `Session` holds a D-Bus proxy to an agent's `AgentSession`.  With a
`ControlService` or a portal in between, the server keeps an `AgentSessionEntry` per
session and relays calls in both directions.  An instrumented process reaches a
portal by itself.  When a client's connection breaks, the server keeps a session
with `persist_timeout`, interrupts its agent and starts a timer; the client
reattaches, links again and calls `resume ()` on the agent, and both ends redeliver
what was not acknowledged.  Client and agent may also move the session to a
connection of their own.  The agent gets into the process by what the backends do:
each stops or borrows a thread of the target, has it map and load a library, lets a
thread of its own run the agent, and frees the memory when that thread is done.

## 2. What makes it hard

The Vala code runs on a GLib main context.  Nothing runs in parallel within a
service, but each `yield` lets any other handler run, and what was read before the
`yield` may be stale after it.  The backends add threads of other processes, kernel
programs and timeouts.  The behaviours worth a model:

- a connection that closes while its set-up, its `attach ()`, its `link_session ()`
  or its move to a peer connection is suspended;
- batches that arrive while their acknowledgement does not, and a second
  disconnection in the middle of a resumption;
- memory that a thread of the target still runs in, when the helper hears that it
  ended, times out, or is stopped;
- a process that stops itself, and the reader that is to find out and continue it;
- a call that fails half-way, with what was changed before it to be put back;
- buffers, rings and maps at their limits;
- structures that are parsed or written: one wrong length and the target crashes.

The `hazards` of `PROJECT.json` name each at the line where it bites.

## 3. Modules, and how the runs combine them

| Module | Models |
| --- | --- |
| `PortalService` | the portal, as one state machine |
| `MessageLog`, `MessageDelivery` | what message delivery promises; both ends of a session and the connection between them |
| `PeerMigration` | the move of a session to a peer-to-peer connection |
| `FridaRuntime` | start and end of the library's main thread |
| `Stdio`, `LibcStdio` | a C stream as the standard has it; the shim's stream |
| `LibcShim`, `LibcDir` | the table of streams and the exit handlers; directories |
| `SyscallEvents`, `MapTracking`, `DentryPath` | the system call tracer |
| `SpawnGater` | spawn gating |
| `LinuxLoader`, `LinuxBootstrap` | the loader's thread and its helper; the way to a process that can be injected into |
| `LibcApi`, `ProcFile`, `MapElf`, `ElfSymbols` | what the bootstrapper and the loader compute |
| `Zymbiote` | spawning of Android apps through Zygote |
| `Binjector`, `BinjectorPtrace` | FreeBSD: instances and sessions; the traced process |
| `QnxCall`, `QnxInjector`, `QnxLibrary` | QNX: one remote call; an injection; the search for a symbol |
| `Upload`, `ChainedFixups`, `ExportsTrie` | iOS: the exchange; pointers of the image; exported symbols |
| `WindowsHelpers`, `StaleServices`, `WindowsInject`, `WindowsPipe` | Windows |
| `DerCertificate` | the certificate of a peer |
| `PortalTypeProofs`, `PortalPeerProofs`, `PortalSessionProofs`, `PortalServiceProofs`, `PortalOrphanProofs`, `MessageProofs`, `SpawnGaterProofs` | proofs (`FridaRuntime` holds its own) |
| `MCPortalService`, `MCMessages`, `MCTracer`, `MCInjectors`, `MCWindows`, `MCSafety` | instances for TLC |

The last four of the MC modules, and `MCMessages`, check several components in one
run.  Each component is an `INSTANCE` with its own constants.  The variable
`component`, chosen in `Init`, says which one moves; the others stay at a fixed
value, so that the state space is the sum of theirs and not the product.  The
component's own properties, the ones that sections 5 to 14 name, are stated in its
module; a property of the MC module puts together those about one theme, each as
`component = "x" => X!P`.  `MCMessages` extends `MessageDelivery` and `MCTracer`
extends `SpawnGater`, whose properties they check under their own names.  The
fairness is that of the component that moves.  Every `ConstantsOK` of a component is an `ASSUME` of the
module that gives the constants their values.

## 4. The portal

`PortalService` has the names of the fields it models.  A connection is never reused,
so its id also stands for its `ConnectionEntry` and for the peer object exported on
it:

- `wire[c]` is the state of the `DBusConnection`; `connections` and `peers` are the
  key sets of the two maps; `object[c]` says which peer is exported
  (`AuthenticationChannel`, `ControlChannel`, `ClusterNode`), `"closed"` after its
  teardown and also when its set-up failed;
- `setup[c]` is the suspended coroutine of the set-up of `c`;
- `entry[id]` is the `AgentSessionEntry` object.  It outlives its key in `sessions`
  while a suspended `link_session ()` refers to it;
- `attaching[id]` follows the `attach ()` that generated `id`; `links` holds the
  suspended `link_session ()` coroutines with what they captured; `exports` the
  objects they registered;
- `aborted` records that an assertion was reached or null dereferenced.

A step is the code between two suspensions.  `Closed(c)` is all of
`on_connection_closed ()` with the teardown it calls.  `Attach` ends at the
`yield` of `open_session ()`, and `Opened` or `OpenFailed` continues it.  `Incoming`
with an endpoint that has an `auth_service` leads to `Authenticate`, then
`Authenticated` or `AuthenticationFailed`.  `Join` is `handle_join_request ()` when
it succeeds, `JoinRejected` when it throws after part of the interrupted sessions
were attached.

`OrphanedOnlyByAttach` says who can leave a session to a peer that is gone.  An
`attach ()` whose caller or whose node disappears while `open_session ()` is under
way enters the session all the same; no other step does, and `PortalOrphanProofs`
proves it.

Assumptions and abstractions:

- identifiers are pairs of a name and a serial, because `handle_join_request ()`
  appends a number until the identifier is free;
- a connection has at most one `authenticate ()` call outstanding;
- `SessionClosed` is only reported over the session's latest connection;
- the order in which `stop ()` tears peers down only affects what discarded channel
  objects remember, so it is one step;
- after a failed `start ()` the services that did start keep listening, as in the
  code;
- proxies are made without loading properties and without a bus name, so making
  one needs no round trip and succeeds on a closed connection;
- calls that change no state of the portal (queries, enumeration, `kill`) are left
  out, and so is the message bus.

## 5. Message delivery and migration

Both ends run the same code, once in `Session` and once in
`AgentMessageTransmitter`, so the actions are parameterised by the end.

`MessageDelivery` is a session whose only path is the server.  `pending_messages`,
`next_serial` and `last_rx_batch_id` are the fields; `inflight[e]` holds the
suspended `deliver_batch ()` coroutines, whose number is `pending_deliveries`;
`delivery_attempts` matters only as zero or not.  `net[e]` is the ordered stream of
packets from one end to the other.  `Disconnect` breaks the client's connection: a
prefix of what the client sent had been relayed and still arrives, then the
server's `interrupt ()`; what was on its way to the client is gone.  `Post` includes
the delivery that `_post_to_agent ()` tries at the end; `PostMessages` is the
receiving handler, which rejects while interrupted; `Answered` and `CallFails` are
the two ways in which `deliver_batch ()` continues; `OnDetached`, `ResumeBegin` and
`ResumeEnd` are the client, `Interrupt`, `AgentResume` and `AgentIdle` the agent.

Abstractions: the 4 MiB limit of a batch is a number of messages, `MaxBatch`.  The
calls that an interruption cancels have failed before the session is resumed: their
failure is dispatched in the next iteration of the main loop, while reattaching
needs several round trips.  The session does not expire while it is interrupted,
and `persist_timeout` is not 0.

`ImplementsLog` says that the two ends implement `MessageLog`, in which a receiver's
log grows by the sender's next messages: in order, each once.  It holds as long as
a backlog fits into one batch (section 18).

`PeerMigration` is `setup_peer_connection ()` of the client with `begin_migration ()`
and `commit_migration ()` of the agent, the cancellation and the end of the peer
connection at any point, and the messages meanwhile on either path.  `TakenOnce` and
`NothingIsLost` relate what was posted to what is queued, under way and received;
the run checks them as `ConservesMessages`.
`StrandedInSetupOnly` says when a session can be without an active proxy.
What the code does beyond these properties:

- the agent uses the peer's sink as soon as it has it, before `begin_migration ()`,
  so a message it sends can overtake one it sent by the server; messages of the
  client that are rejected during a migration are queued again, wait for the next
  post, and can be overtaken as well.  The order is therefore no property here;
- a session without `persist_timeout` loses what is rejected during a migration;
- a caller that cancels between begin and commit leaves the agent interrupted
  without a timer, the exception in `MigrationEnds`;
- a peer connection that closes before the client switched to it, or after a
  cancellation, sets `active_session` to null;
- when the peer connection breaks while `close_nice_resources ()` waits, messages can
  be delivered twice; `TakenOnce` is stated for the time before that.

## 6. Library runtime

`FridaRuntime` models `frida_init_with_runtime ()`, `frida_shutdown ()`,
`frida_deinit ()` and the main thread: any threads call `frida_init ()` at once, the
application hands objects over to be released on the main context, and one thread
shuts down.  `InitReturnsReady` and `ReleasedBeforeEnd` are proved; `ShutdownReturns`
is checked.  Objects that are handed over after the stop has been scheduled may stay
unreleased.  A second initialization after `frida_deinit ()` does nothing, as the
once-flag stays set, and two concurrent shutdowns are not modelled.

## 7. C library of the payload

`LibcStdio` is a `FILE` of the shim: the read-ahead with its cursor, the write buffer,
what was pushed back, the flags, and the descriptor with its offset.  `ImplementsStdio`
maps it to `Stdio`, a stream with a position and a file, in which every call does
what the C standard says.  Three instances share the calls among them: reading,
seeking and printing; wide characters; appending with `write ()` calls that fail.

The mapping holds for callers that avoid three sequences, which `Synced` states and
`Careful` imposes: `fseek (SEEK_CUR)` counts from the descriptor's offset and ignores
the read-ahead, `ftell ()` ignores the write buffer, and `fprintf ()`, `putchar ()`
and `puts ()` go around the buffer.  `setvbuf ()` drops the read-ahead, `ungetwc ()`
pushes the bytes of a wide character back in the wrong order, and a flush that fails
writes the written part again next time, so `NothingAcceptedIsLost` says that nothing
is lost and not that nothing is doubled.

`LibcShim` is the table of open streams and directories under its lock, `fflush
(NULL)` and the unloading of the payload, which closes what is open and runs the exit
handlers.  It only does so when the unloading is expected (`DeinitUnexpected` is the
other case, in which the streams are flushed and all else is left as it is).  Streams have
no lock of their own, as in the code.  An `fclose ()` whose `close ()` fails leaves the
stream registered.  `__cxa_atexit ()` takes no lock either: `HandlersRun` is checked for
one registering thread at a time (`OneLoader`), and says nothing about two that race.  `LibcDir` is `readdir ()` over the
records of the kernel, with a buffer that holds part of them, calls that fail, and
names that are longer than the field they are copied to.

## 8. Linux

**System call tracer.**  `SyscallEvents` is the kernel program that records entries
and exits, with the data attached to them, and the ring buffer its reader drains.
Threads interleave at the points where they can lose the processor, and each
recorded byte string is its length.  `MapTracking` is the other half: mappings have
generations, an event carries the generation it needs, the traced process stops
itself when its view cannot be trusted, and the reader resolves, takes snapshots and
resumes.  The list of mappings is the list of the code, kept and cut into pieces by
`EndRangeAtGen` and `InsertSorted` and searched by `FindMappingAtGen`, and is compared
page by page with what the kernel had mapped in each generation.  `DentryPath` is the walk from a dentry to a path, backwards into a bounded
buffer, compared with the path as it is defined.  What the code does beyond the
properties:

- an entry of a call that never returns stays in the table until its thread's next
  call replaces it;
- a lost event about a mapping blocks the resolver until the next snapshot
  (`LostGenerationBlocks` says that it then resolves nothing instead of something
  wrong); events of generation 0 cannot be resolved at all;
- cutting a mapping can leave the list in an order that the binary search does not
  expect.  It may then find nothing for an address that is recorded, never something
  else: `RecordsAreExact` is about the list, `SearchFinds` about the search;
- a mapping that changes between the snapshot and the first generation is missed,
  and an eviction from the LRU map starts the generations again;
- paths whose length reaches 256 are not terminated, the mask that places the
  terminator costs paths of odd length a character, and paths that are too deep lose
  their top: `ShowsBeginning`, `LosesAtMostOne` and `IsTerminated` are stated with
  these limits.

**Spawn gater.**  `SpawnGater` is the program that stops a process in `execve ()` and
announces it in a ring buffer, and the reader that keeps it pending until it is
resumed or gating ends.  The signal takes effect after the announcement, so a
`SIGCONT` can come before the `SIGSTOP`; the process then stays stopped.
`StoppedIsKnown` excepts it (`raced`), and the liveness properties are checked where
`PromptStop` holds.  `perform_resume ()` ignores every error but `INVALID_ARGUMENT`: a
process whose resumption fails otherwise is no longer pending and stays stopped
(`unresumed`), the other exception.  `stop ()` reads what was announced before it
resumes everybody, which `StopReleasesAll` depends on.

**Loader.**  `LinuxLoader` is the thread in the target, `InjectSession` and
`RemoteAgent` of the helper, and the sockets between them.  Each step of the thread
can find the other end closed, loading can fail, the helper can time out, and the
thread can be recreated in the same memory.  `MemoryOutlivesThread` is the property
that matters most.  Three paths of the helper give the memory back without waiting for
the thread, and `freed` records which one did: the 5 s of `launch_loader ()`, the 20 s
after which a paused agent expires, and the `catch` block of `monitor ()`, which calls
`on_stop (IMMEDIATE)` when a read fails.  The property says that there is no fourth, and
with `Prompt` that the first two do no harm to a target that answers in time; the third
can, in either case.  The second instance does without `Prompt`; it also shows that every
launch ends and that an agent whose load failed never runs.  Beyond the properties:

- a `rejuvenate ()` whose `socketpair ()` fails leaves the old descriptor numbers in
  the context; a relaunch that fails before the entrypoint closes the agent's library,
  and `agent_handle` is not cleared;
- after a recreation that failed, the old agent stays paused without expiry, and a
  second recreation reaches `assert (found)`;
- the result of `pthread_create ()` is ignored.

**Bootstrapper.**  `LinuxBootstrap` follows a program that was just started through
the stages of its dynamic linker: the helper probes, sets `r_brk` or a swapped piece
of code as a breakpoint, runs until the C library is usable, and puts the code back.
The helper may come at any stage.  `HeldBeforeOwnCode` says that no initializer of a
program that was held at its start has run by then.  Programs with a
`DT_PREINIT_ARRAY` are not among the instances (`Inits`): it runs first, but the code
takes `DT_INIT`, or else the array listed first.  Every remote call sets the registers
and restores the saved ones; a run to the breakpoint changes which ones are saved.
`AsItWas` says that code and registers are right whenever the target is stopped and the
helper is not at work on it, after a failure too.  A wait that is given up while the
target runs (a cancellation, or the 5 s of `wait_for_next_stop ()`; `GiveUp`) leaves
breakpoint, swapped code and registers as they are, since `ptrace ()` cannot change a
running target; `AsItWas` does not speak of it.  Not modelled: an `r_brk` of NULL has the breakpoint written at address 0, and a failure
before the address of `munmap ()` is known leaks the allocation.

**Algorithms.**  `LibcApi` is the search for the functions of the C library, with
fallbacks and a count of what is missing.  `ProcFile` is `frida_parse_file ()`: a
buffer that moves over a file whose reads are short; lines longer than the buffer are
out, because the code drops them and takes the rest for a line.  `MapElf` maps the
segments of an image and is compared with the image that the ELF rules define, for
images whose `.bss` is in the last, writable segment, as the code expects.
`ElfSymbols` finds the base of a module and enumerates its exports, for modules with
relative addresses; those of others are not found.  The size of the symbol table is a
guess, so the code reads on behind it until a word does not look like a symbol: what
follows may be enumerated as well, and `OnlyExports` says exactly when.

## 9. Android

`Zymbiote` is the code that `linux-host-session.vala` places in Zygote, and the host
around it.  The zygote forks apps; each of them runs the patched `setArgV0 ()`,
connects, announces itself, and waits or goes on; the host patches, answers `spawn ()`,
gates, resumes and finally restores what it patched.  `RunsUnpatched` says that no app
that has been let go runs with a patch, `NothingIsKept` that nothing remains after
the end, `EveryAppRuns` that no app waits for ever.  Beyond the properties:

- an app whose resumption fails or is cut off by the shutdown stays stopped (the ghost
  `lost`);
- a process that `wait_until_stopped ()` does not see stop within 5 s is not continued,
  neither while it is patched nor in `close ()`, and is `lost` as well;
- a Chrome zygote that reports itself while `close ()` waits changes `zymbiote_patches`
  under its iterator, whose assertion then ends the process (`phase = "aborted"`);
- a patch that fails half-way leaves the earlier patches unrecorded;
- a timeout of `spawn ()` that fires while its result is on the way settles a promise
  twice, which is asserted not to happen (`Coincide` leaves it out);
- `frida_sendmsg_all ()` does not end for an empty package name; connections of apps that
  died stay.

## 10. FreeBSD

`BinjectorPtrace` is the traced process: spawning, the stops, the remote calls with
their registers, the exec transition, and faults of the calls at any step.
`TracedIsHeld` and `RunsWithOwnRegisters` say who holds the process and with what
registers it goes on.  `Binjector` is the life of instances, with the session of each
thread and its timers.  `failed` is the set of operations that have failed, and each
exception names the ones it is about.  What the code does there:

- `do_spawn ()`, `do_prepare_exec_transition ()` and `do_inject ()` that fail after they
  began to trace leave the target traced, with no entry for it (`TracedIsHeld`);
- when a remote call fails, `frida_inject_instance_free ()` attaches again, saves the
  registers of the call as if they were the program's, and restores those
  (`RunsWithOwnRegisters`);
- `start_remote_thread ()` can fail after it has started the worker, and the instance
  with its payload is freed at once (`WorkerHasPayload`);
- a read of the FIFO that fails ends the session with `IMMEDIATE`, and like the timeouts
  of 2 s and 20 s does not wait for the thread (`forced`, in `PayloadOutlivesWorker`).

Beyond the properties:

- `exited` is read uninitialised when the first call fails (a free choice in the
  model); a missing executable path fails without an error;
- `resume ()` waits for ever when the agent is gone from the process (`WorkerStays`);
  a `demonitor ()` within the 50 ms after a session's end reaches an assertion
  (`CallerIsPrompt`);
- `did_not_exec` compares paths only, so an exec of the same file goes unnoticed.

## 11. QNX

`QnxCall` is a series of remote calls through `/proc`: stop, save, change registers, run
to the breakpoint, put back, with faults at any step.  `failedAt` records where calls
were given up.  `QnxInjector` is an injection with its
channel, its pulses and the two sources that watch it.  `QnxLibrary` is the search for
a library and its symbol.  Beyond the properties:

- a `DISCONNECT` that overtakes `BYE` loses the unload policy (the ghost `overtaken`,
  excepted in `PolicyIsFollowed`);
- some failures set no error, so that the caller gets the id 0 or no instance; a
  failed `devctl ()` leaves the target stopped; comparisons of a function's address
  with -1 are never true;
- a call that is given up between setting and restoring the registers loses the
  program's: the next call saves what it finds (excepted in `BackAsBefore`);
- the memory is freed 50 ms after the end, and `establish ()` waits 2 s (`Prompt`); a
  start of the thread that fails after the thread was created frees the payload at once
  (`hasty`, excepted in `MemoryOutlivesThread`);
- the `SIGHUP` that brings a blocked thread out of the kernel is intercepted, but the call
  it interrupts returns `EINTR` to the program; where the wait for the signal itself
  fails it can reach the program (excepted in `NoHangup`);
- a library whose path is just its name does not end the search, so the last such mapping
  counts, and `ResolvedIsRight` is stated where it is the same one in both processes
  (`ExactIsWhole`);
- `ConnectAttach ()` in the payload is assumed to succeed.

## 12. iOS

`Upload` is the host that writes session ID, commands and segments without waiting,
and the receiver in the app, which accepts connections, also of strangers, until one
has the session ID.  Every call of either side can fail.  `ConstructedWhenComplete`
says that a constructor only runs in an image that was written and fixed up
completely; `InStep` that both sides agree on what the next item is.  The receiver has no
timeout: a host that fails before it has sent the session ID leaves it in `accept ()`,
and a connection of somebody else that stays open and silent keeps it reading.  Both are
exceptions in `UploadReturns`.  The listener reports some failures with the bits
of another one (a shift by 57 where the reader shifts by 56).

`ChainedFixups` is the interpreter of chained fixups and threaded rebases, with
narrow and wide ordinals, addends and chains within a page, compared with the
pointers that the image means; the sign extension of 43-bit values and the `high8`
tags are not in it.  `ExportsTrie` is the lookup in an exports trie, with ULEB128
numbers, compared with the set of exports that the trie encodes.

## 13. Windows

`WindowsHelpers` is the manager with its services, which are services of the system
when it has the privileges and processes of its own otherwise; a failed start is
undone and tried the other way.  `FreedEmpty` and `IsServed` are about the context
and the pipe they share, `StopEnds` and `ServicesEnd` about what must go away.
`StaleServices` is the enumeration that removes what an earlier run left.
`WindowsInject` has several injections at once, each with its process, memory, thread
and copied files, and a `close ()` that waits for them.  `WindowsPipe` has a reader and
a writer thread on one pipe that wait for its client.  Beyond the properties:

- a service that is still `START_PENDING` accepts no `SERVICE_CONTROL_STOP` (`refused`);
  it stays, and so do services of the system whose manager crashed;
- a service that was asked to stop may take the only place in the pipe before it ends, so
  that its successor finds none (excepted in `IsServed`);
- when the standalone start fails too, `start_services ()` returns NULL, which `start ()`
  does not look at: it goes on, and calls to the helpers time out;
- a second `stop ()`, such as the one that the closed connection causes, runs
  `shutdown ()` again, which uses the context that the first one freed (`dangling`);
- the enumeration does not end when there is no inactive service at all, and it removes
  services of another manager that are registered and not started yet; a directory whose
  services' configurations cannot be read is left; `DeleteService ()` is taken to succeed;
- a cancelled operation calls `CancelIo ()` and returns without waiting, with its
  `OVERLAPPED` on the stack; the events for cancellation are never reset, so that the
  operations after it return without even asking (`spoilt`, `orphans`), and what a
  cancelled operation had read is lost.  `NothingInFlight` says that these are all;
- `connected` is read and written by both threads without synchronization.

## 14. Certificates of peers

`DerCertificate` is the writer of `p2p-glue.c` for certificates and keys without
OpenSSL: lengths in short and long form, integers without superfluous zeros,
sequences.  A decoder written from the DER rules reads them back.  Octets are digits
in a small base, which brings the long forms within reach.  The OpenSSL variant and the PEM armour are not modelled.

## 15. Runs, bounds and results

Times are indicative: two workers for the portal, four for the others.

| Run | Instance | States | Time |
| --- | --- | --- | --- |
| `portal_sessions` | in turn: two controllers; a controller and the local device; authenticating connections with stop and restart; each with two connections of a node and one session | 394,356 | 1:14 |
| `portal_gating` | a remote and the local controller, 2 nodes, 2 pids, an ACL tag | 146,000 | 0:23 |
| `messages` | 3 posts of the client, 1 of the agent, 2 disconnections, batches of 3; a migration with 2 posts and 1 post | 187,854 | 1:32 |
| `tracer` | calls: 2 threads, ring of 1; maps: 2 threads, 1 page, 1 eviction; gater: 3 processes, ring of 2, 2 execs, with and without `PromptStop` | 59,966 | 0:38 |
| `injectors` | loader with 2 relaunches (`Prompt`) and 1 (not); bootstrap; file of 3 lines and a buffer of 4; 1 app; FreeBSD with 2 ids, 2 faults, 3 execs; QNX with 3 calls, 2 faults; upload with 2 segments, 2 strangers | 82,175 | 2:22 |
| `windows` | 2 architectures; 2 stale services; 2 injections; 1 operation per stream; 2 threads and 2 objects | 44,207 | 1:14 |
| `safety` | all small inputs of the algorithms; streams, directories, shim; 2 apps; 2 operations per stream; maps: 2 threads and 2 pages without `PromptStop`, and 1 thread and 3 pages | 1,720,677 | 1:53 |
| `portal_peer_disconnected` | 2 controllers | violated | |
| `portal_link_collision` | 3 controllers, 1 node | violated | |
| `message_loss` | 2 posts, 1 disconnection | violated | |
| `message_backlog_order` | 4 posts, 2 disconnections, batches of 1 | violated | |
| `message_backlog_stuck` | 2 posts, 1 disconnection, batches of 1 | violated | |

The properties that the runs over several components check:

| Run | Property | Of which components |
| --- | --- | --- |
| `safety` | `ImageIsRight` | `MapElf`, `ChainedFixups` |
| | `SymbolIsRight` | `ElfSymbols`, `ExportsTrie`, `QnxLibrary`, `LibcApi` |
| | `ReadsBack` | `DerCertificate`, `LibcDir`, `DentryPath`, `SyscallEvents` (sizes of attachments) |
| | `ViewIsExact` | `MapTracking` |
| | `StreamsAreKept`, `ImplementsStdio` | `LibcShim`, `LibcStdio` |
| | `RunsUnpatched` | `Zymbiote` |
| | `OperationsAreOver` | `WindowsPipe` |
| `tracer` | `EventsAreOwn` | `SyscallEvents` |
| | `StoppedIsKnown` | `SpawnGater` |
| | `TracedGoesOn` | liveness of `SyscallEvents`, `MapTracking`, `SpawnGater` |
| `injectors` | `MemoryOutlivesThread` | `LinuxLoader`, `Binjector`, `BinjectorPtrace`, `QnxInjector` |
| | `TargetIsRestored` | `LinuxBootstrap`, `BinjectorPtrace`, `QnxCall` |
| | `CompleteWhenRun` | `LinuxLoader`, `LinuxBootstrap`, `Upload` |
| | `InStep` | `LinuxLoader`, `Upload`, `ProcFile` |
| | `DestroyedOnce` | `Binjector`, `QnxInjector` |
| | `EverythingEnds` | liveness of all of these and of `Zymbiote` |
| `windows` | `UsedIsThere`, `NothingIsLeft`, `StopEnds` | `WindowsInject`, `WindowsHelpers`, `StaleServices`, `WindowsPipe`, `FridaRuntime` |
| `messages` | `ConservesMessages`, `StrandedInSetupOnly`, `MigrationEnds` | `PeerMigration` |
| | the others | `MessageDelivery` |

What each run shows is in `PROJECT.json`, and what each property says is at its
definition.  `safety` checks invariants and one refinement, so its instances are the
larger ones; the others also check liveness.

Why the bounds are enough to be interesting.  Two connections of a node let a process
reconnect while its old connection is still believed alive; two controllers let a
session change hands; a single session suffices because sessions only meet in the
sets that the ownership invariants compare, and the proofs remove the bound.  Two
disconnections let the second one hit a resumption.  Three posts allow one delivered,
one in flight and one queued.  A ring or a table of one or two places overflows with
two threads.  Two faults let the clean-up after the first fault fail as well; three
execs let a transition be awaited, cancelled and awaited again.  Two relaunches let
the second find what the first one left.  The inputs of the algorithms are all those
below a size at which every form occurs: in `DentryPath` paths beyond the depth and
beyond the buffer, in `ProcFile` lines that end at, before and behind the buffer's
end, in `DerCertificate` lengths in both forms.

The portal's runs restrict what happens together: `NoGating` keeps spawn gating out
of sessions, `NoRestart` stops at a restart, and `SessionScenarios` takes its three
scenarios in turn.  The proofs do not have these restrictions.  Connections to the
same endpoint are symmetric; the runs under symmetry check no liveness.

Deadlock is not checked: connections, posts, calls and faults are used up, so each
instance ends in states where nothing is left to do.

## 16. Fairness

All fairness is weak, and of what a main loop, a thread or a kernel does by itself:

- Vala code: pending sources are dispatched, timers fire, calls over an open
  connection are answered and the failure of the others is noticed (`MessageDelivery`,
  `PeerMigration`, `Binjector`, `QnxInjector`, `WindowsInject`, `WindowsHelpers`,
  `Zymbiote`, `LinuxLoader`, `Upload`);
- threads of a target go on running while they are not stopped (`LinuxLoader`,
  `QnxInjector`, `WindowsInject`, `Upload`), and a signal that was sent is delivered
  (`SpawnGater`, `MapTracking`);
- sequential code goes on (`ProcFile`, `LinuxBootstrap`, `StaleServices`,
  `BinjectorPtrace`, `WindowsPipe`, `FridaRuntime`).

Weak fairness of `ResumeBegin` says that the application resumes an interrupted
session, as the handler in `src/tests/test-host-session.vala` does.  Users, other
processes and faults are never fair: nothing has to be posted, attached, spawned or
resumed, and no connection has to break.  No liveness is claimed for the portal.

## 17. Proofs

**Portal.**  `PortalServiceProofs` and `PortalOrphanProofs` prove, for all sets of
connections, sessions, pids, names and tags that satisfy the two assumptions of
`PortalService` (the kinds of peers are disjoint and differ from `NULL`; pids and
serials are positive numbers):

| Theorem | Statement |
| --- | --- |
| `Invariance` | `Spec => []IInv` |
| `TypeCorrect` | `Spec => []TypeOK` |
| `OwnershipCorrect`, `NodeOwnershipCorrect` | controllers, nodes and `sessions` agree on who owns what |
| `ExpiryCorrect` | a session has no controller exactly while its timer runs |
| `RegistrationCorrect` | both node maps hold exactly the joined live nodes |
| `GatingCorrect`, `GatersCorrect` | suspended spawns wait for a non-empty set of gaters, which are live channels |
| `PeersCorrect` | every peer has its connection entry |
| `ReleaseCorrect` | `Spec => TeardownReleases`, an action property |
| `OrphansCorrect` | `Spec => OrphanedOnlyByAttach`, an action property |

None of these invariants is inductive alone.  `IInv` adds three facts:

- `PeerLifecycle`: how the state of a connection, its exported object, its entry and
  its suspended set-up go together.  Without it a torn down connection could come
  back from a suspended set-up with sessions in its sets.
- `InactiveLeavesNoTrace`: a peer that is not active yet is in no table, so that
  dropping it without a teardown is right.
- `UnopenedIsUnknown`: the id of an `attach ()` that is still suspended is in no
  table, so that entering it later does not take it from somebody.

The proof goes action by action, and under each action conjunct by conjunct.  The
teardown, which four actions share, is treated once in lemmas about the operators
it is built from, and frame lemmas (`LifecycleFrame`, `RegisteredFrame`, ...) say
once which variables each conjunct depends on.  `ReleaseCorrect` follows from the
ownership part of `IInv` in the state before the step.  `OrphansCorrect` rests on what
a step may do to a known session: forget owners, or give it to a peer that is live
and stays so.

**Message delivery.**  `MessageProofs` proves `ResumedBothAlways` and
`ResumeIsValidAlways` for any number of posts and disconnections and any batch size.
The two properties depend on what is under way, so the invariant is about the
streams: every `resume ()` in the client's stream finds the agent interrupted when it
gets there (`Due`), the next one would as long as there is no connection, and an
answer to it is the last thing that happens before the client is live.  The lemmas
are about two sequences and two states only, and the steps of the model are put
together from them.

**Spawn gater.**  `SpawnGaterProofs` proves `StoppedIsKnownAlways` for any processes,
size of the ring and number of execs, and with resumptions that fail.  A process that is
stopped is in the ring, pending or being resumed, or is one of the two exceptions of
section 8, `raced` and `unresumed`, each of which is entered by one step only.  The
property is not inductive: a process is known from its announcement on, before it stops,
which `StoppingIsKnown` adds.

**Library runtime.**  `FridaRuntime` proves `InitReturnsReadyAlways` and
`ReleasedBeforeEndAlways` for any threads and objects, from `ConstantsOK`.  The
invariant adds who is initializing, and that what was handed over early is queued or
released, and released once the loop is ending.

## 18. Disagreements between the code and what it says

Each is a run that is expected to be violated; `findings` quotes the lines.

- `portal_peer_disconnected`: `setup_authorized_peer ()` checks for a peer that
  disconnected, but `on_connection_closed ()` ignores a connection that is not a
  peer yet and leaves its entry, so the check passes and a dead peer is installed.
- `portal_link_collision`: a `link_session ()` that outlives its controller registers
  its objects after the session was detached; the next controller's
  `link_session ()` finds the path taken and reaches `assert_not_reached ()`.
- `message_loss`: serials start again at 1 after a successful delivery, the receiver
  keeps the last batch id, and the next resumption drops a message that was never
  received.
- `message_backlog_order`: serials are reset while messages are still queued, so
  that sorting by serial changes their order.
- `message_backlog_stuck`: the part of a backlog that does not fit into the first
  batch after a resumption waits for an unrelated post.

## 19. Assumptions stated as constants

A constant that is TRUE where a property needs more than the code guarantees:

| Constant | Module | Assumes |
| --- | --- | --- |
| `Prompt` | `LinuxLoader`, `QnxInjector` | the target answers within the timeouts when it can; `MemoryOutlivesThread`, `FailedNeverRuns`, `EveryLaunchEnds` and `DestroyedOnce` are also or only checked without it |
| `PromptStop` | `SpawnGater`, `MapTracking` | a process has stopped before anybody continues it; assumed for liveness only |
| `WorkerStays` | `BinjectorPtrace` | the agent is not unloaded before `resume ()`; assumed for `CallsReturn` only |
| `CallerIsPrompt` | `Binjector` | no `demonitor ()` in the 50 ms after a session's end |
| `Coincide` (FALSE) | `Zymbiote` | the timeout of `spawn ()` does not fire while its result is on the way |
| `Inits` | `LinuxBootstrap` | no `DT_PREINIT_ARRAY` |
| `OneLoader` | `LibcShim` | one thread at a time registers exit handlers |
| `Careful` | `LibcStdio` | the caller avoids the sequences of section 7 |

## 20. What is only model-checked, and what is not modelled

Only model-checked: liveness, which is outside the reach of the proof system; the two
refinements, `ImplementsLog` and `ImplementsStdio`; `PersistentSurvives`; the type
invariant of `MessageDelivery`, because what `SortSeq` returns is a choice among
permutations whose type needs an induction; everything about the backends except
`StoppedIsKnown` of spawn gating; and the algorithms, whose properties would need an
induction over their data.

Partly modelled, with what is missing:

- Portal: the message bus, queries, and what is relayed through it.
- Message delivery: expiry of a session at the agent.
- Linux injection: how system calls and code are executed in a stopped thread by
  `ptrace ()`, exec transitions, and the helper process.
- Tracer: its statistics and the naming of functions in a module.
- Zymbiote: its helpers for system calls and for reading the context.
- FreeBSD and QNX: register sets, generated code, enumeration; spawning on QNX.
- Windows: the detection of architectures, the assignment of assets, and the proxying
  of calls.
- iOS: the injector's other scripts, the symbol fetcher, and the parsing of Mach-O
  load commands.
- C library: the allocator, formatting, the resolver, and the overrides of single
  system calls.
- Peer-to-peer transport: SCTP over DTLS, decided by external libraries.

Not modelled:

- the control service, the portal client, the host sessions and the client API: tables
  of sessions and requests like those of the portal, each of its size, and layers that
  hand calls on; `Promise`, a value that is set once on one thread;
- the agent, the script engine, the monitors and the gadget, decided by GumJS and the
  process they are in;
- the Darwin backend, whose helper is a transcript of Mach calls, and the devices
  behind USB, ADB, gdb and simulators, decided by the external service at the other
  end;
- the compiler, the package manager, the command line programs, generated code, option
  parsing, formatting, and tables of constants.
