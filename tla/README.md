# A verification project for lwNBD

lwNBD is a small static library that lets an application (on a PlayStation 2 IOP, an
RTOS or Linux) export memory, files, disks, memory cards or commands over the network,
first of all with the NBD protocol. This directory holds TLA+ models of its parts, the
TLC runs that check them on small instances, and proofs checked by TLAPS.

Line numbers below are those of the files they follow, relative to the repository's root.

## 1. Inventory

| part | source | state it keeps | operations |
|---|---|---|---|
| transmission phase | `servers/nbd/protocol.c`, `src/tcp.c` | locals of one session: request, `sendflag`, `blkremains`, `offset`, `bufblksz`, `byteread`, `retry`, `nbd_buffer` | receive a request; READ, WRITE, FLUSH, DISC, anything else |
| handshake and client thread | `servers/nbd/protocol-handshake.c`, `servers/nbd/nbd.c` | `struct nbd_client` per thread; the handle `ctx` shared by all threads | connect, greet, flags, options (EXPORT_NAME, ABORT, LIST, others), dispatch |
| NBD server handles | `servers/nbd/nbd.c` (`nbd_new`, `nbd_config`, `nbd_ctor`) | `handles[3]`, `handle_in_use` | allocate a handle, set `readonly` and `preinit` |
| contexts | `src/contexts.c` | `contexts[]`, `contexts_status[]`; never freed | take one, count, look up by name, call through to the plugin |
| lookup by URI | `src/contexts_uri.c`, `src/yuarel.c` | none (the string is cut up in place) | split path, query and fragment; find the context; hand the query to the plugin; refresh the size |
| plugin table | `src/plugins.c` | `plugins[]`, `plugins_status[]` | register, configure, make a context |
| server table | `src/servers.c` | `servers[]`, `servers_status[]`, `servers_bis[]` | init, config, new, run, stop; register and find by name |
| event loop, chargen, daytime | `src/servers.c` 276-303, `servers/chargen.c`, `servers/daytime.c` | `efds[]` | watch, remove, write a part of a line |
| command plugin | `plugins/command` | `commands[]`, and one `result`, `exportsize` and `pp` for all clients | register a command, query (GET runs it, POST remembers it), read the result, write to it |
| memory card plugin | `plugins/mcman` | one `bbuffer` and one `pagesPerBlock` for both cards | read pages; write pages by read, erase, program of whole blocks |
| tty plugin | `plugins/tty` | ring buffer, two positions, an event flag | the console writes, a client reads |
| file, memory, pcmstream, atad, bdm plugins | `plugins/*` | a static table of handles each; `memory` a region the application owns | constructor, pread, pwrite, size; `memory`: filters in the query |
| sifrpc server, PlayStation 2 port | `servers/sifrpc`, `ports/playstation2` | the modules resident on the IOP; `configured`, `httpsrv`, `nbdThreadID` | load modules, link, start and shut down, remote START and STOP |
| libuv server | `examples/lwnbd-server.c` | worker slots, handles of plugins | make exports, accept, run, free |
| mini-xinetd | `examples/mini-xinetd.c` | service table; `stdout` of the process, shared by all threads | parse, listen, accept, run a server with `stdout` exchanged |
| local programs | `examples/local-*.c` | export name, request and answer buffer (shell) | look up, read, write, print |
| logging | `src/log.c` | level and callback | none of interest |

How they interact. An application registers plugins (`lwnbd_plugin_init`), has them make
contexts (`lwnbd_plugin_new`) and starts a server. Each connection is a thread that runs
`nbd_synchronous_client_thread_cb`; it takes a context from the same pool for its
handshake, negotiates until an export is named, and then serves requests by calling the
plugin's `pread` and `pwrite` through the context. Nothing is locked. All tables are
static arrays, filled from the front; only server slots are ever freed.

What is hard about it, and hardly reachable by a test:

* two client threads in the pool, in the server's handle, in a plugin's static buffers, in
  the `stdout` of a process;
* calls that fail in the middle: of a chunked transfer, of a handshake, of a constructor,
  of an erase-and-program cycle;
* variables that serve two purposes (`sendflag` is a loop condition and a send flag) and
  keep their value into the next request;
* unsigned comparisons of results that may be -1, 64-bit sums that may wrap;
* handles whose failure value is not below 0, and handles that are used without a test;
* tables at their limit, where several callers do not look at the NULL they get.

`PROJECT.json` lists these as hazards, each at its line and with the properties that
would catch it.

The sources are a snapshot of a library in the middle of a rewrite and the NBD server
does not compile as it is: `nbd.c` 124 reads `s->preinit` of a variable that is not
declared, `lwnbd_get_defaultexport` is commented out, `ctx->exportsize` and
`ctx->sync_send_cb` are members of no struct, and the call of `nbdify_context` is
commented out (140). Where the text leaves a hole the models take what the surrounding
code says it means: `s` is the server's handle, the default export is a setting that may
be absent, `exportsize`, `minimum_block_size` and the export's flags are what
`nbdify_context` computes, and `sync_send_cb` and `sync_recv_cb` are `send` and
`tcp_recv_block` (`src/servers.c` 51-52).

## 2. Modules

| module | models |
|---|---|
| `NbdTransmission` | `transmission_phase`, one session |
| `BlockDevice` | what a session promises its client; `NbdTransmission` implements it |
| `NbdProtocol` | the structures and numbers of the wire format the handshake uses |
| `NbdSession` | client threads, handshake, dispatcher (extends `Contexts`, `NbdProtocol`) |
| `Contexts` | the pool of contexts; extended by the modules that share it |
| `PluginStructs` | what the plugin table sees of each plugin |
| `Plugins` | plugin table, constructors, lookup (extends `Contexts`, `PluginStructs`) |
| `Yuarel` | splitting of URIs |
| `Shell` | the interactive shell, built-in commands, filters of the memory plugin (extends `Plugins`, `Yuarel`) |
| `Programs` | the programs that use the library, as the calls they make (extends `Shell`) |
| `Servers` | table of servers, handles of the NBD server |
| `Ps2` | the PlayStation 2 port, from power-on to remote STOP (extends `Servers`) |
| `MemoryCard` | reads and writes of the memory card plugin |
| `Tty` | the ring buffer of the tty plugin |
| `Command` | the command plugin and the lookup that drives it |
| `FilePlugin` | handles, descriptors and transfers of the file plugin |
| `Connections` | the connections that the next two serve |
| `Workers` | slots and threads of the libuv server |
| `MiniXinetd` | configuration, table of servers by name, threads of mini-xinetd |

`<module>Proofs` holds the theorems about a module and about those it extends (section 5).
Two proof modules extend two components: `LinuxServersProofs` `Workers` and `MiniXinetd`,
`Ps2Proofs` `Ps2` (with `Servers`) and `MemoryCard`; this is why the specifications of
`MiniXinetd` and `MemoryCard` are called `XinetdSpec` and `McmanSpec`.
`MC<module>` gives a module's constants their values for TLC, and the `.cfg` files name
the specification and the properties.  A definition named `X_Something` in front of a
definition `X` is a plausible wrong version of `X`; it is used nowhere, and replacing `X`
by it must make TLC find the property violated that `PROJECT.json` pairs it with.

### NbdTransmission, BlockDevice

One action per call that leaves `transmission_phase`: `RecvRead`, `RecvWrite`, ... for a
received request with the checks of its `case` (42-60 and 66-78, 122-135, 170-188);
`ReadReply` (80-85); `ReadChunk` and `ReadChunkFail` for `lwnbd_pread` (87-101, 111-119);
`SendChunk`, `SendChunkFail` (102-110); `RecvChunk`, `RecvChunkFail` (137-150, 159-162);
`WriteChunk` for `lwnbd_pwrite` (150-158); `Flush`; `Reply` (165-168, 178, 189). The
variables are the function's locals, in blocks and bytes. Data is abstracted: a block of
the device holds the number of the payload block last written to it, the buffer the
payload blocks it received; byte order conversion and cookies are left out. Arithmetic on
offsets is modulo `Modulus` (2^64 in the code).

A failing call is a second action or a disjunct. A `send` that fails while a reply header
goes out is only logged, one in the middle of the data leaves the loop and the `case`
with `sendflag` set (102-105): that value, and `offset`, `blkremains` and `bufblksz`, are
still there when the next request comes, and a request that is *refused* skips the
assignments that would replace them. The model keeps all this. `tcp_recv_block` returns
-1 on an error even when part of the request was received, and `r < sizeof(...)` does not
catch -1: `Receive` accepts such a request, `aligned` remembers that it did.

History variables (`headers`, `payload`, `took`, `prior`, `failures`, `intact`, `exact`,
`aligned`) record what the client got and what the device was, so that properties can
compare them.

`BlockDevice` knows nothing of chunks, flags and retries: one request at a time, blocks
handed out in order, blocks of the payload put in their places in any order, success only
when all is done. The refinement mapping (`Device` in `NbdTransmission`) takes the session
as idle when it waits for a request, busy while it serves one, closed when the function
has returned or died, and *broken* once a `send` failed, because of the stale `sendflag`
above, or a range that wraps around was accepted. In a broken session the abstract device
promises nothing; breaking it must not touch a block. Counts are in blocks, rounded down as
in the code (75-76, 132-133): what a request means that does not begin and end at a block is
not part of the promise, and `ReadDelivers` and `WriteDelivers` are about aligned requests.

### NbdProtocol, NbdSession

One process per client thread, interleaved at every call that may block or touches shared
state: `Connect`, `Scan` and `Claim` (the two halves of `lwnbd_new_context`),
`Dispatch`, `Greet`, `Flags`, `RecvOption`, `Lookup`, `Grant`, `Abort`, `ListEntry`,
`ListEnd`, `Answer`, `Transmission` (the whole of `transmission_phase`), and `HangUp` for
the client. `local[c].state` is the client's `c->state`, `server.state` the shared
`ctx->state`. An option comes with a path, with or without a query, or with no data; its
data may fill the buffer to the last byte, and then the '\0' is written behind it (77),
which may do harm (`alive` is FALSE) or not. `NeedsQuery` are the plugins whose query
callback reads the first parameter without there being one, as command does; a lookup of
their export without a query, or of a context without plugin, is undefined as well. Structures are the sums of the sizes of their fields, since a receive is
compared with them; options and flags are their numbers.

### Contexts, PluginStructs, Plugins

The pool is a function from indices to a name and a plugin, and a status per index.
`FirstFree` is the scan of both tables. `Plugins` has an action per library call:
`lwnbd_plugin_init` (refused, registered, or following the NULL of a full pool),
`lwnbd_plugin_new` (three shapes of driver; the constructor may fail, before or after it
has named the context), `lwnbd_plugin_config`, `lwnbd_get_context`. The handle a caller
passes is any it was ever given, -1 included, since `lwnbd_plugin_h` is unsigned and no
caller in the repository checks it. Following a bad pointer, or writing out of bounds, sets
`alive` to FALSE and stops the model. `Struct` says which callbacks a driver has, how its
constructor may fail, how many devices its table has room for (`devices` counts those it
was called for: the one behind the table is written, which may or may not go wrong), and
whether its query callback goes wrong when nothing is asked: with no query
`yuarel_parse_query` returns -1, `command_query` tests for 0, and compares a key nobody has
set; `PluginStructs` has the repository's plugins in these terms (bdm, which does not
compile, is left out).

### Yuarel, Shell, Programs

A string is a sequence of tokens: separators, and words that no function looks into.
`yuarel_parse` and `yuarel_parse_query` are functions on such sequences, each cut seeing
what the cuts before it left. `UriParsed` compares them with a definition that does not
cut: the text between separators, as the URI's author wrote it.

A program in `Programs` is the sequence of the library calls its `main` makes, taken from
the source in order (`ServerOptions`, `irx_config`, `WcCalls`, ...), and the loop that
follows. `h` keeps the handles in the program's variables, with the uninitialised one of
the libuv server as it may be. "any" is an application that makes any calls; "uri" looks
up any URI. The turns of the loops read the file and count (`ReaderTurn`, `WcTurn`), or
take a line (`ShellTurn`): the line becomes a query to the export the shell is set to; the
context is found, the query goes to the command plugin (`echo`, `export`, `lc`, `ce`), which
blanks `result` and has the command write into it, or through the filters of the memory
plugin; then as many bytes as the export has are read into the buffer of the request, ended
with a '\0' and printed up to the first (`Show`). What the buffer held behind them is `Junk`.
A byte is a token; a listing has one for each of its lines. The commands ignore the size of
their result, and `memcpy` that of the region: a text that is too long is undefined.
`stored` is history: what the lines so far ask the region to hold.

### Servers, Ps2

`Servers` has one action per call of the library. Handles are those an application holds,
or the value of a failed `lwnbd_server_init`. `crash` records a call through a pointer
that is not there. A server is a set of callbacks.

`Ps2` loads the modules of `init_platform` in its order, each of which may fail, sets the
network up, and loads `lwnbd.irx`, which links only when the libraries of its imports are
resident (`imports` follows the `#ifdef`s of `imports.c`). `_start` registers the sifrpc
server. As the code stands that fails and the failure is followed
(`StartFollowsFailure`); the model also has the sifrpc server with the `.new` that is
commented out (`sifrpc.c` 78-81), and takes the thread to be started (`lwnbd_irx.c` 208
is commented out as well), for otherwise nothing of the remote calls would be reachable. Then
`Start` and `Stop` are remote calls in any order; `ConfigInit`, `nbd_server_create`,
`ConfigSettings` and `CreateListener` are the steps of a START.

### MemoryCard

`mcman_ctor` sets the cards up in order; `StartWrite` and `StartRead` enter
`mcman_pwrite` and `mcman_pread`; `Block` is the head of the loop of a write,
`McReadPage` (readBlock), `Inject`, `McEraseBlock2` and `McWritePage` (writeBlock) are the
calls of the driver, and any of them may fail, with or without having done its work.
`bbuffer` and `pagesPerBlock` are the plugin's static variables. A page holds a token that
says which write, and which page of it, it comes from; only an erased page takes what is
programmed. 64 and 32 bit arithmetic is modulo `Wide` and `Narrow`. The loop compares a
signed `i` with the unsigned `endBlock`.

### Tty

Readers and one writer interleave at every access to shared state: the wait for the event
flag, the test of `wwhence`, the copies (in two parts at the end of the ring), the update
of the position, the signal. `log` is everything printed, `received` everything read,
`lapped` says that printing has gone over what was not yet read.

### Command

`command_query` is the lookup up to the command, `RunCommand` a GET command, which may
fail, `lwnbd_update_size` and `Answer` the way the size takes to the client,
`command_pread` and `command_pwrite` what the client then asks for. `NoParams` is a lookup
without a query: `yuarel_parse_query` returns -1 and `command_query`, which tests for 0,
reads a key nobody has set. `session[c].alone` is history: no other client had a lookup
between.

### FilePlugin

One action per system call; each does any part of what it was asked for, or fails.
`file_get_size`, which every lookup calls, opens the file again and stores the descriptor
in the handle of the export. The place behind `handles` is what `file_ctor` uses when all
are taken.

### Workers

`on_new_connection`, `Accept`, `StartRun` and `EndRun` (the parts of `on_work`),
`on_after_work` and `signal_handler`. `on_work` runs in a thread of the pool and calls
`uv_accept` there, although libuv is not thread-safe, so the loop is modelled at the steps
that such a call can fall between: `Readable` takes a connection off the socket and calls
back; `Check` looks whether it has been accepted meanwhile and takes the next one if so,
else `Stop` stops the watcher; `Poll` lets the loop know of a watcher that was started.
`uv_accept` empties `accepted_fd` and then starts the watcher, without waking the loop,
which only the end of a request or a signal does. So a start can be lost to a `Stop` that
follows it (`lost`), can go unnoticed as long as the session lasts, and a connection that
is taken while another is still there meets libuv's assertion, which ends the process.
These are assumptions about libuv (1.x, `uv__server_io` and `uv_accept`), whose source is
not in the repository; so is that the pool has a thread for each slot. Connections are made
once each.

### MiniXinetd

`ParseLine` is a turn of `parse_config`, `start_listener` and `AcceptConnection` are `main`; the
threads go through `Lookup` (in the table of servers by name), `OpenStreams`,
`SaveStdout`, `SetStdout`, `Run`, `RestoreStdout` and `CloseConnection`, interleaved with
each other and with what `main` prints. `stdout` is whom it leads to, `fds` which
connection a descriptor belongs to; descriptors are given out again as the kernel does, and
there are `OpenMax` of them. `OpenStreams` makes the two duplicates (147-148), or as many of them
as can be had: then the connection's descriptor is closed here and once more at the end, and
the duplicate that was had is closed by nobody (`leaked`).

## 3. Runs

Passing runs:

| run | bounds | what it shows |
|---|---|---|
| `transmission` | blocks of 2 bytes, an export of 9 bytes (4 blocks and an odd byte), a buffer of 5 bytes (2 blocks), 1 retry, arithmetic modulo 32; 13 requests | data is sent and stored exactly, one header per request, errors within the retry budget, every request terminates, the session implements `BlockDevice` |
| `session` | 2 client threads, 3 contexts, 1 export, 2 names and the empty one, each with and without a query | lists are complete while the pool grows, nothing undefined is done but for one of three causes, the pool stays packed, a thread whose client is gone ends |
| `programs` | 4 contexts, 4 plugin slots, 8 drivers (6 of the repository) with room for 1 to 3 devices, every choice of four built-in plugins, 5 paths, up to 2 `-f` options, files of 0 and 2 bytes, 25 lines for the shell, a region of 3 bytes and a result of 7, all URIs of up to 5 of 6 tokens | exports stay found and served, every crash has one of a few causes, the shell's answers are those of the line, files are counted exactly, URIs are taken apart as written |
| `ps2` | 13 modules, 3 sets of build options, 4 remote calls; 3 server slots, 3 NBD handles, 4 kinds of server, 2 runs at a time | modules find what they require, STOP ends the listener of its START, no shared handle, held slots stay |
| `memory_card` | a client that writes and one that reads, a card of three blocks of 2 pages and one of a block of 4, 2 requests of 5 ranges | exact transfers, a failure is confined to one block, only involved blocks are erased, every request ends |
| `tty` | one writer, one reader, a ring of 3 bytes, transfers of 1 to 4 bytes, 9 bytes printed | reads give what was printed, in order, and return |
| `command` | 2 clients, 4 commands of which two share a name, a table of 3, 3 lookups | size, result and POST command are those of the client's own lookup |
| `file_plugin` | 2 clients, 2 files of 2 bytes, 2 handles, 2 descriptors, 2 transfers | exact reads and writes in parts, no export reaches the file of another, every transfer ends |
| `workers` | 2 slots, 3 connections | a thread finds its connection, slots are not shared and come back, connections are served when clients leave, unless the race on the watcher was lost |
| `xinetd` | 2 connections, 4 descriptors, 8 kinds of line, up to 5 lines, 2 services | services are as written, connections do not get each other's output and are closed but for a lost duplicate |

Why the bounds are enough. *Transmission*: every loop runs for none, one full and one
partial chunk; a request in every relation to the end of the export and to the block size
occurs, one that wraps included; a request can follow any other in any state a failing
call leaves behind, so each pair of "what was left" and "what comes" occurs. *Session*:
two threads are enough for a race on one variable, and three contexts for one export, one
slot that is raced for and one more. *Programs*: both tables can be empty, partly used and
full, with a driver of each shape in any slot, and so can the tables of the constructors;
the PlayStation 2 module with all its plugins makes 7 exports, more than the 4 contexts, so
that it, too, is explored beyond the limit (the proofs are for tables of any size). The
four URIs that the application with any calls looks up are the empty one, the commands with
and without a query, and an export's. The lines have every command and filter, texts that
just fit, and ones that do not. A URI of five tokens has every separator before and after
every other. *Ps2*: four calls are START, STOP, START, STOP and every
other order; three servers fill both the table and the pool. *Cards*: a write starts and
ends anywhere in a block and covers up to three; the second one finds what a failed one
left. *Tty*: printing goes three times round the ring, with transfers shorter and longer
than it (writes up to the ring's length). *Command*: three lookups of two clients are enough for one between two steps of
another, and for one after both. *Workers*: with three connections for two slots a slot
is used twice, a connection is turned away, and every step of the loop falls between the
two halves of an `uv_accept`. *Xinetd*: five lines are a service with
all its fields and a second declaration, or two services; two threads are enough for
every order of their exchanges of `stdout`, and with four descriptors the second thread
does not get its streams while the first has its own.

What the bounds leave out: a buffer smaller than a block, for which `RequestTerminates`
makes no claim (section 6); a single write to the tty is at most as long as its ring, in
the model as well as in the run; the `memory_card` run has one writer, so that two writes never
meet in `bbuffer`; in `ps2` there are as many handles as slots, so that the pool of the NBD server is
never exhausted first, and a handle is not used after its `lwnbd_server_stop`; in
`file_plugin` there are as many places as exports.

Several properties are stated under a condition, because without it the code does not
keep them (section 6): sessions without a broken send, clients whose requests do not
overlap in a static buffer, runs of services during which nobody else prints. The runs
contain the behaviours that the condition excludes, so that what happens outside of them
is still explored for all other properties.

Runs that end in a violation, each showing that the code does not do what a line of the
repository says (section 6): `readonly` and `served`.

## 4. Fairness

`NbdTransmission!FairSpec` assumes weak fairness of `ServerStep`, the steps the server
takes once it has a request: the thread is synchronous, and goes on as long as its
`send`, `recv` and plugin calls return. Nothing is assumed about a client sending
requests, and nothing about calls succeeding: `RequestTerminates` holds when every call
fails as well as when none does.

`NbdSession!FairSpec` assumes weak fairness of a thread's step only while its client has
hung up, and not in the transmission phase: `send` and `recv` on a closed connection
return, but the transmission phase reads from `ctx->sock`, which nobody sets. A connected
client may keep its thread waiting forever.

`MemoryCard!McmanFairSpec`: the driver's calls return. `Tty!FairSpec`: a client's thread runs and
a call of the console that has begun goes on; nobody is obliged to print, and
`ReadReturns` speaks of a read for which enough has been printed. `Workers!FairSpec`: the
loop and the pool's threads run, and a session ends once its client is gone. Nothing is
assumed about the loop noticing what a thread did to its watcher: `Readable` is fair, but
enabled only once `Poll` has come by, and `Poll` only follows a step that woke the loop.
This is why `ServedIfClientsLeave` supposes that clients leave: while a session lasts nothing
wakes the loop, and the next connection waits.
`FilePlugin!FairSpec`: system calls return; a `pwrite` that returns 0 for more than 0
bytes, with which the loop would not end, is not modelled. `MiniXinetd!XinetdFairSpec`: the
threads run, and a server that is called returns, as those of the repository do.

Deadlock is checked in every run but `ps2`, where a crash or a module that cannot be
loaded stops the model. A `Quiet` or `Finished` step stands for having reached the end of
a program or the bounds.

## 5. Proofs

The theorems hold for every value of the constants that satisfies the named assumptions of
the modules; each states a property that a run also checks.

| module | theorem | property |
|---|---|---|
| `NbdTransmissionProofs` | `TypeCorrect` | `TypeOK` |
| | `BufferNeverOverrun` | `ChunkFitsBuffer`: no chunk is longer than `nbd_buffer` |
| | `PluginStaysInExport` | `ChunkInExport`: the plugin is only asked for blocks of the export, as long as no `offset + count` has wrapped |
| | `ReadsDelivered` | `ReadDelivers` |
| | `WritesDelivered` | `WriteDelivers` |
| | `HeadersOnce` | `OneHeader` |
| | `RetriesBounded` | `RetryBudget` |
| | `DeviceImplemented` | `ImplementsDevice`, the refinement of `BlockDevice` |
| `NbdSessionProofs` | `PoolStaysSound` | `PoolSound` |
| | `ListsComplete` | `ListComplete` |
| | `UndefinedHasItsCause` | `UndefinedHasCause` |
| `ProgramsProofs` | `ContextsStayServed` | `ContextsServed` |
| | `ExportsStayFound` | `ExportsFound` |
| | `CountsExactly` | `CountExact` |
| | `UrisParseExactly` | `UriParsed` |
| | `CrashesHaveCause` | `CrashHasCause` |
| | `AnswersAreToTheLine` | `ShellAnswers` |
| `Ps2Proofs` | `HandlesStayApart` | `HandlesApart` |
| | `HeldSlotsStay` | `HeldStays`, an action property |
| | `LoadedInOrder` | `LoadOrder` |
| | `ListenerStopped` | `StopsItsListener` |
| | `CardTransfersExact` | `TransferExact` of `MemoryCard` |
| `CommandProofs` | `ReadsAreOwn` | `ReadsOwnResult` |
| | `WritesAreOwn` | `WritesRunOwn` |
| `FilePluginProofs` | `HandlesHaveTheirFile` | `HandleHasItsFile` |
| | `TransfersExact` | `TransferExact` |
| `TtyProofs` | `ReadsGiveStream` | `ReadStream`, with one writer |
| | `StreamStaysInOrder` | `StreamInOrder`, with one writer and one reader |
| `LinuxServersProofs` | `AcceptNeverFails` | `AcceptSucceeds` |
| | `ConnectionsStayApart` | `ConnectionsApart` of `MiniXinetd` |
| | `ServicesReadAsWritten` | `ServicesAsWritten` of `MiniXinetd` |

Every invariant that a run checks is stated by one of them.

### Along which argument

None of the properties is inductive as it stands. Each proof module defines an invariant
`Inv` as a conjunction of named parts, shows that `Init` implies it and that a step keeps
it (one lemma per action or group of actions, and under it one step per part that the
action can disturb), and that it implies the properties. TLC had checked every property,
and most of the parts of the invariants, on the bounds of section 3 before.

*Transmission.* What a request meets depends on what an earlier one left in `bufblksz`,
`blkremains`, `offset` and `byteread` when its loop broke off. `Typed` is
`TypeOK /\ LoopInv`; `LoopInv` says that these variables are in step with each other
(`byteread = bufblksz * BlockSize`, at most the buffer) and that `offset + blkremains` is
within the export, at *all* times outside the calls that change them and not only while a
loop runs. On top of it `ControlInv` says what `sendflag` stands for at each place and
that, unless a send failed, it is 0 again when a loop has ended; `HeaderInv` and
`RetryInv` count headers and failures; `ReadInv` and `WriteInv` say that the first
`NBlocks - blkremains` blocks have been sent, or are in their places, and nothing else.
The refinement takes its steps by the place the session is at: a step of a session that
stays sound is one step of the device or a stutter (`SoundStep`), a step that breaks it,
or finds it broken, touches no block (`BrokenStep`).

*Session.* `PoolInv`: the pool is taken from the front and holds at least the exports;
`Fixed`: the contexts behind those have neither name nor plugin, which leaves no more than
three causes for what is undefined;
`ThreadsInv` says for each place of a thread what its record holds relative to the
*number* of contexts at that time. That number only grows, and this is why a thread that
read it long ago still has a sound index, whatever the others claimed since.

*Programs.* `TablesInv`: both tables are taken from the front and a context has a plugin of
the table, or failed. `HandlesInv` and `TodoInv`: the variable for a plugin keeps a handle
of that plugin or an error from the first time it is set, and each program sets it before
it makes an export with it; without this an export would be made with another plugin, as
the handle 0 a variable holds at first is one of the table. For the byte counter `WcInv`
adds how far the list of its calls has come, that until the command plugin is loaded every
context in use is the file's, with one name, and that the bytes passed so far went to
the command or, if that name is "api", to the file. That the file then has the name of the
commands is not visible in the loop: it follows from the order of the look-ups.

*URIs.* `CutProps` says what one cut does: it is at the first separator, or there is none.
The parts of a URI put together again are the URI because each cut is of what the cuts
before it left. For the parameters of a query the two recursive functions, what is left after
so many cuts and what so many parameters joined give, are first shown to exist, as in the
set of lengths for which they do not there would be a least one; then, in the same way,
that what has been joined and what is left make up the query at every place. `UriInv` says
that the URI at hand is empty or one of those the programs look up, each of which is a string.

*Crashes.* Each call can crash for few reasons, and the causes stay once they are there.
`CauseInv` has `HandlesKnown` (a handle a program holds is of a registered plugin or an
error), `NameInv` (the name the shell puts before a line is a string without '#') and
`FileInv`: in the reader and the counter until the file is looked up its plugin alone is
loaded, the export it made has the base name of the path, and afterwards a file was found
or the path has several slashes. `PathName` is what connects the last two: a path with
at most one slash is looked up by its base name. `LineQuery` says what a line becomes behind
a name, and so whose '$' it is that `echo` meets, and whether the commands are asked anything.

*Answers of the shell.* `AnswersInv` adds `RegionInv`: the memory holds the text stored last,
which fits, and zeros behind it; `BeforeInv`: before the first line there is no answer, and
the only query was that of the set-up; `AmpersandInv`: the name has no '&', as it was a
parameter, or `MAX_QUERY` is 1; `NamesInv`: no context has the name of a '\0', so that a
listing is not cut short. A name that has a '?' never loses it (`QueryStays`). What is
printed is computed from the buffer: `ScreenIs` and `ScreenShows` say that a text laid over
zeros, read for as many bytes as the export has, ended and printed up to the first '\0', is
that text and nothing of the `Junk` behind it, provided the size is the text's length, or one
more with a '\0' of the text's own; `ResultShows` and `RegionShows` are the two cases, and that
`result` was blanked is what the first needs. That the first filter of a line counts and not the
last one follows from `memory_query` going through them backwards: those before the first that
has an effect change nothing (`BeforeEffective`), and that one writes all of the region
(`FilterText`).

*Servers and the PlayStation 2 module.* `TableInv`: the NBD servers held have different
handles, and no handle is taken by nobody; as there are at least as many handles as slots, a free
slot means a free handle, which is why `nbd_new` never returns the place behind the array.
`BootInv`: what has been loaded is what comes before in the list. `ThreadInv`: there are never more threads than calls, so that a new
listener has a number of its own.

*Command.* `ClientInv`: as long as no other lookup came between, the one `result`,
`exportsize` and `pp` hold what this client's command left, at each place of its session.

*File plugin.* `HandlesInv`: places not yet given out are empty, and a descriptor is of its
handle's file. The place behind the array is an exception: it changes its file under a descriptor.
`TransferInv`: what has been moved so far, and that transfers under way are of different
files unless marked as mixed.

*Tty.* `RingInv`: a byte is where its position says, until printing that has *begun* may
have come round to it; `WriterInv` and `ReaderInv`: what a thread has copied, in either
part of a copy that crosses the end of the ring. That two positions less than the size of
the ring apart have different places is proved from `%` (`PlacesDiffer`).

*Workers.* `SlotsInv`: a slot is free exactly when its request is at rest, and at most one
request waits for its thread; `PlacesInv`: a connection is in the backlog, in libuv's hands or
in one slot. Neither depends on what the loop knows of its watcher, which is why the race
on it does no harm to them.

*Mini-xinetd.* `StdoutInv`: as long as no two threads were between saving and restoring at
one time there is at most one such thread, what it saved is the console, and `stdout` leads to where its
place says. `DescriptorsInv`: the descriptor of a connection and its duplicates are its own,
as long as none has been closed twice. For the configuration `ParseInv` says that the declaration that is open
is what `current` holds, field by field, and that the services so far are those written in
the lines so far; what a further line adds to what is written is a lemma for each kind of line.

*Memory cards.* `RequestInv` says where a request has come to. Its arithmetic (`Counted`) is
that pages written and remaining make up the count, that `i * pagesPerBlock + blockOffset` is the next
page, and that `endBlock` has the last one; with it a partial first block, full ones and a
partial last one are the same case. `PagesInv`: blocks before `i` are as wanted, those
behind as they were, and block `i` as the place in the cycle of load, inject, erase and
program says; `BufferInv`: the same for `bbuffer`, which while the block is erased is the
only place where the pages are that the request does not write. `MixedInv`: a write that is not marked as
mixed is alone, so that nobody else fills `bbuffer`. A failing call leaves the cycle
where it is, which is why at most the block at hand is lost.

### From which assumptions

Sizes and bounds are natural numbers, positive where the code divides by them or declares
an array of them; values that stand for "none" are not among the others. A buffer smaller
than a block, pools of contexts and plugins without a slot and exports without a byte are allowed. Beyond this:

* `NbdTransmission`: the export is smaller than the modulus (2^64);
* `Servers`, `NbdAssumption`: there are at least as many handles as slots, as with the
  repository's 3 and 2 (`nbd.c` 16, `lwnbd-common.h` 125), and one server has the name "nbd".
  With fewer handles `HandlesApart` does not hold: `nbd_new` does not test the end;
* `Ps2`, `NamesAssumption`: the servers are those of the repository;
* `Programs`, `LinkedAssumption`: the programs are linked with the plugins they name;
  `StructsAssumption`: the file, the memory and the command plugin have the functions their
  structures list;
* `Programs` and `Shell`, `StringsAssumption`, `LinesAssumption`: URIs, paths and lines are C
  strings, without a '\0' or a NULL in them, and a line is not empty, as `scanf` gives no
  empty word; `PathsAssumption`: a path names a file, so that its last component is a name;
  `ListAssumption`: the list of the commands fits their result, as four lines do 4096 bytes;
* `PluginStructs`, `DevicesAssumption`: a plugin that keeps a table of devices has room for one;
* `MiniXinetd`, `ConsoleAssumption`: a connection is not the console;
* `MemoryCard`, `CardAssumption`: the pages of a block are a power of two up to 2^15 and a
  card has whole blocks, as all cards do; `WidthAssumption`: the integers in which pages are counted
  are at least as large as a card, which `mcman_d.c` 207 reads from an `int`;
* `Tty`: that one thread prints, and for the stream that one client reads, are hypotheses of
  the theorems. The plugin has no lock (`tty.c` 42 waits for no bit of the event flag), and with two
  writers the first, with two readers the second does not hold;
* the conditions inside the properties (section 3), which are those of the runs.

What comes first ("the first free slot", "the first context of that name") is reasoned
about with the least-number principle of `WellFoundedInduction` on sets of numbers.

### What stays with TLC

* Liveness: `RequestTerminates`, `HangUpEnds`, `RequestEnds`, `ReadReturns`, `TransferEnds`,
  `ServedIfClientsLeave`, `SlotsComeBack`, `ConnectionsClosed`.

Liveness under fairness is out of the prover's reach. Induction over data is so as a rule of
inference; where a proof needs it, on the length of a string, a list of filters or a
configuration, it takes the least counterexample instead.

## 6. Where code and documentation disagree

| run | code | says |
|---|---|---|
| `readonly` | a WRITE is refused only when the plugin has no `pwrite`; the `readonly` setting is only advertised (`protocol.c` 124) | `lwnbd-common.h` 40 "all exports would be read only" |
| `served` | a grant sets `ctx->state`, of the handle all clients share; the dispatcher reads the client's `c->state`, so the client is greeted again (`protocol-handshake.c` 111, `nbd.c` 145) | `lwnbd-nbd-server.md` 12 "usable with certain clients" |

What else was met on the way; the models follow the code in each of these, and where a
property would not hold because of it, it is stated with the condition under which it does:

* a receive that failed passes `r < sizeof(struct nbd_request)`, -1 being converted to
  unsigned (`protocol.c` 43); the same in `protocol-handshake.c` 56;
* after a retry the data is sent with flag 1, which is `MSG_OOB` on Linux (`protocol.c` 114);
* with a buffer smaller than a block, which `servers/nbd/Kconfig` 13 allows, `bufblksz` is 0
  and a READ sends nothing for ever (`protocol.c` 74, 87-119);
* a READ or WRITE that does not begin and end at a block is rounded down and answered with
  success; of a READ the client then gets fewer bytes than it waits for (`protocol.c` 75, 132);
* two threads may get the same context (`contexts.c` 62), and two writes to different
  memory cards mix their pages in the one `bbuffer` (`mcman_d.c` 29), while `README.md` 50
  calls the library "thread-safe";
* a context whose constructor failed stays in the pool, and lookups find it (`plugins.c` 36);
* an EXPORT_NAME option without a name is granted the handshake's own context, or the export
  of an earlier option (`protocol-handshake.c` 86); and what any client is sent as size and
  flags is that of the shared handle, not of the context it was granted (97-103);
* the '\0' behind an option's data may be written one behind the buffer, as data of just its
  size are let through (`protocol-handshake.c` 68, 77);
* the empty name is that of the contexts which connections have taken, and these have no
  plugin to follow (`contexts_uri.c` 63);
* a context is used up by every connection and never given back (`nbd.c` 125);
* `ctx->sock` is read and never assigned, and `nbdify_context` is never called;
* a write of no pages at page 0 of a memory card goes over every block (`mcman_d.c` 164);
* the tty's data flag is never cleared, so a read that has to wait spins (`tty.c` 147);
* `command_pread` ignores the offset (`command.c` 34), the arguments of a POST command
  point into a stack frame that is gone (77), and a lookup without a query has -1
  parameters, which are not 0 (90): a key that was never set is then compared (97);
* the constructors of the memory, pcmstream and file plugins fill the place behind their
  table when it is full (`memory.c` 46, `pcmstream.c` 60, `file.c` 118);
* the filter `memcpy` and the commands copy a text whatever the size of its destination
  (`memory.c` 81, `builtin.c` 44);
* `echo` with a `$` in its argument copies a negative number of bytes (`builtin.c` 26-33),
  which is the example of `local-shell.c` 4-5;
* `memory_pwrite` copies over its own local variable (`memory.c` 30);
* the file plugin names an export after the last component of a path and opens that
  (`file.c` 119), while a path with two slashes is looked up by what follows the first
  (`yuarel.c` 69-74): the reader and the counter then follow NULL;
* the byte counter writes into the file when the file is called "api"
  (`local-command-wc.c` 54);
* the libuv server tests its variable for the file plugin before it is set, and since the
  first handle is 0, a second `-f` registers the plugin again (`lwnbd-server.c` 178);
* when no slot is free the libuv server does not accept the connection, and libuv calls
  back for no other one after that (`lwnbd-server.c` 149), or ends the process in an
  assertion, if a thread has yet to start the watcher;
* `uv_accept` is called by a thread of the pool (`lwnbd-server.c` 112), and libuv is not
  thread-safe: the loop learns of the watcher only when something else wakes it, so a second
  client may wait as long as the session of the first lasts, or for ever, when the loop
  stops the watcher after the thread has started it;
* after `ce=test` no line of the shell leads back to the commands (`local-shell.c` 29-42),
  and after `ce=api?echo=x` every later line is answered as `echo=x` followed by the line,
  as the name's query is the one found first (`local-shell.c` 122); a '$' in it then crashes on
  every later line;
* -1 in an `lwnbd_server_t` is not below 0 (`lwnbd_irx.c` 197), and the sifrpc server,
  having no `.new`, is always refused: the module follows `servers[0xffffffff]`;
* the listener is given the handle of a server as a socket, and closes every client it
  accepts (`lwnbd_irx.c` 152, `tcp.c` 61-66); two STARTs leave one nobody can stop;
* only the first START sets the server up (`lwnbd_irx.c` 136), which line 39 calls a "new
  bug : issue when config already done, write permission can't be enable back";
* "the per-connection handle" of the file plugin is the export's: a lookup replaces the
  descriptor others use, and does not close it (`file.c` 97);
* in mini-xinetd two threads that run at the same time exchange each other's `stdout`
  (`mini-xinetd.c` 153-158), a connection is closed twice when its streams cannot be had
  (150, 182), and stays open for ever when one of the two could (147-152), and the number of services is not compared with `MAX_SERVICES` (98).

## 7. What is not modelled

Byte order, cookies, descriptions, log output. The socket beyond "sent", "short",
"failed" and "end of file". In `NbdSession` the transmission phase is one step; it has its
own module. Of libuv what section 2 says of it, taken from how it behaves and not from
code of the repository; a torn access to its variables from two threads is not considered. Of pcmstream and atad only what the plugin table sees: each request is one
call of a driver, without state of the plugin's own. Code that does not compile, or that
nothing calls: `bdm.c`, `mcman_q.c`, the event loop with chargen and daytime,
`yuarel_split_path`, `file_close`, `lwnbd_trim`, `lwnbd_zero`. Code that does not use the
library: `sdl_text.c`, its font `Vera.ttf.c` (40 % of all lines), `loader.c`, `ioplib.c`.
`PROJECT.json` gives the reason for each part.

## 8. Plan

1. A composition of `NbdSession` with `NbdTransmission` in which the transmission phase of
   two threads shares the handle, and a proof that what one client is sent is what it asked
   for as long as no other is granted an export.
2. The transfers of pcmstream and of the memory plugin as modules of their own, once the
   plugins do more than one call of a driver for a request.
