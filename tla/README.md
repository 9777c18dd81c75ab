# WindCloud V1.2: formal model

WindCloud is a small cloud drive in C. A server (`src/server/`) accepts TCP
connections in an epoll loop, hands them through a queue to worker threads, and each
worker serves one client at a time. The client (`src/client/`) is a command line with
`pwd cd ls mkdir rm puts gets`. Both sides speak packets of a 20 byte header and up to
64 KiB of payload (`src/common/protocol.c`). `puts` and `gets` resume: the size of the
partial file is the resume point.

This directory holds TLA+ modules of that program, TLC configurations that check them
on small instances, and proofs of the main results for instances of every size. Paths
in this file are relative to the repository's root; `handle.c:646` stands for
`src/src/server/handle.c:646` and so on.

Contents: 1 inventory, 2 plan, 3 modules and their correspondence to the code, 4 runs,
bounds and fairness, 5 proofs, 6 what the checks found, 7 limits.

## 1. Inventory

| component | state | operations | talks to |
|---|---|---|---|
| Event loop (`server.c`, `epoll.c`, `server_socket.c`) | `listen_fd`, self-pipe, epoll set | accept and enqueue; the shutdown sequence after SIGINT | pool (lock, signal), kernel |
| Thread pool, queue (`thread_pool.c`, `queue.c`) | queue of descriptors, `active_fds`, `exitFlag` | enQueue, deQueue, unregister_active_fd, shutdown_active_fds, drain_pending_fds | event loop, workers |
| Worker (`worker.c`) | local `client_fd`, a `session_t` on its stack | wait, take a client, handle_request, unregister, close | pool, handlers |
| Session and dispatch (`handle_request`, `dispatch_command` in `handle.c`) | `current_path`, `should_close` | receive a packet, route it, leave on error | handlers, framing |
| Upload (`handle_puts` on both sides) | target file, mapping, `write_offset`; client: `resume_offset` | PUTS_REQ, PUTS_RESP, FILE_DATA, FILE_END, ACK or ERROR | file system, framing |
| Download (`handle_gets` on both sides) | `file_fd`, `total_size`, `send_offset`; client: local file, `server_size` | GETS_REQ, GETS_RESP, RESUME_POS, FILE_DATA, FILE_END | file system, framing |
| Directory commands and virtual paths (`handle.c`) | the tree below `SERVER_BASE_DIR`, `current_path` of each session | pwd, cd, ls, mkdir, rm; normalize_virtual_path | file system |
| Packet framing (`protocol.c`) | bytes in the socket, a packet half read | send_n, recv_n, send_packet, recv_packet | everything that talks |
| Client command loop (`client.c`, `client_command_handle.c`) | the connection, the local directory | read a line, parse it, run a command, go on whatever its result | upload, download, directory commands |
| Log (`log.c`) | level, stream and file behind one mutex | init_log, log_write, close_log | opened and closed by `main`, written by every thread |
| Configuration and start-up (`config.c`, head of both `main`s) | none after start-up | get_target, load_value_or_default | runs before any thread |

Where they meet:

* main thread and workers share the queue, `active_fds` and `exitFlag` under one mutex
  and one condition variable. Descriptor numbers are shared with the kernel, which
  gives a number out again as soon as it is closed.
* workers share the file system and nothing protects a file from two sessions: an
  upload truncates, extends and maps a file that others may be uploading, downloading
  or removing.
* the shutdown sequence of `main` reaches into running handlers: `shutdown()` breaks the
  connection of an upload whose file has its final size and whose worker `main` joins.
* client and worker share only the byte stream. After every error path both have to
  agree on who speaks next, because the client keeps a connection after a failed
  command.
* every thread logs; `main` opens the log before there are workers and closes it, mutex
  included, when they have been joined.

What is hard, and what makes each part correct:

| part | hard behaviour | correct means |
|---|---|---|
| pool | one signal per connection, spurious wakeups, workers between two critical sections when the shutdown starts, reuse of descriptor numbers | no lost wakeup; one owner per descriptor; `active_fds` exact; shutdown ends and leaves nothing open |
| server as a whole | SIGINT in the middle of uploads, clients accepted but never served | every session in one place; orderly stop keeps true resume points; nobody waits for ever |
| upload | preallocation by ftruncate, interrupted and resumed uploads, a killed server, two uploads of one name | the size is a true resume point; an acknowledged file is whole; stores stay inside the file; nobody waits for ever |
| download | size announced before the file changes, resumed downloads, a failing local disk | both sides count alike; blocks in place; a complete download is whole and real |
| a whole session | a command that failed half way leaves packets in the connection for the commands after it | in step while nothing fails; never a block in a foreign file; every command ends; the worker gets free |
| directory | cd checks and then moves, rm by others in between, `..`, a listing of limited size | each command atomic; no path above the root; a session is lost only by rm; a listing is complete |
| framing | partial writes and reads anywhere, failing calloc | whole packets, in order, once |
| log | buffered streams, threads still logging while the server stops | nobody uses a closed log; a message that was taken survives a crash |

`PROJECT.json` lists the hazards at their lines and the properties that watch them.

## 2. Plan

Each step is a module with its TLC instance, then its proofs.

| step | state |
|---|---|
| `ThreadPool` with the abstract `ConnectionService` | checked, proved (safety and refinement) |
| `Upload`, `Download`: the two protocols with their files | checked, all safety properties proved |
| `Framing` with the abstract `PacketChannel`, which the protocols assume | checked, proved (safety and refinement) |
| `Directory` with the abstract `DirectoryService` | checked, proved (safety and refinement) |
| `Session`: every command after every other on one connection | checked, safety proved |
| `Server`: the pool composed with the upload handlers | checked, safety proved |
| `Log`: configuration, start-up, log, shutdown | checked, proved |

Left:

* an abstract specification of a resumable transfer that Upload and Download implement
  when no fault beyond broken connections happens;
* a composition of the server with sessions that run every command, not puts alone;
* `parse_command_request` and `host_to_net_u64` (`protocol.c`) as operators.

Which composes which: `ConnectionService` and `ThreadPool` say when a session is served;
`Session` says which packets the commands of one connection exchange, `Upload`,
`Download` and `Directory` what the commands do to the files, all over the channel that
`PacketChannel` specifies and `Framing` implements. `Server` instantiates `ThreadPool`
and `Upload`; `Download` contains the uploads of other sessions as they appear on the
disk.

## 3. Modules

Every `MC` module instantiates the module it is named after. Definitions under a
comment that starts with "Fault" are variants of an action with a plausible bug in it;
no specification uses them. They exist so that each property can be seen to fail.

### ThreadPool, ConnectionService

`ThreadPool` follows `server.c:134-228`, `worker.c:12-81`, `thread_pool.c` and
`queue.c`. Every critical section of `pool->lock` is one action, because nothing in
such a section blocks except `pthread_cond_wait`, which is two: `Wait` goes to sleep
and a signal, a broadcast or `SpuriousWakeup` brings the worker back to the loop test.
What runs outside the lock is an action each: `Accept`, `HandleRequestReturns`,
`CloseClientFd`. `AcceptFails` may happen for any reason, not only for want of
descriptors; the connection then stays in the backlog.

| variable | code |
|---|---|
| `sock`, `backlog`, `pipe` | kernel: descriptors, connections not yet accepted, bytes in the self-pipe |
| `queue`, `active`, `exitFlag` | fields of `thread_pool_t` |
| `pc`, `clientFd` | where each worker is in `thread_func`, its `client_fd` |
| `mainPc`, `events`, `connFd` | where `main` is, the rest of the batch of `epoll_wait`, its `conn_fd` |

`active_fds` is filled at the first free slot and not at the worker's index (the
comment at `src/server/thread_pool.c:33` suggests the latter); the model does what the
code does. After SIGINT the four steps `BeginShutdown`, `SetExitFlag`,
`ShutdownActiveFds` and `DrainPendingFds` are separate, as in the code, so workers run
in between.

`ConnectionService` is what the pool promises: connections are taken in the order of
arrival, each once, at most `Num` at a time, none after the stop. The refinement
mapping counts a connection as pending from `accept` and as in service until `close`.

### Server

`ThreadPool` takes `handle_request` for one step; `Upload` lets a session be served as
soon as it is connected. `Server` instantiates both (`Pool!`, `Puts!`) and adds two
variables: `waiting`, the clients in the backlog in order, and `peer`, the client at the
other end of each descriptor. A client may send from its handshake on; what it sends
waits in the connection until a worker takes the descriptor. `HandlerStep` is one step of
Upload's worker in the thread that serves it, `HandlerReturns` the last one, after which
the connection is still open: the thread unregisters the descriptor and then closes it,
as `worker.c:70-77` does, and only `CloseClientFd` releases the peer.
`ShutdownActiveFds` breaks the connections behind the descriptors in `active_fds`,
`DrainPendingFds` those in the queue, `BeginShutdown` (close of `listen_fd`) those in the
backlog; `ClientLeaves` makes the descriptor readable with end of file. Uploads run one
at a time: sessions that upload to different names do not meet in the file system, and the
faults of Upload are left to its own runs (`ServerAssumption`, which otherwise repeats
what the two components assume).

`ImplementsPool` says the composition is a behaviour of `ThreadPool` with its fairness:
what ThreadPool assumes of `handle_request` (it returns once its connection is dead) is
here a consequence of the handlers' own steps.

### Session

One client process and the worker that serves it, over one connection, with all seven
commands: the loop of `client.c` and `process_command` on one side, `handle_request`
and `dispatch_command` on the other, and every way out of a handler, in the order of
the code. pwd, cd, ls, mkdir and rm exchange one packet each way and are one command,
`SIMPLE`. Contents and resume points are left open: any number of blocks that fits.
Each packet carries `n`, the number of the command it was sent for, which the program
does not have and only the properties read. `Window` is how many blocks the connection
holds: a sender with no `Room` blocks, so client and worker can wait for each other with
full sockets if the protocol lets them. A block that is longer than announced because the
local file grew is in it (`SendFileData(1)`, which the worker refuses at
`handle.c:702`), and so is a `calloc` that fails in `recv_packet` on a living connection
on either side (`ClientCallocFails`, `WorkerCallocFails`): the client goes on and finds
the rest of the payload where it expects a header (`garbled`, `RecvGarbage`). `strayed`
is a history variable for a failure in the middle of a transfer or a packet (local open,
read or write, `ftruncate`, `mmap`, `calloc`), after which the code itself leaves client
and worker out of step.

### Upload

Both `handle_puts` functions, several sessions on one name. A file is a sequence of
blocks of `FILE_BLOCK_SIZE`, 4096 bytes, which is also a page of the mapping; `Hole` is
a block of zeros `ftruncate` made. Each system call on the shared file is an action,
so two workers interleave between `fstat`, `ftruncate`, `mmap` and each store. A store
beyond the end of the file is `Sigbus`, which ends the process. `cpc`/`spc` are the
places of client and worker, `cpos` and `woff` their offsets, `c2s`/`s2c` the channel
that Framing implements. Every way out of the worker's `handle_puts` is an action:
refusals before `open` has succeeded (`RefusePuts`), a failing first `ftruncate`
(`ResetFails`), a failing second one or `mmap` after PUTS_RESP has gone out
(`ExtendFails`, `MmapFails`), and the third one, whose failure the code ignores
(`TruncateFails`). `Faults` switches the rare events: `"crash"` (the server is killed),
`"fstat"`, `"ftruncate"` (to the final or the received size), `"mmap"`, `"overlap"`
(uploads of one name at the same time). When `handle_request` has returned the worker is
in `closing`: what the client sends is lost, the connection still up. `abandoned`
remembers that a worker has gone back to `handle_request` although its client had its
PUTS_RESP and sends.

### Download

Both `handle_gets` functions, one client and its worker, plus the uploads (two sessions
at once if there are two `Uploaders`) and removals of other sessions as the disk sees
them. An upload is the worker of Upload reduced to its system calls on the file: open and
`fstat`, the three `ftruncate`, each store, and every way out, the failing ones included.
Where Upload promises that blocks are stored in order (`BlocksInPlace`), `UploadWrites`
stores the next one; where it does not (`astray`, Upload's `abandoned`), any. A store
beyond the end of the file is `Sigbus`, which ends the server. Files are inodes because a
removed file lives on for the worker that has it open. `Faults`: `"crash"`, `"mmap"`,
`"ftruncate"`, and `"disk"` for a client whose disk fails. Two history variables say
what a property excepts: `exposed` (an upload met a download or another upload of the
file, or ended without taking its preallocated blocks back: the server killed in the
receive loop, `mmap` failed, the final `ftruncate` failed) and `astray`. Variables of a
function that has returned, and of a client that has quit, are set back: `GetsOver`,
`Return`, `Leave`.

### Framing, PacketChannel

`send_n`, `recv_n`, `send_packet` and `recv_packet` for one direction. `Write(k)` and
the receiving actions move any number of bytes that the socket can take or holds. A
byte knows its packet and place; a header is recognised when its bytes are the bytes of
one header in order, which stands for magic, version and `data_len`. A `calloc` that
fails leaves the payload in the stream, and the next `recv_packet` reads it as a header.
`PacketChannel` is the promise: packets delivered in order, none left out before a
`recv_packet` has failed.

### Directory, DirectoryService

`cd`, `ls`, `mkdir`, `rm` and the file that `puts` creates. A path is its sequence of
components. `Walk` gives the path after each token of current path and argument, one
`StepToken` per turn of the `strtok_r` loop, and `Normalize` its last value. `cd` is
three steps (resolve, `opendir`, assignment of `current_path`), `ls` resolve, `opendir`
and one step for each `readdir`, the others two. Between two `readdir` calls other
sessions make and remove entries: `coming` is what `readdir` may still return, `lasting`
what has been there since `opendir`, all of which it does return before it ends; of the
rest it may return any. `AddEntry` puts an entry into the text as `handle_ls` does with
`snprintf` and a buffer of `MaxText`: one that does not fit is an error, a line end is
left out near the end. Any system call may also fail for want of descriptors, memory or
rights (`CallFails`); the answer is the same CMD_ERROR, and is called `FAILED` so that
`DirectoryService` can tell it from one that the tree explains. `DirectoryService`
executes each command in one step and defines its target without a loop: the components
left standing (`Standing`), those that no later `..` takes away, because from there on
`..` never outnumbers the names (`Up`, `Down`).

### Log

The log over the life of the server: `get_target` and `load_value_or_default` on a
configuration file that may be missing or lack a key, `level_to_int` with its
`strcasecmp` (`UpperCase`), `init_log` with a file that may not open, `log_write` by
`main` and the workers in three steps (`Lock`, `WriteLine`, `Flush`), the order of
`main`'s shutdown with the messages of `shutdown_active_fds` and `drain_pending_fds`
(`StopFd`), `close_log` in its steps, and a crash at any point. A stream has a buffer
that reaches the file at `fflush`, `fclose` or not at all.

## 4. Runs

All runs use two TLC workers. Deadlock checking is on for `pool`; elsewhere it is off
because the bounds on commands and connections let the system come to rest.

| run | distinct states | what it shows |
|---|---|---|
| `pool` | 78 thousand | `FdOwnedOnce`, `ActiveFdsExact`, `NoLostWakeup`, `ShutdownReachesSessions`, `CleanReturn`; under fairness `ShutdownCompletes`, `QueuedConnectionsLeaveQueue`; the pool implements `ConnectionService` |
| `server` | 211 thousand | the pool with uploads in its workers: `SessionInOnePlace`; after SIGINT `StopKeepsResumePoint` and `StopEndsPuts`; `ImplementsPool` |
| `session` | 507 thousand | every command after every other, every failure: `InStep`, `BlocksGoHome`; under fairness `CommandsEnd`, `WorkerFreed` |
| `upload_safety` | 2.05 million | uploads one after the other with broken connections, departing clients, refusals, local read errors: `ResumePointIsReal`, `AckedIsWhole`, `HolesOnlyUnderUpload`, `MappingInsideFile` |
| `upload_faults` | 446 thousand | all faults at once: `BlocksInPlace` until an upload is abandoned, and under fairness `PutsEnds`, always |
| `download` | 2.54 million | two sessions upload, replace, cut and remove the file, all faults: `OffsetsAgree`, `LocalInPlace`, `DoneIsWhole`, `DoneIsReal` |
| `framing` | 25 thousand | `ImplementsPacketChannel`, `InStep`, `PacketsArrive` |
| `directory` | 393 thousand | `LostOnlyByRemoval`, `ListingWhole`, `ImplementsDirectoryService` |
| `log` | 772 thousand | `LogOutlivesThreads`, `ReturnedIsKept` |
| `upload_crash`, `upload_sigbus`, `upload_success` | | each finds one disagreement, section 6 |

Bounds and why they are enough:

* pool: two workers and three descriptors. A connection waits while both workers are
  busy; with all three descriptors open `accept` fails; one worker sleeps while the
  other works; a closed number is given out again. The proofs cover every other size.
* server: one worker, two clients, two descriptors, three connections, one upload, one
  SIGINT. One client is served while the other sends from the backlog or the queue, a
  client comes back on a number given out again, and SIGINT meets an upload at each of
  its steps. A second worker would run a second upload, which is left out.
* session: four commands, files of two blocks, and connections that hold one, so that
  every file of two blocks makes its sender wait. A command that fails, one that meets
  its packets, one that meets the packets of that one, and one more.
* upload: two sessions, an old file of one block and a new one of two, three uploads
  and connections. That is enough for a resume after an interrupted resume and for a
  larger file that has to be emptied. With all faults at once (`upload_faults`) it is two
  uploads and two connections, both of the larger file; one still cuts the file under
  the other when it is interrupted. `upload_sigbus` meets overlapping uploads of different
  sizes, and the theorem `StaysInPlace` covers every size.
* download: the same two files, two inodes, two commands and two uploads, so that a
  second download resumes after a first one failed and after the name was removed and
  created anew. The two uploading sessions may run one after the other or at once, which
  is enough for a store beyond the end of a file the other session has cut.
* framing: a header of 3 bytes, payloads of 0 to 3, one of 4 that is too long, and a
  socket of 4 bytes: every packet with payload 2 or 3 is longer than the socket, a
  header may be split anywhere, a read may end anywhere.
* directory: two names, two sessions, arguments that go down, up, above the root and
  through names that do not exist, four commands, so that one session can create, enter
  and lose a directory to the other. Paths reach the limit `PathMax`. A listing holds
  fewer than four characters and the names have one and two, so that both fit in one
  order only, and then without a line end. With four commands a listing of one session
  meets up to three of the other.
* log: two workers and `main`, two messages each, and four configuration files: none,
  one with an unknown level and no file, one with a key twice, one with a level in small
  letters that names a file that cannot be opened.

Symmetry is used only in runs without temporal properties (sessions in `upload_safety`,
inodes and uploading sessions in `download`, workers in `log`).

Fairness:

* `ThreadPool`: weak fairness of the main thread and of each worker's own steps, which
  is thread scheduling, and of `handle_request` returning once its connection is at
  end of file, because then every `recv` and `write` in it fails; `ImplementsPool` in
  `server` shows that assumption for the upload handlers. A session on a living
  connection may last for ever; `QueuedConnectionsLeaveQueue` assumes that clients
  leave some time and says so in its statement. `ShutdownCompletes` does not need it.
* `Server`: weak fairness of the main thread, of each worker's steps in the pool and in
  its handler, and of the client programs; nothing about users, signals, or when
  `handle_request` returns.
* `Session`, `Upload`: weak fairness of the client's steps and of the worker's steps;
  none for users, the network or crashes. `CommandsEnd` and `PutsEnds` therefore say
  that the two never wait for each other, not that a network answers. `WorkerFreed`
  begins where the connection is dead: a peer that vanishes without a sign keeps its
  worker, because the code sets neither a timeout nor keepalive. A client in front of the
  rest of a packet goes on for sure only when a whole packet comes after it.
* `Framing`: weak fairness of the two loops.
* `Download`, `Directory`, `Log` and their properties are about safety; that a gets ends
  is `CommandsEnd` of Session, where it meets every other command.

## 5. Proofs

Each component has its theorems in a module of its own. A theorem about a property of a
run says of every value of the constants what the run says of one.

| module | theorem | property | for |
|---|---|---|---|
| `ThreadPoolProofs` | `TypeCorrect`, `OneOwner`, `ActiveExact`, `NoWakeupLost`, `NoSessionMissed`, `ReturnsClean` | `TypeOK`, `FdOwnedOnce`, `ActiveFdsExact`, `NoLostWakeup`, `ShutdownReachesSessions`, `CleanReturn` | any workers, descriptors, backlog; up to 16 SIGINTs, because `main` empties the pipe with one `read` of 16 bytes (`PoolAssumption`) |
| | `Refinement` | `ImplementsConnectionService` | the same |
| `UploadProofs` | `TypeCorrect`, `StaysInPlace` | `TypeOK`, `BlocksInPlace` | any sessions, files, sizes, and any faults |
| | `ResumesTruly`, `AcksWhole`, `NoHolesLeft`, `MapsInside` | `ResumePointIsReal`, `AckedIsWhole`, `HolesOnlyUnderUpload`, `MappingInsideFile` | the same with `Faults = {}`; `upload_crash` and `upload_sigbus` show why the assumption is needed |
| `DownloadProofs` | `TypeCorrect`, `OffsetsMatch`, `LocalPlaces`, `DoneWhole`, `DoneReal` | `TypeOK`, `OffsetsAgree`, `LocalInPlace`, `DoneIsWhole`, `DoneIsReal` | any uploading sessions, inodes, files, sizes, commands, and any faults |
| `FramingProofs` | `TypeCorrect`, `KeepsStep`, `Refinement` | `TypeOK`, `InStep`, `ImplementsPacketChannel` | any header, payloads, socket buffer and split of the stream |
| `SessionProofs` | `TypeCorrect`, `BlocksStayHome`, `KeepsStep` | `TypeOK`, `BlocksGoHome`, `InStep` | any number of commands, files of any size |
| `LogProofs` | `LogOutlives`, `KeepsReturned` | `LogOutlivesThreads`, `ReturnedIsKept` | any workers, messages, configuration files |
| `DirectoryProofs` | `Types`, `ListsAll`, `LostByRemoval` | `TypeOK`, `ListingWhole`, `LostOnlyByRemoval` | any sessions, names, arguments, commands, `PathMax` and `MaxText` |
| | `Refinement` | `ImplementsDirectoryService` | the same |
| `ServerProofs` | `OnePlace`, `StopKeeps` | `SessionInOnePlace`, `StopKeepsResumePoint` | any workers, descriptors, clients, files, with `Faults = {}` |
| | `PutsHold` | the safety invariants of Upload, in the composition | the same |
| | `PoolRefinement` | `Pool!Spec`, the safety part of `ImplementsPool` | the same |

The arguments:

* **ThreadPool.** The inductive invariant `IInv` has five parts. `Typing` is `TypeOK`
  and `PipeFromSignals`: `pipe <= signals` bounds the bytes in the pipe, which `TypeOK`
  alone does not do across `HandleSigint`. `LocalFds` ties the local descriptors to the
  places in the code: a worker holds one exactly between `deQueue` and `close`, `main`
  exactly between `accept` and `enQueue`. `ShutdownPhase` says how far the shutdown is.
  `FdOwnedOnce` is needed by nearly everything: without it `close` in one worker could
  disturb the entry of another in `active`. `ActiveFdsExact` needs that a free slot
  exists (`FreeSlot`): `active` holds the descriptors of the other serving workers, at
  most `Num - 1`. `NoLostWakeup` is inductive relative to `IInv`, a counting argument
  over the workers awake. `Refinement` maps every step to one of `ConnectionService` or a
  stutter.
* **Upload.** `PlaceInv` is `Typing` and, until an upload is abandoned, `Placing`: it
  gives each place of the client (`IdlePhase`, `RespPhase`, `SendPhase`, `ReplyPhase`) the
  places the worker may be in and what may be in the connection, and says of every
  block on the way which offset it will be stored at. `BlocksInPlace` alone is not
  inductive because a store trusts the order of packets. `SafeInv` adds `Solo` (one
  upload at a time, from `Faults = {}`), `Measured` (the file has the size the worker
  thinks) and `SentBlocks` (clients send no holes); `HolesOnlyUnderUpload` is part of it
  and the other three properties follow.
* **Download.** `StreamInv` says what is in the connection in each phase of a gets:
  offers, resume positions and, from `Streaming`, that `soff` is what the client has
  plus what is on the way, with every block at its place; it needs of the disk only that
  files are in place (`OnDisk`), whatever the other sessions do. `DoneIsReal` rests on
  `ApartInv`, which keeps as long as nothing overlapped and no upload left its zeros: no
  download runs while there is an upload (`Quiet`), no two uploads are of one file
  (`Exclusive`), a file reaches to the `woff` of its upload (`Within`), and zeros lie only
  where an upload that goes on still has to write (`Filled`). Each way out of `handle_puts`
  then has to show that it leaves none; `UploadMmapFails`, `UploadStopFails` and a server
  that dies with an upload in its receive loop do, and set `exposed`.
  `Exclusive` is needed because an upload whose file another one has extended would end
  with that one's zeros below its own `woff`. `Genuine` carries the absence of
  zeros from the file over the connection to the client.
* **Framing.** "The bytes on the way are the concatenation of all packets not yet
  returned" would need induction over packets. `Whole` says it byte by byte: from each
  byte on its packet is there to the end, the next packet follows with its first byte,
  and all later bytes are of later packets. Writing and reading move bytes between
  four pieces of one stream (`Flight`), which changes nothing; sending appends a packet
  (`WholeGrows`), returning takes one from the front (`WholeDrops`). `AtHeader` and
  `AtPayload` say that the receiver stands at the beginning of a packet or a payload.
* **Session.** `HomeInv` orders the packets of the two queues by command: data only
  behind the request of its own command. It holds however far the two are out of step,
  because who finds garbage has not begun to send or to receive a file (`Garbage`).
  `PhaseInv` is the usual table of places and queues, as long as nothing has strayed.
* **Log.** `LogInv`: who holds the mutex, that the stream printed to is open, that
  nothing stays in a buffer when the mutex is free, that workers exist only between
  start and join, and that messages are in the order of the calls.
* **Server.** `IInv` is the invariants of both components, obtained by instantiating
  their proof modules, and `Peers`: who is in the backlog and who behind which
  descriptor. A descriptor has a client exactly while it is accepted, queued or held by a
  worker; the sessions that are not over are in the backlog or behind a descriptor, each
  in one place; nothing has been read from a client still in the backlog or the queue; a
  session is `closing` exactly between the return of its handler and the close; a living
  link has a living socket.
  The pool's half costs little, because every step is a step of `ThreadPool` or leaves
  its variables alone (`PoolMoves`, which is also `PoolRefinement`): what has to be shown
  is that a handler returns only where the pool lets it. The uploads' half needs more:
  `ShutdownActiveFds` and `DrainPendingFds` break several connections in one step, which
  is no step of `Upload`; `BrokenTyping`, `BrokenSafe` and `BrokenPlaces` show that its
  invariants do not mind. `StopKeeps` then follows from `SafeInv`: after the stop no
  upload runs, so a hole in the file has no excuse.
* **Directory.** What a recursive function computes is the first obstacle: the library's
  induction theorems cannot be used, so `Induction` states induction with a set in the
  place of the operator, by the well-founded order of finite sets, and `Recursion` that
  a function with given steps exists, once for `Walk` and `UsedUpTo`. `IInv` is
  `TypeOK`, `Shapes` (arguments and texts belong to their command), `Closed` (every
  entry has its directory, so a file has nothing in it, which is why `unlink` orphans
  nothing), `InHandler` (between resolve and `enter` the target is the one the command
  asked for, from the path its session still has) and `Listed`: what has been there
  since `opendir` is still to come or stands in the text in full. `ListsAll` is `Listed`
  where `readdir` ends; a text only grows at its end, where `AddEntry` keeps what stood
  there on its line. `Refinement` needs that the loop of `normalize_virtual_path`
  arrives where `Destination` points (`WalkIsDestination`): `Placed` keeps, for each
  component of the path so far, the token it came from, and the surplus of names over
  `..` behind that token is the number of components after it. `LostInv` follows a
  target from `opendir` to the assignment.

Only model-checked, because liveness under fairness and `ENABLED` are out of the
provers' reach: `ShutdownCompletes`, `QueuedConnectionsLeaveQueue`, `StopEndsPuts`,
`CommandsEnd`, `WorkerFreed`, `PutsEnds`, `PacketsArrive`, and of `ImplementsPool` the
fairness of `ThreadPool`, above all that `handle_request` returns once its connection is
dead. Every other property of a passing run is a theorem. The theorems are about
`Spec`; runs with temporal properties use `FairSpec`, which implies it.

## 6. What the checks found

* `upload_crash` (`ResumePointIsReal`): `handle_puts` gives the file its final size
  before the first block arrives (`handle.c:646`) and takes it back only on its way out
  (`handle.c:734`). A server killed in between leaves a file of zeros; the next `puts`
  takes its size for the resume point, sends nothing and is acknowledged. An orderly stop
  by SIGINT does not do that (`StopKeepsResumePoint`).
* `upload_sigbus` (`MappingInsideFile`): a second upload of the same name truncates the
  file under the mapping of the first, whose next store raises SIGBUS and ends the
  server.
* `upload_success` (`TruthfulSuccess`): the client reports success after the server's
  error reply, because `recv_text_response` returns 0 for both.

What holds only without a fault, and why the properties say so:

* `DoneIsReal`: preallocated zeros come home in a download that is reported complete in
  two ways. One is overlap: the name was being uploaded during the download, or two
  uploads of it have overlapped at any time before. The other is an upload that ended
  without taking its zeros back: the server was killed in the receive loop, `mmap` failed
  (`handle.c:664-667` leaves without the truncation), or the final `ftruncate` failed,
  whose result `handle.c:734` does not look at. There is no third.
* `ResumePointIsReal`, `AckedIsWhole`, `HolesOnlyUnderUpload` and `MappingInsideFile` are
  checked and proved with `Faults = {}`: the zeros just named are a resume point for the
  next upload.
* `BlocksInPlace` and `LocalInPlace` end when `ftruncate` or `mmap` fails after PUTS_RESP
  (`handle.c:646-667`): the client's blocks are read as commands, and an answer to them
  may be taken for the answer to a later puts.
* `InStep` ends with a file operation or a `calloc` that fails half way (`strayed`). After a local
  write error in gets (`client_command_handle.c:469`) the rest of the stream is taken for
  the answers to the next commands; a GETS_RESP among them is taken by a later gets of
  another file, whose local file it may empty. `BlocksGoHome` and `CommandsEnd` hold all
  the same.

Smaller things met while reading, without a run: the comments at `handle.c:22` and
`handle.c:228` call the base directory `./upload`, the code uses `../tests`;
`handle_rm` is documented as removing a file (`handle.c:512`) and also removes empty
directories, with `rm .` or `rm ..` the base directory itself; `handle_ls` leaves out
the newline when fewer than three bytes of its buffer are left (`handle.c:495`), so the
last two names of a listing of nearly `MAX_TEXT_PAYLOAD` characters may stand on one
line; a comment in `config.c` names `./config/config.ini`, the code opens
`../config/config.ini`; `log_write` takes its time stamp before the lock, so stamps of
two threads may be out of order (`log.c:134`); a line longer than the 511 characters
`fgets` reads is executed as two commands.

`docs/现存BUG.md` describes deadlocks between client and server of an earlier protocol.
`PutsEnds` and `CommandsEnd` show that the present one has none of them, under every
fault of the models.

## 7. Limits

* Not modelled: build files and documents, which are no behaviour; the text of the
  user's input line (`fgets`, `parse_command_request` and the usage messages, which send
  nothing); sockets, pipe and epoll at start-up, whose failure ends the process and whose
  success is the initial state of ThreadPool. That is why the client loop and the
  start-up are listed as modelled in part.
* Data: contents of files are block numbers, sizes are whole blocks, names are model
  values, a block is never split over two packets, integer widths play no role (all
  sizes are `uint64_t` and far from their limit). Payload that looks like a header is
  left out of Framing and Session.
* The file system: no full disk. A store to a mapping whose blocks cannot be allocated
  would be a SIGBUS as well. The code ignores what `fprintf` and `fflush` return, so a
  message is lost when they fail; `ReturnedIsKept` is about a log that can be written. A
  `readdir` that fails looks like the end of the directory (`handle.c:476`) and gives a
  short listing; `ListingWhole` takes it that `readdir` reads what is there. The
  contents of listings are not part of `DirectoryService`, `ListingWhole` is about them.
* Memory: `calloc` fails in `recv_packet` (Framing, Session). `enQueue` does not look at
  what `calloc` returns (`queue.c:10-11`): without memory the next line ends the process,
  which for the files is the crash that Upload and Download have.
* Threads: every critical section is atomic, by the mutex. Memory outside the lock is
  local to a thread, except mapped files, whose stores are actions.
* The size of the backlog, of the pipe and the numbers of connections, commands,
  uploads and packets are bounded by constants that are named as bounds in the modules.
* Server runs uploads only, one at a time and without the faults of Upload; the packets
  of the other commands are those of Session.
