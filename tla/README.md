# A TLA+ verification of hdc

hdc (OpenHarmony Device Connector) is the debugging bridge of OpenHarmony. This
directory holds TLA+ modules that model it, TLC configurations that check them
on small instances, and TLAPS proofs of what the core modules say for every
size. The reference is the C++ code in `src/src`; every definition that models
code is mapped to its lines in `PROJECT.json` ("map").

## 1. The system

    hdc client --channel--> hdc server --session (TCP/USB/UART)--> hdcd daemon
    (one command)           (host side)                            (device)

A client process finds or starts the one server of the host and opens a
*channel* (a local TCP or Unix-socket connection) to it. The server keeps one
*session* for each device. A session multiplexes the channels' commands; each
command on a channel becomes a *task* on either side (file transfer, forward,
shell, app installation). Server and daemon are the same class underneath,
`HdcSessionBase`: a main libuv loop, one worker thread with its own loop for
each session, and threads that send from elsewhere.

### Inventory

| component | state | operations | interacts by |
|---|---|---|---|
| session life cycle (`common/session.cpp`, `*_tcp.cpp`) | `mapSession`, per session `ref`, `isDead`, `uvHandleRef`, `uvChildRef`, `childCleared`; `sessionRef`; `lstMainThreadOP` | MallocSession, ConnectDaemon/AcceptClient, SessionWorkThread, FreeSession and its stages, Send, TryStopInstance | socket pair main→worker, uv_async worker→main, references from any thread |
| session tasks (`session.cpp`, `task.cpp`) | `mapTask`, `taskCount`, `clearTaskTimes`, refCount of a task | DispatchTaskData, ClearOwnTasks, BeginRemoveTask, TaskClassDeleteRetry | timers on the worker's loop; `taskCount` shared by all sessions |
| stream framing (`session.cpp`, `tcp.cpp`) | `ioBuf`, `availTailIndex`, the writers' mutex | Send, WriteUvTcpFd, AllocCallback, ReadStream, FetchIOBuf, OnRead | a TCP connection |
| UART transport (`uart.cpp`, `host_uart.cpp`, `daemon_uart.cpp`) | `outPkgs`, `packageIndex`, `dispatchedPackageIndex`, slots | SendUARTData, SendPkgInUARTOutMap, ValidateUartPacket, PackageProcess | a lossy serial line, several threads |
| USB transport (`usb.cpp`, `host_usb.cpp`, `daemon_usb.cpp`) | ignore list, bulk endpoints of both ends, the reader thread, `isAlive`, `atPollQueue` | DetectMyNeed, SubmitUsbBio, CancelUsbIo, WatchEPTimer, OnUSBRead, SendUSBIOSync | libusb / FunctionFS |
| handshake and authentication (`daemon.cpp`, `server.cpp`, `auth.cpp`, `hdc_ssl.cpp`) | `handshakeOK`, `mapAuthStatus`, known hosts, TLS state | ServerSessionHandshake, DaemonSessionHandshake, HandDaemonAuth.., the dialog | packets CMD_KERNEL_HANDSHAKE, a detached thread |
| key files (`auth.cpp`, `password.cpp`) | hdckey, hdckey.pub, hdckey.key | GenerateKeyPair, TryLoadPublicKey, CheckPrivateKeyFile, keygen | files without a lock |
| channel life cycle (`channel.cpp`, `server_for_client.cpp`, `server.cpp`) | `mapChannel`, per channel `ref`, `isDead`, `childCleared`, two streams | accept, DoCommand, BindChannelToSession, Attach/DetachChannel, FreeChannel and its stages | main loop, session workers |
| client (`client.cpp`) | its channel, timers, terminal | ExecuteCommand, Connect with retries, CommandWorker, ReadStd, FreeChannel | the channel |
| server instance (`server_instance.cpp`, `base.cpp`, `main.cpp`) | pid file with its lock, endpoint file | ProgramMutex, pull up, restart, kill, InspectServerInstance | files, signals |
| target list (`server.cpp`, `server_for_client.cpp`) | `mapDaemon` | tconn, tconn -remove, plug-in, UpdateHdiInfo, NotifyInstanceSessionFree | main loop and workers, entries copied outside the lock |
| subservers (`subserver/`) | suspended devices, processes, pid file | spawn-sub, killall-sub, timers | processes, a file lock |
| file transfer (`transfer.cpp`, `file.cpp`, `*_app.cpp`) | `CtxFile` on both ends, open files, refCount | CMD_FILE_* / CMD_APP_*, OnFileOpen, OnFileIO | packets, the file pool |
| forward (`forward.cpp`, `daemon_forward.cpp`) | contexts on both ends | CMD_FORWARD_*, FreeContext | packets, sockets of the user |
| daemon commands (`daemon_unity.cpp`, `shell.cpp`, `async_cmd.cpp`, `file_descriptor.cpp`) | child process, reader and writer thread, refCount | start, output, input, stop | threads, pipes |
| jdwp/ark (`jdwp.cpp`, `register/`) | `mapCtxJdwp`, trackers, the parameter persist.hdc.jdwp | registration, end, list, restart | Unix sockets, a parameter |

The behaviours that are hard to test: frees that come from several threads at
once while others hold references; a worker that is still queued, or reads
several commands at once; close callbacks that are counted and must all come;
counters shared between sessions; packets split, merged and cut anywhere; lost,
repeated and late UART packages; a bulk read nobody cancels; file requests that
complete in any order; a device or an application that comes back before its end
was noticed; processes that end between two calls on a file; stopping with
sessions alive. `PROJECT.json` ("hazards") lists each at its line.

What makes a component correct: a record (session, channel, task, context) is
freed once, after the last one who uses it, and always in the end; a stream
delivers whole packets, once, in order, and gives up only for invalid ones; a
transport retries without loss or repetition; a command runs only if its host
was authorised; lists and files say what there is; nobody waits for ever.

## 2. Modules

| module | models | run by |
|---|---|---|
| `SessionLife` | what the session layer promises: opened, killed, destroyed, in this order and once, and not under a reference older than the kill | instantiated by `HdcSession` |
| `HdcSession` | TCP sessions of one server or daemon: creation, worker thread, control channel, senders, destruction, stopping the instance | `MCHdcSession`, `HdcSession_proofs` |
| `HdcTaskClear` | the tasks of all sessions of an instance and the end of a worker (`ReChildLoopForSessionClear`) | `MCHdcTaskClear`, `HdcHost_proofs` |
| `HdcFraming` | one direction of a plain TCP session: writers, byte stream, reader | `MCHdcStreams`, `HdcFraming_proofs` |
| `HdcUart` | both ends of a serial line: senders, write and read threads, acknowledgements and retries | `MCHdcUart`, `HdcUart_proofs` |
| `HdcChannel` | the server's channels between its main thread and a session's worker | `MCHdcChannels`, `HdcChannel_proofs` |
| `HdcClient` | one client from its connection to its exit | `MCHdcChannels`, `HdcHost_proofs` |
| `HdcCommands` | a shell, a command or a bug report on the daemon and the host's log file | `MCHdcChannels`, `HdcHost_proofs` |
| `HdcInstance` | the one server of a host, its lock file, and the clients that start, restart and kill it | `MCHdcChannels`, `HdcHost_proofs` |
| `HdcKeys` | the key files of the host | `MCHdcChannels`, `HdcHost_proofs` |
| `HdcHandshake` | both ends of a session's handshake: versions, keys, dialog, signature, TLS, authorised commands | `MCHdcConnect`, `HdcConnect_proofs` |
| `HdcTargets` | the server's entry for one target and everyone who writes it | `MCHdcConnect`, `HdcConnect_proofs` |
| `HdcUsb` | the USB transport at both ends of the cable | `MCHdcStreams` |
| `HdcSubserver` | handing a USB device over to subserver processes | `MCHdcConnect`, `HdcConnect_proofs` |
| `HdcTransfer` | both tasks of a file, directory or package transfer | `MCHdcServices`, `HdcTransfer_proofs` |
| `HdcForward` | both tasks of a port forwarding and their contexts | `MCHdcServices`, `HdcServices_proofs` |
| `HdcJdwp` | the daemon's list of debuggable processes, the processes and the trackers | `MCHdcServices`, `HdcServices_proofs` |

How they fit together. `HdcTaskClear` is the detail of the single step
`WorkerFinish` of `HdcSession`; `HdcFraming` is the detail of its
`ReadStreamError`, `WorkerSend`, `ThreadSend` and `SendEnd`. `HdcChannel` sees the
session only as up, dead or stopped, which is what `HdcSession` makes of it, and
the daemon as packets for the channel. `HdcTargets` sees a session as made, live,
dead or gone and a handshake as done or not, the abstraction of `HdcSession` and
`HdcHandshake`. `HdcHandshake`, `HdcTransfer` and `HdcForward` use ordered queues
of messages, which `HdcFraming` justifies for TCP (`StreamIntact`) and `HdcUart`
for a serial line (`InOrder`). `HdcCommands` is a task of `HdcTaskClear` seen
from inside: its `refCount` is the busy flag there, and so are those of
`HdcTransfer` and `HdcForward`.

### HdcSession

One action is one libuv callback of the main loop or of a worker's loop, or one
step of another thread. The variables have the names of the fields
(`isDead`, `ref`, `uvHandleRef`, `uvChildRef`, `childCleared`, `sessionRef`,
`mapSession`, `lstMainThreadOP`). A session passes through

    FreeSession            MarkDead: isDead, start the timer           opTimer
    FreeSessionOpeate      ref = 0: stop the worker, or go on          waitTimer
    FreeSessionContinue    childCleared: close the main-loop handles   finIdle
    FreeSessionFinally     uvHandleRef = 0: delete

`handle` keeps the libuv state of each main-loop handle; "closingCb" is a close
whose callback decrements `uvHandleRef`, "closing" the one of
`HdcDaemonTCP::AcceptClient`, which has none. `ctrl` is the socket pair
main→worker, `batch` what one read of `ReadCtrlFromMain` took out of it.
`worker = "wild"` and `SendEnd` on a deleted session are the undefined
behaviour behind the first finding: once it happens anything may follow, so the
model follows the thread no further. `mem = "torn"` is a session that
`MallocSession` deletes half made (`session.cpp:543`) with two handles of it still
on the main loop; what the loop does to that memory is not followed either.
`early`, `freedBy` are history variables.

A second stop message that arrives while `ReMainLoopForInstanceClear` runs
stops that loop as well and leaves sessions alive; the model has this as
`instance = "aborted"`, and `DaemonStops` and `SessionsEnd` are about instances
that are not aborted.

### HdcTaskClear

`mapTask`, `taskCount` (unsigned, modulo `CountMod`) and `clearTaskTimes` are
the code's; `timer` is the `TaskClassDeleteRetry` timer of a task, `busy` its
`refCount > 0`. `DispatchNewTask` on a channel that has a task deletes the old
`TaskInformation` but not the task object (`orphan`), as `AdminTask` does.
`disturbed` is a history variable: the session did not have `taskCount` for
itself while it was clearing.

### HdcFraming

A byte is the pair (packet, place in it), so a garbled packet is visible. Writers
take the mutex and write any number of bytes that the connection has room for;
the reader gets any number of those, at most the room `AllocCallback` offers.
Packets are good, too large, or invalid in one of the ways `OnRead`,
`DecryptPayload` and `FetchCommand` tell apart.

### HdcUart

`outPkgs`, `slots`, `packageIndex`, `dispatchedPackageIndex`, `requested` and
`timeout` are the code's, once for the host and once for the daemon; the same
actions serve both ends, with the differences of `HdcHostUART` and
`HdcDaemonUART` where they are (`CanSend`, `Reads`, `TransferError`,
`ResetOldSession`, `IsNew`). One action is one step under `mapOutPkgsMutex`: a
pass of the write thread (`SendPkgInUARTOutMap`), adding a package, handling a
received one; `++packageIndex` is a load and a store. `late` is the set of
packages whose answer is overdue in a pass: any at a request, all at the time
limit, since `Sent` sets that limit a millisecond after the last one is overdue.
`sent`, `got`, `broken`, `again` and `raced` (two threads of an end were inside
`SendUARTData` for one session at a time) are history variables.

`Next` is a line with one session of the host. `ReconnectNext` adds what the
host does once it has connected again while the daemon keeps the old session.
Abstractions: a garbled package is a lost one; each package comes in a read of
its own; the stages of freeing a session are one step, `StopSession`, taken when
no thread is inside Send. In the code the session is for a moment in the map
without its `hUART` (`session.cpp:607` to `651`), and the daemon's read thread, which
nobody joins, may look at it then and follow a null pointer; the model lets the
daemon read before that moment or after it. No code sends a NAK, so there is none, although the
comment at `uart.cpp:643` has it resend garbled packages: they are resent
after the time limit. A soft reset never gets onto the line (finding 3), so
`ResetOldSession` stays unused by the two ends modelled here.

### HdcChannel, HdcClient, HdcCommands

`ch` is the `HdcChannel` record: `ref`, `isDead`, `uvHandleRef`, `childCleared`
and the two streams (`work` of the main thread, `child` of the worker). Writes
under way are counted for each stream (`wWork`, `wChild`); a stream that closes
calls them back. `bindNext` and `clearNext` are the two `DoNextLoop` idles,
`ctrl` the pipe to the worker, `hold` what the worker does between
`AdminChannel(OP_QUERY_REF)` and `--ref`. `connecting` is the repeating timer of a
tconn: it has the address of the channel without a reference, and goes on after
the channel is deleted, where the model lets it read what the channel left. Commands are one representative for each
path through `DoCommand`. The client's `cli.free` has the stages of the same
`FreeChannel`, with the handles of the terminal added. In `HdcCommands` the
reading thread runs from `StartWorkOnThread` on, before the worker counts it;
`cut` marks output that the code gives up on purpose (a stopped task, more on a
terminal than one read takes, a block that could not be sent).

### HdcInstance, HdcKeys, HdcSubserver

These are about processes and files. One step is one system call on a file
(`fopen(.., "w")` empties it, the write comes later), and a process may end
between any two (`MaxMishaps`, `MaxKeyFaults`). The lock of the pid file is
released when its holder closes the file or ends, as `F_SETLK` locks are.

Failures are noticed only where the code looks. `ProgramMutex` compares what
truncating and writing return with -1, which libuv never returns, so a server may
serve with somebody else's pid in the file (`unnoted`); the results of `fclose` on
the key files are ignored, so a generation may go on over an empty file
(`KeyWriteLost`); `UnregisterPid` ignores a rewrite that failed after the
truncation (`torn`).

In `HdcSubserver` each `ReviewUsbNodeLater` starts a timer of its own
(`smain.delays`), and each of them takes the device off the ignore list, whatever
put it there: `early` is set when that ends a handover whose own timer still runs
(`reconnect`, then `spawn-sub` within 15 seconds). The reading thread of the main
server releases the device at its own time (`MainReaderEnds`), apart from the free
of the session. `plat = "windows"` has the two differences of that build that
matter to the pid file, a rewrite that appends and a killall-sub that finds no
process.

### HdcHandshake

Keys and signatures are values: a signature is right if it was made with the
private key of the public key that was sent, over the token the daemon issued,
in the scheme both ends use. Either end reads any number of arrived messages at
once and decides once per read whether they are encrypted. The detached thread
of the dialog (`daemon.cpp:617`) has references to the stack of its worker: once
that frame is gone (`FrameIsGone`) what it does is a choice.

Where the code relies on time, or says nothing, the ends may part. The model does
not hide this, it records it in `hhist.lapses`: "wait", the sleep of
`SSL_HANDSHAKE_FINISHED_WAIT_TIME` ended before the host had taken the last plain
message out of the stream (`daemon.cpp:996`), so that the first encrypted one may be
read with it; "dialog", the user answered before the detached thread had told the
host of the dialog, so that the thread marks an allowed session as failed; "silent",
`SendAuthEncryptPsk` could not make a pre-shared key and returned without a message
(`daemon.cpp:1525`). `TasksAuthorised`, and that the server never finishes without
the encryption it requires, hold in every behaviour; the rest of `HandshakeAgrees`,
and `AllowedIsAuthorised`, where there was no lapse.

### HdcTargets, HdcUsb

`HdcTargets` follows one connect key. `UpdateHdiInfo` is two steps, the copy of
the entry and its write, as the code does it outside the lock. A connection attempt
ends, but a handshake need not: the server has no time limit for a device of the
network that has accepted the connection and says nothing (`PeerSilent`). `HdcUsb` has the
host's detection, reader thread and cancellation, the cable with transfers
under way, and the daemon's endpoints with `isAlive`, `atPollQueue` and the
watch timer; `Pieces` is the number of transfers a packet takes after its head. Neither
the request that drains the endpoint on the thread pool nor the last lines of the
reader, behind its `--ref` (`host_usb.cpp:726`), hold a reference: `stale` records that
a session was deleted under them, and then they may release the device or not.

### HdcTransfer, HdcForward, HdcJdwp

A transfer has a set of requests of the file pool, `xfer.req`; any of them may
complete next, with success or failure. A file is blocks, and the disk keeps
which block was written where. A forward has one context per connection at each
end; the ends exchange messages in order and everything else (connects, reads,
closes, idles) happens at any time. The I/O thread of a device (`io`) is given up
after 100 ticks of `FreeJDWP`; it then works on what is deleted (`abandoned`). The idle
of `SetupJdwpPointCallBack` runs for a context that may have been freed or deleted; in
the second case it goes on or does nothing, as memory has it. In `HdcJdwp` events of the daemon's loop are
served in the order they became ready (`jd.ready`). `ProcessListUpdated` ends at the
first stopped tracker of the vector, as `jdwp.cpp:611` does (`missed`: a tracker behind
it); `Connect2Jdwp` may give up while the daemon is up (`gaveUp`); `Disconnect` notifies
without the mutex, between the look at the condition ("checked") and the sleep
("wait").

## 3. Runs

| run | instance | shows |
|---|---|---|
| `session_server` | 2 server sessions, 1 pool thread, 2 sender threads, failing allocation and start | references, one free pipeline, worker before session; implements `SessionLife` |
| `session_daemon` | 1 daemon session, 2 messages of a kind queued, fair | both counts of close callbacks; dead sessions and closed streams lead to deletion; the instance stops, and with no session |
| `session_thread_up` | violation | `FreeSessionContinue` with a worker still queued |
| `task_clear` | 2 sessions, 2 channels, 3 tasks, failing timers, fair | no use after delete, stop before delete, a lone clear is complete, clearing ends |
| `task_early` | violation | clearing ends early with a task alive |
| `streams` | framing: 2 writers, head 2, buffer 6, connection 3, 2 packets of 5 kinds; USB: 2 sessions, 2 packets of each end in 2 transfers, 2 transfers under way, 2 openings of the endpoints, 2 review timers, 1 fault; fair | order, no false alarm, invalid packets stop, in bounds, nothing waits, writers return; bytes reach their session in order, a device is released, host and daemon come back |
| `uart` | 1 session, 2 threads and 2 payloads of the host, 1 retry, failing port, pipes and workers | payloads once and in order, none acknowledged is lost unless threads raced, one package in flight, no lost wakeup, nothing left of a deleted session |
| `uart_live` | 1 session, 1 payload of the host and 2 of the daemon, 1 retry, fair | senders return, queues drain |
| `uart_stale` | violation | an acknowledgement stuck at the front of `outPkgs` |
| `channels` | a channel with 2 packets of the client and 1 of the daemon; a client; a command with 2 blocks of output; 2 clients and up to 3 servers; 2 workers on the key files | references of channel, client and task; a freed channel leaves nothing; one server, and commands meet it; keys match; channel, client, command and pull-up end |
| `connect` | handshake over TCP: 2 sessions one after the other, 2 keys, hosts of three ages, encryption, validation and authentication on or off, `shell` denied or not; target: 2 sessions, 2 clients, each kind of target; 2 subservers, 2 review timers, 1 reader | no command unauthorised; both ends agree; the list is true; a handed-over device stays so; allowed hosts, tconn and the device get on |
| `services` | 2 files of up to 2 blocks; a connection; 2 processes, 2 links, 2 trackers | refCounts and open files; what is reported is on disk; contexts; the list is what is connected; transfer, connection and registration end |

The runs `streams`, `channels`, `connect` and `services` hold several parts that share no state. A behaviour moves
one of them (`active`, chosen in the initial state) and leaves the others as they
begin, so the states are those of the parts side by side, not their product, and
each property is checked on all behaviours of its own part. Weak fairness is
demanded for the part that moves only (`On(part) /\ Action`); for the others the
action is disabled and the demand empty. Liveness is stated as `[]<>(P => Q)`.
Where `P` once true stays true until `Q`, as it does for the conditions used
here (a dead record stays dead, a finished context finished), this says that `P`
leads to `Q`; where `P` may go away by itself it says that `P` does not last
without `Q`.

Bounds. Two sessions on one pool thread are the least in which a worker waits
for another session's; more threads remove that wait and more sessions add no
new relation, since sessions share only `sessionRef`, the pool and the message
list. `MaxPush` bounds messages of a kind that are queued at once: one is enough
for a repeated free, two for a repeated stop. Three tasks, two channels and two
sessions let `taskCount` be written by another session while a removal of the own
one is under way; `CountMod` 4 lets it wrap. Two packets in a buffer of six bytes
give a head in two reads, two packets and a part in one read, one that ends
exactly at the end of the buffer and one that never fits. On the serial line one
retry gives every duplicate (a package that arrived whose answer is late or
lost), two payloads the shortest gap, and two threads of the host the race for
`packageIndex`; the real `retryChance` of 4 only repeats the case. One channel suffices because channels meet only in their
session's end and in `fport rm`, which the model lets any other client send; one
write for each stream is the least that holds a reference. Two clients of
different kinds are the least in which a check meets a start, a restart or a
kill. Two sessions, one after the other, are the least in which the first one's
end meets the second (`HdcHandshake`, `HdcTargets`, `HdcUsb`), and on the cable two
packets with two transfers under way the least in which their order can go wrong; two
timers of `ReviewUsbNodeLater` are the least in which an earlier one meets a handover.
`Configs` of `HdcHandshake` is not every mix of the daemon's parameters: the OEM mode,
the bypass value and an unset `const.hdc.secure` only decide `authEnable`, which
`secure` already switches, and over USB and UART there is no TLS; of the two keys it
does not matter which one the host has. One reader of the main server keeps
`DeviceComesBack` in reach of TLC; the safety part was checked with two and is proved
for any number. two files of two
blocks let writes of one file overtake each other and a second file follow; two
processes compete for one place in the list. `session_server` uses symmetry
(sessions and threads are interchangeable; `ImplementsSessionLife` is a safety
property); runs with liveness do not. Deadlock is not checked: an instance that
has used up its sessions, tasks or packets may stop, and so may a process nobody
talks to.

Fairness. A libuv loop serves every ready handle in each turn, so a callback that
stays ready runs (WF). In `HdcSession` a worker whose loop is kept busy by its
own callbacks still gets to the others (SF), and `FreeSessionOpeate`, a repeating
timer, some day fires while nobody is inside Send (SF). The code does not
guarantee that when other threads send without end, so the liveness run has no
such threads; nor does it let the allocation or the start fail, because then a
session really is never deleted (section 4). A send ends because
the other side reads or the connection breaks. In `HdcTaskClear` only the tick
is fair: a task may keep its operation for ever. In `HdcFraming` the reader
polls and a writer repeats `send`. In `HdcUart` read and write
threads go on (WF), a waiting sender gets the slot if it becomes free again and
again (SF), and a free that has begun ends (`SessionsEnd`); nothing is assumed
of the line, which may lose everything. Elsewhere: loops, timers, threads and
processes are scheduled, the file pool completes its requests, a
parameter that was set is delivered, libusb ends a transfer that was cancelled, a
reading thread whose session is gone ends and frees its session before it does; a
connection attempt ends, and a free that was asked for is done; nothing is assumed of
the end of a handshake, of users, peers, commands, programs behind a forward, or the order in
which things complete.

Exceptions. Some properties name a case in which the code really does not keep
them; the model reaches these cases (unless the list says otherwise), and the
property says so in its comment.

| property | not promised |
|---|---|
| `SessionReferences` | references taken after `FreeSession` has marked the session (`session.cpp:853`) |
| `SessionPipeline` | the worker of a session that is freed while it is queued (finding 1); a session `MallocSession` deletes half made (`session.cpp:543`) |
| `DaemonStops`, `SessionsEnd` | an instance whose clearing loop a second stop message ends; for `SessionsEnd` a failing start or allocation, and threads that send without end (not in that run) |
| `InOrder`, `AckedIsDispatched` | no gap and no loss where the sender has given the session up (section 4), a dispatch failed, the daemon made the session a second time, or two threads of the sender were inside `SendUARTData` for it at a time (`uart.cpp:930`); once and in order holds there too. Not modelled: the daemon's reader between `session.cpp:607` and `651` |
| `FreedChannelReleased` | the repeating timer of a tconn, which keeps using the deleted channel (`server_for_client.cpp:658`); everything once the session is gone |
| `ClientSafe` | the terminal of a shell when `CommandWorker` gives up after its time (`client.cpp:731`): it stays raw |
| `CommandSafe`, `CommandEnds` | output of a stopped command, of a block that could not be sent, or beyond one read of a terminal; the end of a command that could not be forked |
| `InstanceSafe` | the pid in the file when truncating or writing it failed unnoticed (`base.cpp:1727`, `1742`); a lock held by a client's check, or by a server that has not written its pid |
| `PulledUpServes` | a failed call, a killed process, a lock held by another client's check |
| `KeySafe` | two workers that generate at once, re-encryption, keygen; for the files (not for what is signed): an end while the private key is written, and a write lost at `fclose` (`auth.cpp:552`, `592`) |
| `HandshakeAgrees`, `AllowedIsAuthorised` | all but the required encryption after one of the three lapses (`daemon.cpp:996`, `617`, `1525`) |
| `TargetsListed` | entries written back over newer ones, a tconn to the local host that gave up, an old session's end over a new session's entry |
| `TconnAnswered` | a device of the network that is connected and silent (`host_tcp.cpp:104`) |
| `UsbSafe` | a session the daemon made again under a freed id starts in the middle; the ignore list after a session was deleted under its drain request or the last lines of its reader (`host_usb.cpp:907`, `726`) |
| `UsbComesBack` | a bulk read that starts just after `CancelUsbIo`; a skipped packet, or a failed first read, after which the daemon does not read again |
| `SubserverSafe` | a device that the timer of an earlier `ReviewUsbNodeLater` takes off the list (`host_usb.cpp:268`); pids lost by an end, or a failed write, over the truncated file, or by a killall-sub that ended; killall-sub on Windows |
| `TransferResources` | a directory one of whose files shrinks while it is read: the empty last block ends the file before an earlier write of it has completed, `CMD_FILE_FINISH` comes twice, and the next two files are opened over each other (`transfer.cpp:291`, `file.cpp:664`; TLC shows it with three files) |
| `ReportedIsIntact` | a source that shrinks, an error on an empty file |
| `TransfersEnd` | an install whose package cannot be read or written, or whose process cannot be forked |
| `ForwardSafe` | a context deleted with its idle pending (`daemon_forward.cpp:31`); an I/O thread given up after 100 ticks (`forward.cpp:187`); whether a device was connected |
| `JdwpSafe` | trackers behind a stopped one (`jdwp.cpp:611`) and lists that do not fit (`jdwp.cpp:551`); processes turned away from a full map |
| `AppIsListed` | a process turned away, or whose three attempts failed while the daemon was up (`hdc_jdwp.cpp:91`) |

## 4. Findings and known disagreements

1. `session_thread_up`: "work when child-work thread finish" is not so. The loop
   that waits for the thread to come up tests `childLoop.active_handles`, which
   the report timer has made positive before; a free in between takes the
   session apart, and deletes it, under a worker that is still queued.
2. `task_early`: "all task has been free" is not so. `ClearOwnTasks` sets
   `taskCount` to what is in the map, without removals already under way, and
   all sessions share the counter.
3. `uart_stale`: "response package always send nowait noorder" is not so. The
   host cannot send a package, response or soft reset, for a session that is not
   in its map; the pass of the write thread ends there, and so does every later
   one. A daemon that keeps a session the host has given up blocks the line.

Known disagreements without a run of their own. `ReadCtrlFromMain`
(`session.cpp:1496`) stops at the first control command that fails: when
`WorkThreadStartSession` fails, an `SP_STOP_SESSION` that came in the same read
is dropped and the session, marked dead, is never deleted. With
`StartFails = {s1}` in `HdcSession_daemon.cfg` TLC shows this as a counterexample
to `SessionsEnd`.

`uart.cpp:623` says of `outPkgs` "It is used to maintain the data reliability of the
link layer". When the last retry of a piece is used up (`uart.cpp:784`), the session is
freed, and `ClearUARTOutMapRaw` frees its slot. `SendUARTData` does not look at `isDead`
between the pieces of a message, so a thread that waited for the slot adds the next piece
to the dead session, and until that leaves the map the write thread sends it. The other
end, whose session is live, dispatches it: its worker is given a message without its
first piece. The property is `Reliable` of `HdcUart`; with `Retry = 0` and `Reliable` as
the invariant in `HdcUart_live.cfg` TLC shows the counterexample.

## 5. Proofs

Every number below (sessions, channels, processes, connections, packets, retries)
is a constant; the theorems hold for all its values, from the assumptions named in
the modules. These say only that sets of actors are finite, that bounds are natural
numbers (`...Bounds`, `SubserverBound`), that sizes are positive
(`FramingAssumption`), that there are fewer tasks than `taskCount` can count
(`TaskAssumption`), that the enumerated starting points have the fields they
should (`ScenarioTypes`, `JdwpBounds`), and that no worker is called "main",
"keygen" or "none" (`KeyNames`) and no package `NoPkg` (`NoPkgAssumption`).

The runs check conjunctions; where one has independent parts, each part has a
theorem of its own and one theorem puts them together. For each component the
module itself holds the inductive invariant, at its end, and TLC has checked it on
the run's instance; the proofs have one lemma per action.

*Sessions* (`HdcSession_proofs`). `IInv` is the inductive invariant. The properties
are not inductive: that `ref` blocks the destruction needs to know at which stage a
dead session is (`PipeInv`); that `uvHandleRef` reaches 0 with the last callback
needs the states of the handles in each stage (`HandleInv`); that the worker is done
before `FreeSessionContinue` needs what `childCleared` means (`WorkerInv`) and that
SP_START and SP_STOP are sent once and in this order (`CtrlInv`); that an early
reference is safe needs that it keeps the session in the first stage
(`HolderInv`, `RefInv`); a clean stop needs that `sessionRef` counts the sessions
in memory (`CountInv`). `Refinement` proves that `HdcSession` implements
`SessionLife`.

*Tasks* (`HdcHost_proofs`). `TaskInv`: map, timers and memory agree
(`OneOwner`, `Created`), and for a session that has the counter to itself
`taskCount` is the number of its tasks left (`LoneInv`).

*Framing* (`HdcFraming_proofs`). `FramingInv`: packets lie in the stream one behind
the other (`Adjacent`, `Bytes`), at most one is being written (`Writing`), and
`ioBuf` holds the stream from the end of the last packet taken (`Received`).
`Aligned` derives from it what `OnRead` finds.

*UART* (`HdcUart_proofs`). `UartQueuesSafe` proves `UartQueues` from `UartInv`, for any
number of sending threads: what waits for its answer is the first of its session in
`outPkgs` that is no response, and the write thread then has a time limit
(`FirstWaits`); who can still add a package works on a session in the map (`InUse`).
No wakeup is lost because everything on the line belongs to the one session the host
has connected (`OneUsed`, `OnlyUsed`): the pass that gives up a session then leaves
nothing behind that waits. The lemma `PickTakes`, that filtering a queue keeps what it
should in its order, is proved by counting (an injection of a finite set into one of
its size is onto), without induction.

`UartOnceInOrder` proves the first half of `InOrder`, that payloads are dispatched once
and in their order, again for any number of threads, from `OrderInv`: for each session,
what the read thread holds, what is on the line and what is in `outPkgs` are, one behind
the other, in the order of the payloads; none of it is older than the last payload
dispatched, and a copy of that one carries `dispatchedPackageIndex`, so it is known for
a duplicate (`Due`, `Flow`). `UartInOrder` and `UartAckedIsDispatched` prove all of
`InOrder`, and `AckedIsDispatched`, also for any number of threads: what they say of a
session is said as long as no two threads of the sender have been inside `SendUARTData`
for it at a time (`raced`), since `++packageIndex` is neither atomic nor under the slot
(`uart.cpp:930`) and the packages of racing threads are lost. They need that `raced`
misses no race (`OneInside`) and `NumberInv`: of a session that was not raced, the number
of a package is that of its payload (`Counted`, `Numbered`), an answer under way is to a
payload that has arrived (`Answers`), and every payload after the last one that arrived
is still in `outPkgs` (`Link`).

*Channels* (`HdcChannel_proofs`). `ChannelsSafe` proves `ChannelSafe` from
`ChannelInv`: `ref` counts exactly the queued writes, the packets in the worker's
hands and the thread that stopped between two lines (`RefsCounted`), and a dead
channel goes through its stages in order (`FreeStages`). That no task, stream or write
of a freed channel is left (`FreedChannelsReleased`; the timer of a tconn is) needs in
addition where a channel is on its way into the worker and out of it: bound, in the
control pipe, in the map, being detached, each once and an attach never behind its
detach (`ChannelLife`).

*Host processes* (`HdcHost_proofs`). `KeysSafe`: as long as nobody disturbed the
files, at most one thread writes (`KeyOneWriter`), the three files are of one pair
except for what that one has half written or lost, and what a worker has sent is of
the pair in the files, so that a lost write leads to no signature rather than to a
wrong one. `InstancesSafe`: who is past the mutex holds the lock and is named
in the file unless the write failed (`LockInv`); what a client has read names a server that is past the
mutex or gone (`FoundInv`, `InfoFits`), so that it kills no other process.
`ClientsSafe`: handles are counted by `uvHandleRef` at every stage (`HandleStages`,
`RefsKept`), and the terminal is raw only for a shell that has not been freed. `CommandsSafe`: the task's
refCount is held by a running reader or writer (`ReaderHolds`), no output is lost
before the end is reported (`OutputKept`).

*Connecting* (`HdcConnect_proofs`). `CommandsAuthorised` proves `TasksAuthorised`
from `AuthInv`: a status of `mapAuthStatus` was earned, the host being allowed by the
user or known, and before its commands run it has proved its key (`StatusEarned`), at
every point at which the dialog's thread and the session's handler may interleave.
`HandshakeAgreesHolds` proves `HandshakeAgrees` from `AgreeInv`: the two ends take turns,
so that at most one message that asks for an answer is under way (`DaemonQueue`,
`ServerQueue`), the stages of the TLS handshake of both ends fit each other and what
lies between them (`TlsPhases`), and when nobody has a turn left the last answer, or
the device list, says what the daemon has recorded (`ViewFollows`); nothing is recorded
as ok while somebody has a turn left (`TurnLeft`). All this is `AgreeCore` and holds until
the first lapse, which is remembered (`NoLapse => AgreeCore`); the required encryption is
carried apart, through every behaviour. `TargetsAreListed`
proves `TargetsListed` from `TargetsInv`: an entry's session fits the entry (`EntriesFit`),
a session that works is listed. `SubserversSafe` proves `SubserverSafe`: as long as the
timer of a handover runs and no earlier one has come before it, the device is on the
ignore list as suspended, which keeps scans and ending readers off it; and who filters
the pid file holds its lock and has a copy of every other entry.

*Transfers* (`HdcTransfer_proofs`). `TransferResourcesHold` and
`ReportedIsIntactHolds` prove `TransferResources` and `ReportedIsIntact` from
`TransferInv`. There is one token, a message or a file request, whose holder alone may
open, read, start the next file or install (`OneToken`, `RequestFacts`,
`MessageFacts`); every block of the file is in one place, to be read, read, under way,
to be written or written (`Blocks`), and what is on the disk is what was written
(`DiskFits`); each end has at most one file open (`OneFile`, `Held`). What is reported
is intact because of what an error leaves behind (`ErrorsKnown`) and what finishing
means (`FinishMeans`). Within a handler refCount is off by the reference the handler
itself holds (`RefsBut`, `Working`).

*Forward* (`HdcServices_proofs`). `ForwardsSafe` proves `ForwardSafe` from
`ForwardInv`, an invariant of both tasks and the messages between them: refCount
counts contexts and idles (`RefsFit`), a device has its thread only until its descriptor
is closed (`ContextStages`), a message under way fits the stage of the
context it is for, a target is opened once, and the slave's context exists only
after the master's.

*Debuggable processes* (`HdcServices_proofs`). `DebuggersListed` proves `JdwpSafe`
from `JdwpInv`. That a process which reconnected is not taken off the list by the
late end of its old connection rests on order: of two connections of a process the
older is closed, and its end lies ahead of everything of the newer, in the backlog
and in the queue of ready pipes (`OldestFirst`); queues hold each pipe once and
exactly those with something to read (`QueuesFit`). A tracker is current from the last
round that reached it on, and `missed` says which rounds did not.

What the proofs have changed. `OneSessionPerTarget` was too strong: with three
sessions the late end, or the late handshake, of an old session can write over the
entry of a newer one, and two sessions, the bound of the run, never show it. It now
excepts the three ways this happens (`WritesOrdered`: a target that was raced, given
up or orphaned). `TransferResources` was false for three or more files of a directory
one of which shrinks while it is read, and the two files of the run never show it; it
now leaves that case out. `InOrder` was false where an end gives a session up between
two payloads and the other does not, and one payload each way never showed it: the gap
is now a disagreement of its own (section 4, `Reliable`), the runs send two payloads in
one direction or the other, and `AckedIsDispatched`, which had asked that both sessions
are live, asks it of the sender only. `CASE` arms that overlapped, where TLC takes the first and the
semantics allows any, were made exclusive (`DoCommand` in `HdcChannel`,
`ChannelCtrlServer` and `KillServer` in `HdcInstance`). The queues of `HdcJdwp` are
filtered by `Keep`, which says what the result is, instead of `SelectSeq`, a
recursive definition about which nothing can be proved here; those of `HdcUart` by
`Pick`, which takes the n-th of the positions to keep.

Only model-checked:
- the liveness properties (`SessionsEnd`, `ClearTerminates`, `StreamMoves`,
  `UartMoves`, `ChannelEnds`, `ClientEnds`, `CommandEnds`, `PulledUpServes`,
  `AllowedIsAuthorised`, `TconnAnswered`, `UsbComesBack`, `DeviceComesBack`,
  `TransfersEnd`, `BothEndsClose`, `AppIsListed`), since TLAPS does not reason about
  fairness and ENABLED;
- `UsbSafe`: needs an invariant about the order of the bytes under way between the
  ends, and of the cancelled reads among them, that is not written.

## 6. Not modelled, and the plan

Left out of the modelled components: the bytes of TLS records, both directions of
a TCP session at once, the arguments and answers of commands, file modes and
paths, USB descriptors, the Windows build (but for what it changes in the pid file of
the subservers, `plat`), the memory behind a use after free (the model lets such a
thread or callback go on or end, and follows it no further), logging and statistics. Left out for good: cryptography and HUKS, command-line
text processing (`translate.cpp`), event reports, compression and tar entries,
serialisation templates, the permission dialog and sudo, the heartbeat's counter
(its effect, a closed stream, is in `HdcFraming`), buffers under one mutex
(`memory_pool`, `circle_buffer`), and `hdc_rust`, a second implementation of the
same protocol that is not part of this build.

Left to prove: for `HdcUsb` the part of `UsbSafe` about registered devices, then the
order of the bytes.
