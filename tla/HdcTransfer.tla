----------------------------- MODULE HdcTransfer -----------------------------
(***************************************************************************)
(* One file, directory or package transfer: the task of the master end     *)
(* reads, the task of the slave end writes.  File requests are done by the *)
(* pool of the loop, each one completes when and as the file system says,  *)
(* several writes may be under way and complete in any order.  A file is   *)
(* a number of blocks; block i of file f is <<f, i>>.                      *)
(***************************************************************************)
EXTENDS Integers, Sequences, FiniteSets

CONSTANTS MaxFiles,   \* files of a directory, packages of an install
          MaxBlocks   \* blocks of a file

ASSUME TransferBounds == MaxFiles \in Nat \ {0} /\ MaxBlocks \in Nat

VARIABLES xcfg,  \* what is transferred, with which options
          xfer   \* both tasks, their requests, the messages, the disk, the log

xferVars == <<xcfg, xfer>>

Ends == {"m", "s"}
OtherEnd(a) == IF a = "m" THEN "s" ELSE "m"

Plans == {p \in [kind : {"file", "dir", "install", "sideload", "uninstall"},
                 sizes : UNION {[1 .. n -> 0 .. MaxBlocks] : n \in 1 .. MaxFiles},
                 fileModeSync : BOOLEAN, zip : BOOLEAN, oldPeer : BOOLEAN, shrinks : BOOLEAN] :
            /\ p.kind \in {"file", "sideload", "uninstall"} => Len(p.sizes) = 1
            /\ p.fileModeSync => p.kind \in {"file", "dir"} /\ ~p.zip
            /\ p.oldPeer => p.kind \in {"file", "dir"} /\ ~p.zip /\ ~p.fileModeSync
            /\ p.shrinks => p.kind \in {"file", "dir"} /\ ~p.zip /\ ~p.fileModeSync /\ p.sizes[Len(p.sizes)] > 0}

Files == 1 .. Len(xcfg.sizes)
isDir == xcfg.kind = "dir"
isApp == xcfg.kind \in {"install", "sideload", "uninstall"}

\* What the file really has when it is read: it may have shrunk since fstat.
Available(f) == IF xcfg.shrinks /\ f = Len(xcfg.sizes) THEN xcfg.sizes[f] - 1 ELSE xcfg.sizes[f]

\* ResetCtx(full = false).
ResetCtx(c) == [c EXCEPT !.closeNotify = FALSE, !.indexIO = 0, !.lastErrno = FALSE, !.ioFinish = FALSE]

NewCtx(t) == [task |-> t, isFdOpen |-> FALSE, openFd |-> 0, indexIO |-> 0, fileSize |-> 0, ioFinish |-> FALSE,
              closeNotify |-> FALSE, lastErrno |-> FALSE, taskQueue |-> <<>>, dirMode |-> 0,
              fileCnt |-> 0, refCount |-> 0, singalStop |-> FALSE]

NoTransfer == [ctx |-> [a \in Ends |-> NewCtx("none")], net |-> [a \in Ends |-> <<>>],
               req |-> {}, fds |-> [a \in Ends |-> {}], made |-> {}, data |-> {}, told |-> {},
               summary |-> "none", forkFailed |-> FALSE, stuck |-> FALSE,
               emptyFailed |-> FALSE, aborted |-> FALSE]

TransferInit ==
  /\ xcfg \in Plans
  /\ xfer = NoTransfer
-----------------------------------------------------------------------------
(* HdcTaskBase and the session around the task                             *)

\* SendToAnother: nothing once the task was told to stop.
SendToAnother(x, a, cmd, arg) ==
  IF x.ctx[a].singalStop THEN x
  ELSE [x EXCEPT !.net[OtherEnd(a)] = Append(@, [cmd |-> cmd, arg |-> arg])]

TaskFinish(x, a) == SendToAnother(x, a, "CHANNEL_CLOSE", 1)

\* TaskCommandDispatch: a task whose CommandDispatch fails is finished.
Dispatched(x, a, ret) == IF ret THEN x ELSE TaskFinish(x, a)

AddRef(x, a, n) == [x EXCEPT !.ctx[a].refCount = @ + n]
DropRef(x, a) == [x EXCEPT !.ctx[a].refCount = @ - 1]

CloseCtxFd(x, a) ==
  IF ~x.ctx[a].isFdOpen THEN x
  ELSE [x EXCEPT !.ctx[a].isFdOpen = FALSE, !.fds[a] = @ \ {x.ctx[a].openFd}]

Request(x, a, op, f, i) ==
  [AddRef(x, a, 1) EXCEPT !.req = @ \cup {[end |-> a, op |-> op, file |-> f, index |-> i]}]

\* SimpleFileIO: refused once the end has finished its file.
SimpleFileIO(x, a, op, f, i) ==
  IF x.ctx[a].ioFinish THEN x ELSE Request(x, a, op, f, i)
-----------------------------------------------------------------------------
(* HdcFile, HdcHostApp and HdcDaemonApp on top of HdcTransferBase           *)

\* TransferSummary: what the user is told about the transfer.
TransferSummary(x, a) ==
  [x EXCEPT !.summary = IF @ # "none" THEN @
                        ELSE IF x.ctx[a].indexIO >= x.ctx[a].fileSize \/ ~x.ctx[a].lastErrno
                             THEN "ok" ELSE "fail"]

\* TransferNext, RunQueue: the last file of the queue is opened.
TransferNext(x) ==
  LET q == x.ctx["m"].taskQueue
  IN  Request([x EXCEPT !.ctx["m"].taskQueue = SubSeq(q, 1, Len(q) - 1)], "m", "open", q[Len(q)], 0)
RunQueue(x) == LET q == x.ctx["m"].taskQueue IN Request(x, "m", "open", q[Len(q)], 0)

\* HdcFile, CMD_FILE_FINISH: 1 the file is done, 0 the transfer is done.
FileFinish(x, a, flag) ==
  IF isApp THEN x
  ELSE IF flag = 0 THEN TaskFinish(TransferSummary(x, a), a)
  ELSE LET y == CloseCtxFd(x, a)
       IN  IF isDir /\ y.ctx[a].taskQueue # <<>> THEN TransferNext(y)
           ELSE SendToAnother([y EXCEPT !.ctx[a].ioFinish = TRUE], a, "FINISH", 0)

OpenFailedSilently(x, a) ==
  CASE isDir /\ a = "m" -> FileFinish(x, a, 1)
    [] isDir /\ a = "s" -> x
    [] OTHER            -> TaskFinish(x, a)
\* The user sees which file could not be opened.
OnFileOpenFailed(x, a) ==
  CASE isDir /\ a = "m" -> FileFinish(x, a, 1)
    [] isDir /\ a = "s" -> SendToAnother(x, a, "FINISH", 1)
    [] OTHER            -> TaskFinish(x, a)

\* CheckMaster, FileModeSync: the modes go first, each one is acknowledged.
CheckMaster(x, f) ==
  IF xcfg.fileModeSync THEN SendToAnother(x, "m", "FILE_MODE", f)
  ELSE SendToAnother(x, "m", "CHECK", f)
FileModeSync(x, a, f) ==
  IF a = "s" THEN SendToAnother(x, "s", "FILE_MODE", f)
  ELSE IF x.ctx["m"].dirMode > 0
  THEN SendToAnother([x EXCEPT !.ctx["m"].dirMode = @ - 1], "m", "DIR_MODE", f)
  ELSE SendToAnother(x, "m", "CHECK", f)

\* WhenTransferFinish of the three tasks; the package goes to bm install, and
\* a process that cannot be started leaves its reference behind.
PackageShell(x) ==
  {Request(x, "s", "install", x.ctx["s"].openFd, 0),
   [AddRef(x, "s", 1) EXCEPT !.forkFailed = TRUE]}
WhenTransferFinish(x, a) ==
  CASE ~isApp                              -> {SendToAnother([x EXCEPT !.ctx[a].fileCnt = @ + 1], a, "FINISH", 1)}
    [] xcfg.kind = "install" /\ a = "s" /\ ~x.ctx[a].lastErrno -> PackageShell(x)
    [] xcfg.kind = "sideload" /\ a = "s" /\ ~x.ctx[a].lastErrno -> {TaskFinish(x, a)}
    [] OTHER                               -> {[x EXCEPT !.stuck = TRUE]}

\* ProcressFileIOFinish, with OnFileClose: the file is closed first, and the
\* task keeps itself alive until the other end has been told.
KeepAlive == 1
NoKeepAlive == 0
FinishReference == KeepAlive
ProcressFileIOFinish(x, a) ==
  LET y == CloseCtxFd(AddRef(x, a, FinishReference), a)
  IN  {DropRef(z, a) : z \in IF y.ctx[a].lastErrno \/ y.ctx[a].closeNotify
                             THEN WhenTransferFinish(y, a) ELSE {y}}

\* The packet of a block: compressed when asked for, unless it does not get
\* smaller (here: the first block of a file does); RecvIOPayload undoes it.
SendIOPayload(f, i) == IF xcfg.zip /\ i = 0 THEN <<"lz4", <<f, i>>>> ELSE <<"none", <<f, i>>>>
RecvIOPayload(p) == p[2]
-----------------------------------------------------------------------------
(* Completions of the file requests                                        *)

Complete(r) == /\ r \in xfer.req
               /\ xfer.ctx[r.end].task \in {"run", "stopped"}
Without(x, r) == [x EXCEPT !.req = @ \ {r}]

\* The task of an end that has opened file f; the master asks for its size.
OpenCtx(c, a, f) == [ResetCtx(c) EXCEPT !.isFdOpen = TRUE, !.openFd = f,
                                       !.fileSize = IF a = "m" THEN xcfg.sizes[f] ELSE c.fileSize]

OnFileOpen(r) ==
  /\ Complete(r) /\ r.op = "open"
  /\ LET a == r.end
         x == DropRef(Without(xfer, r), a)
         y == [x EXCEPT !.ctx[a] = OpenCtx(@, a, r.file), !.fds[a] = @ \cup {r.file}]
     IN  \/ xfer' = OnFileOpenFailed([x EXCEPT !.told = @ \cup {r.file}], a)
         \/ a = "m" /\ xfer' = CheckMaster(y, r.file)
         \/ a = "s" /\ xfer' = SendToAnother([y EXCEPT !.made = @ \cup {r.file}], "s", "BEGIN", r.file)
  /\ UNCHANGED xcfg

\* ProcressFileIORead: result 0 is the end of the file.  IODelayed only lets
\* a completion wait for the channel.
ProcressFileIORead(x, r, n) ==
  LET y == [x EXCEPT !.ctx["m"].indexIO = @ + n]
      z == SendToAnother(y, "m", "DATA",
                         [n |-> n, index |-> r.index, payload |-> SendIOPayload(r.file, r.index)])
  IN  IF n = 0 \/ y.ctx["m"].singalStop \/ y.ctx["m"].indexIO >= y.ctx["m"].fileSize
      THEN [x |-> z, finished |-> TRUE]
      ELSE [x |-> SimpleFileIO(z, "m", "read", y.ctx["m"].openFd, y.ctx["m"].indexIO), finished |-> FALSE]

WriteByOffset(x, r, n) ==
  LET y == [x EXCEPT !.ctx["s"].indexIO = @ + n]
  IN  IF r.index[1] + n >= y.ctx["s"].fileSize \/ n = 0
      THEN [x |-> [y EXCEPT !.ctx["s"].closeNotify = TRUE], finished |-> TRUE]
      ELSE [x |-> y, finished |-> FALSE]
\* ProcressFileIOWrite: the file is complete by the sum of what was written.
ProcressFileIOWrite(x, r, n) ==
  LET y == [x EXCEPT !.ctx["s"].indexIO = @ + n]
  IN  IF y.ctx["s"].indexIO >= y.ctx["s"].fileSize \/ n = 0
      THEN [x |-> [y EXCEPT !.ctx["s"].closeNotify = TRUE], finished |-> TRUE]
      ELSE [x |-> y, finished |-> FALSE]

\* ProcressFileIO: a completion after the end of its file only finishes
\* again; an error of the slave reports the transfer at once.
ProcressFileIO(x, r, error) ==
  LET a == r.end
      n == CASE r.op = "write" -> r.index[2]
             [] OTHER          -> IF r.index < Available(r.file) THEN 1 ELSE 0
      failed == [x EXCEPT !.ctx[a].lastErrno = TRUE, !.ctx[a].closeNotify = TRUE,
                          !.emptyFailed = @ \/ x.ctx[a].fileSize = 0]
  IN  CASE x.ctx[a].ioFinish -> [x |-> x, finished |-> TRUE]
        [] ~x.ctx[a].ioFinish /\ error ->
             [x |-> IF a = "s" THEN FileFinish(failed, a, 0) ELSE failed, finished |-> TRUE]
        [] OTHER -> IF a = "m" THEN ProcressFileIORead(x, r, n) ELSE ProcressFileIOWrite(x, r, n)

Written(x, r, error) ==
  IF r.op = "write" /\ ~error /\ r.index[2] > 0
  THEN [x EXCEPT !.data = @ \cup {<<r.file, r.index[1], r.index[3]>>}] ELSE x

OnFileIO(r) ==
  /\ Complete(r) /\ r.op \in {"read", "write"}
  /\ \E error \in BOOLEAN :
       LET a == r.end
           p == ProcressFileIO(Written(Without(xfer, r), r, error), r, error)
           y == [p.x EXCEPT !.ctx[a].ioFinish = p.finished]
       IN  \E z \in IF p.finished THEN ProcressFileIOFinish(y, a) ELSE {y} : xfer' = DropRef(z, a)
  /\ UNCHANGED xcfg

\* AsyncInstallFinish: bm has ended; the package is removed from the device.
AsyncInstallFinish(r) ==
  /\ Complete(r) /\ r.op = "install"
  /\ xfer' = DropRef(SendToAnother(Without(xfer, r), "s", "APP_FINISH", r.file), "s")
  /\ UNCHANGED xcfg
-----------------------------------------------------------------------------
(* Commands                                                                *)

\* CMD_APP_INIT, CMD_APP_SIDELOAD and CMD_APP_UNINSTALL of the host: the last
\* one has nothing to send but the name.
BeginInstall(x) ==
  IF xcfg.kind = "uninstall" THEN SendToAnother(x, "m", "APP_UNINSTALL", 1) ELSE RunQueue(x)

\* CMD_FILE_INIT with BeginTransfer and SetMasterParameters: options or paths
\* that are refused finish the task, as do packages that are not found.
BeginTransfer ==
  /\ xfer.ctx["m"].task = "none"
  /\ LET n == Len(xcfg.sizes)
         x == SendToAnother([xfer EXCEPT !.ctx["m"].task = "run",
                                         !.ctx["m"].dirMode = IF isDir THEN 1 ELSE 0,
                                         !.ctx["m"].taskQueue = [i \in 1 .. n |-> i]],
                            "m", "WAKEUP_SLAVETASK", 0)
     IN  \/ xfer' = IF isApp THEN BeginInstall(x) ELSE TransferNext(x)
         \/ xfer' = TaskFinish(x, "m")
  /\ UNCHANGED xcfg

\* SlaveCheck: options, bundle, path, date of the target; then it is opened.
SlaveCheck(x, f) ==
  {Dispatched(x, "s", FALSE),
   Request([x EXCEPT !.ctx["s"].fileSize = xcfg.sizes[f]], "s", "open", f, 0)}

\* CMD_APP_CHECK of the daemon: MakeCtxForAppCheck, then the file is opened.
AppCheck(x, f) ==
  {Dispatched(x, "s", FALSE),
   Request([x EXCEPT !.ctx["s"].fileSize = xcfg.sizes[f]], "s", "open", f, 0)}

\* commandBegin: CheckFeatures, CheckSandboxOptionCompatibility, first read.
FileBegin(x, f) ==
  IF xcfg.oldPeer
  THEN Dispatched(TaskFinish(OnFileOpenFailed([x EXCEPT !.told = @ \cup {f}], "m"), "m"), "m", FALSE)
  ELSE Dispatched(SimpleFileIO(x, "m", "read", x.ctx["m"].openFd, x.ctx["m"].indexIO), "m", ~x.ctx["m"].ioFinish)

\* commandData: a block after the end of the file closes it and fails.
FileData(x, d) ==
  IF x.ctx["s"].ioFinish THEN Dispatched(CloseCtxFd(x, "s"), "s", FALSE)
  ELSE SimpleFileIO(x, "s", "write", x.ctx["s"].openFd, <<d.index, d.n, RecvIOPayload(d.payload)>>)

\* CheckInstallContinue: the package is done, the next one or the end.
CheckInstallContinue(x) ==
  LET q == x.ctx["m"].taskQueue
      y == [x EXCEPT !.ctx["m"].taskQueue = SubSeq(q, 1, Len(q) - 1)]
  IN  IF Len(q) <= 1 \/ x.ctx["m"].singalStop
      THEN Dispatched(y, "m", FALSE) ELSE RunQueue(y)

\* ClearOwnTasks for CMD_KERNEL_CHANNEL_CLOSE: StopTask, and the answer.  Only
\* HdcFile has a StopTask that stops anything.
ChannelClose(x, a, n) ==
  LET y == IF x.ctx[a].task = "run"
           THEN [x EXCEPT !.ctx[a].task = "stopped", !.ctx[a].singalStop = ~isApp] ELSE x
  IN  IF n = 0 THEN y
      ELSE [y EXCEPT !.net[OtherEnd(a)] = Append(@, [cmd |-> "CHANNEL_CLOSE", arg |-> 0])]

CommandDispatch(a) ==
  /\ xfer.net[a] # <<>>
  /\ LET c == Head(xfer.net[a])
         x == [xfer EXCEPT !.net[a] = Tail(@)]
     IN  CASE c.cmd = "CHANNEL_CLOSE" -> xfer' = ChannelClose(x, a, c.arg)
           [] c.cmd = "WAKEUP_SLAVETASK" -> xfer' = [x EXCEPT !.ctx[a].task = "run"]
           [] x.ctx[a].task # "run" /\ c.cmd \notin {"CHANNEL_CLOSE", "WAKEUP_SLAVETASK"} -> xfer' = x
           [] OTHER ->
                CASE c.cmd = "CHECK"      -> xfer' \in IF isApp THEN AppCheck(x, c.arg) ELSE SlaveCheck(x, c.arg)
                  [] c.cmd = "FILE_MODE"  -> xfer' = FileModeSync(x, a, c.arg)
                  [] c.cmd = "DIR_MODE"   -> xfer' = FileModeSync(x, a, c.arg)
                  [] c.cmd = "BEGIN"      -> xfer' = FileBegin(x, c.arg)
                  [] c.cmd = "DATA"       -> xfer' = FileData(x, c.arg)
                  [] c.cmd = "FINISH"     -> xfer' = FileFinish(x, a, c.arg)
                  [] c.cmd = "APP_UNINSTALL" -> xfer' \in PackageShell(x)
                  [] c.cmd = "APP_FINISH" -> xfer' = CheckInstallContinue(x)
  /\ UNCHANGED xcfg

\* The client goes away: the channel is closed while the transfer runs.
ClientLeaves ==
  /\ ~xfer.aborted /\ xfer.ctx["s"].task = "run"
  /\ \E a \in Ends : xfer' = [xfer EXCEPT !.aborted = TRUE,
                                 !.net[a] = Append(@, [cmd |-> "CHANNEL_CLOSE", arg |-> 1])]
  /\ UNCHANGED xcfg

\* ~HdcTransferBase: which unfinished files it closes.
ClosedAtEnd(c) == c.lastErrno \/ ~c.ioFinish
\* RemoveInstanceTask with ReadyForRelease, then ~HdcTransferBase.
ReadyForRelease(c) == c.refCount = 0
ReleaseTask(a) ==
  /\ xfer.ctx[a].task = "stopped" /\ ReadyForRelease(xfer.ctx[a])
  /\ LET c == xfer.ctx[a]
         y == IF ClosedAtEnd(c) THEN CloseCtxFd(xfer, a) ELSE xfer
     IN  xfer' = [y EXCEPT !.ctx[a].task = "deleted"]
  /\ UNCHANGED xcfg

TransferNextState ==
  \/ BeginTransfer \/ ClientLeaves
  \/ \E a \in Ends : CommandDispatch(a) \/ ReleaseTask(a)
  \/ \E r \in xfer.req : OnFileOpen(r) \/ OnFileIO(r) \/ AsyncInstallFinish(r)

TransferSpec == TransferInit /\ [][TransferNextState]_xferVars

\* The loops run and the pool completes what it was given; no client leaves.
TransferSteps == \/ BeginTransfer
                 \/ \E a \in Ends : CommandDispatch(a) \/ ReleaseTask(a)
                 \/ \E r \in xfer.req : OnFileOpen(r) \/ OnFileIO(r) \/ AsyncInstallFinish(r)

-----------------------------------------------------------------------------
(* Properties                                                              *)

\* refCount is what keeps a task from being deleted under a request of the
\* pool: it counts the requests of its end, and a deleted task has none; no
\* file stays open behind a task, whichever way the transfer ends (OnFileIO,
\* OnFileOpen, PackageShell, ReadyForRelease, CloseCtxFd, ~HdcTransferBase).
\* Excluded: a directory one of whose files shrinks while it is read.  Its
\* empty last block can end the file before an earlier write has completed,
\* the file is then finished twice and two more files are opened at a time.
TransferResources ==
  (xcfg.shrinks => Len(xcfg.sizes) = 1) =>
  \A a \in Ends :
    LET n == Cardinality({r \in xfer.req : r.end = a})
    IN  /\ xfer.ctx[a].refCount = n + (IF a = "s" /\ xfer.forkFailed THEN 1 ELSE 0)
        /\ xfer.ctx[a].task = "deleted" => n = 0 /\ xfer.fds[a] = {}

Intact(f) == /\ f \in xfer.made
             /\ {d \in xfer.data : d[1] = f} = {<<f, i, <<f, i>>>> : i \in 0 .. (xcfg.sizes[f] - 1)}

\* The transfer is only reported as finished when every file that the user
\* was not told about is complete on the other end, block by block, however
\* the writes of the pool complete (TransferSummary, ProcressFileIOWrite).
\* Excluded: a source that shrinks while it is read, and an error on an empty
\* file, which TransferSummary reports as a success.
ReportedIsIntact ==
  xfer.summary = "ok" /\ ~xcfg.shrinks /\ ~xfer.emptyFailed => \A f \in Files : Intact(f) \/ f \in xfer.told

\* The transfer is over: both tasks are deleted.  An install whose package could
\* not be read or written, or whose process could not be started, never ends.
TransferOver ==
  xfer.stuck \/ xfer.forkFailed \/ \A a \in Ends : xfer.ctx[a].task = "deleted"
-----------------------------------------------------------------------------
(* The inductive invariant behind both properties, as facts about a state x *)
(* of the two tasks.  A transfer has one token: the request or the message *)
(* that may open a file, read a block, start the next file or install.     *)

Master(x) == x.ctx["m"]
Slave(x) == x.ctx["s"]
Queue(x) == Master(x).taskQueue
ToSlaveCommands == {"WAKEUP_SLAVETASK", "CHECK", "FILE_MODE", "DIR_MODE", "DATA", "FINISH", "APP_UNINSTALL",
                    "CHANNEL_CLOSE"}
ToMasterCommands == {"FILE_MODE", "BEGIN", "FINISH", "APP_FINISH", "CHANNEL_CLOSE"}
Commands(a) == IF a = "s" THEN ToSlaveCommands ELSE ToMasterCommands

\* The file that is transferred: RunQueue leaves it in the queue.
Cur(x) == IF isApp THEN Len(Queue(x)) ELSE Len(Queue(x)) + 1
InQueue(x) == Cur(x) \in Files

\* Messages that an end will still dispatch to its task.
Live(x, a, i) == /\ x.ctx[a].task \in {"none", "run"}
                 /\ \A j \in 1 .. (i - 1) : x.net[a][j].cmd # "CHANNEL_CLOSE"
Closing(x, a) == x.ctx[a].task \notin {"none", "run"}
                 \/ \E i \in 1 .. Len(x.net[a]) : x.net[a][i].cmd = "CHANNEL_CLOSE"
Control(x, a, c) ==
  \/ a = "s" /\ c.cmd \in {"CHECK", "FILE_MODE", "DIR_MODE", "APP_UNINSTALL"}
  \/ a = "m" /\ c.cmd \in {"FILE_MODE", "BEGIN", "APP_FINISH"}
  \/ a = "m" /\ c.cmd = "FINISH" /\ c.arg = 1 /\ Queue(x) # <<>>
TokenAt(x, a, i) == i \in 1 .. Len(x.net[a]) /\ Live(x, a, i) /\ Control(x, a, x.net[a][i])
TokenIn(x) == \E r \in x.req : r.op # "write"

NoMessage(x) == \A a \in Ends : \A i \in 1 .. Len(x.net[a]) : ~TokenAt(x, a, i)
Free(x) == ~TokenIn(x) /\ NoMessage(x)
OneToken(x) ==
  /\ \A r, p \in x.req : r.op # "write" /\ p.op # "write" => r = p
  /\ \A a, b \in Ends : \A i \in 1 .. Len(x.net[a]), j \in 1 .. Len(x.net[b]) :
       TokenAt(x, a, i) /\ TokenAt(x, b, j) => a = b /\ i = j
  /\ TokenIn(x) => NoMessage(x)

\* Blocks on their way: in messages and in writes of the pool; on the disk.
IsData(x, i) == i \in 1 .. Len(x.net["s"]) /\ x.net["s"][i].cmd = "DATA"
NoData(x) == /\ \A i \in 1 .. Len(x.net["s"]) : ~IsData(x, i)
             /\ \A r \in x.req : r.op # "write"
Blk(f) == 0 .. (xcfg.sizes[f] - 1)
Arrived(x, f) == {i \in Blk(f) : <<f, i, <<f, i>>>> \in x.data}
Done(x, f) == f \in x.told \/ (f \in x.made /\ Arrived(x, f) = Blk(f))

CtxShape(c) ==
  /\ DOMAIN c = DOMAIN NewCtx("none") /\ c.task \in {"none", "run", "stopped", "deleted"}
  /\ c.isFdOpen \in BOOLEAN /\ c.ioFinish \in BOOLEAN /\ c.lastErrno \in BOOLEAN
  /\ c.closeNotify \in BOOLEAN /\ c.singalStop \in BOOLEAN
  /\ c.indexIO \in Nat /\ c.refCount \in Int /\ (c.singalStop => c.task \notin {"none", "run"})
NetShape(q, a) == /\ Len(q) \in Nat /\ q = [i \in 1 .. Len(q) |-> q[i]]
                  /\ \A i \in 1 .. Len(q) : q[i].cmd \in Commands(a)
ReqShape(r) == /\ r = [end |-> r.end, op |-> r.op, file |-> r.file, index |-> r.index]
               /\ r.end \in Ends /\ r.op \in {"open", "read", "write", "install"}
               /\ r.op = "read" => r.end = "m"
               /\ r.op \in {"write", "install"} => r.end = "s"
QueueShape(q) == Len(q) \in 0 .. Len(xcfg.sizes) /\ q = [i \in 1 .. Len(q) |-> i]
TransferShape(x) ==
  /\ DOMAIN x = DOMAIN NoTransfer /\ DOMAIN x.ctx = Ends /\ DOMAIN x.net = Ends /\ DOMAIN x.fds = Ends
  /\ \A a \in Ends : CtxShape(x.ctx[a]) /\ NetShape(x.net[a], a)
  /\ IsFiniteSet(x.req) /\ \A r \in x.req : ReqShape(r)
  /\ Slave(x).taskQueue = <<>> /\ QueueShape(Queue(x))
  /\ x.forkFailed \in BOOLEAN /\ x.emptyFailed \in BOOLEAN

\* The slave's task is made by the first message the master sends.
WokenFirst(x) ==
  /\ Master(x).task = "none" => x = NoTransfer
  /\ Slave(x).task = "none" =>
       /\ x.net["m"] = <<>> /\ \A r \in x.req : r.end = "m"
       /\ Master(x).task # "none" => x.net["s"] # <<>> /\ x.net["s"][1].cmd = "WAKEUP_SLAVETASK"
  /\ \A i \in 1 .. Len(x.net["s"]) : x.net["s"][i].cmd = "WAKEUP_SLAVETASK" => i = 1 /\ Slave(x).task = "none"

\* An end has one file open at most, and none once it has finished its file.
OneFile(x) ==
  \A a \in Ends :
    /\ x.fds[a] = IF x.ctx[a].isFdOpen THEN {x.ctx[a].openFd} ELSE {}
    /\ x.ctx[a].ioFinish => ~x.ctx[a].isFdOpen
    /\ x.ctx[a].task = "deleted" => ~x.ctx[a].isFdOpen /\ \A r \in x.req : r.end # a

\* The slave's file is closed unless the slave is about to stop.
SlaveClosed(x) == Closing(x, "s") \/ ~Slave(x).isFdOpen
MasterReady(x) == Master(x).openFd = Cur(x) /\ Master(x).fileSize = xcfg.sizes[Cur(x)]
SlaveReady(x) == Cur(x) \in x.made /\ Slave(x).openFd = Cur(x) /\ Slave(x).fileSize = xcfg.sizes[Cur(x)]

\* What the token stands for: a file that is still to be opened by the slave,
\* one that is read, a package that is installed, a file that is done.
Begun(x) == MasterReady(x) /\ Master(x).indexIO = 0
OpenFacts(x, f) == f = Cur(x) /\ InQueue(x) /\ NoData(x) /\ Cur(x) \notin x.made /\ ~Master(x).lastErrno
ReadFacts(x) == InQueue(x) /\ MasterReady(x) /\ SlaveReady(x) /\ ~Master(x).lastErrno
PackageFacts(x) == isApp /\ NoData(x) /\ SlaveClosed(x) /\ ~Master(x).isFdOpen /\ ~Master(x).lastErrno
RequestFacts(x) ==
  \A r \in x.req :
    /\ r.op = "open" => /\ OpenFacts(x, r.file) /\ ~x.ctx[r.end].isFdOpen
                        /\ r.end = "s" => Begun(x) /\ Slave(x).fileSize = xcfg.sizes[Cur(x)]
    /\ r.op = "read" => /\ ReadFacts(x) /\ r.file = Cur(x) /\ r.index = Master(x).indexIO
                        /\ r.index < xcfg.sizes[Cur(x)] \/ (xcfg.sizes[Cur(x)] = 0 /\ r.index = 0)
    /\ r.op = "install" => PackageFacts(x)
SlaveMessage(x, c) ==
  /\ ~Slave(x).isFdOpen
  /\ c.cmd \in {"CHECK", "FILE_MODE", "DIR_MODE"} => OpenFacts(x, c.arg) /\ Begun(x)
  /\ c.cmd = "APP_UNINSTALL" => PackageFacts(x)
MasterMessage(x, c) ==
  /\ c.cmd = "FILE_MODE" => OpenFacts(x, c.arg) /\ Begun(x) /\ SlaveClosed(x)
  /\ c.cmd = "BEGIN" => c.arg = Cur(x) /\ ReadFacts(x) /\ NoData(x) /\ Begun(x)
  /\ c.cmd = "APP_FINISH" => PackageFacts(x)
  /\ c.cmd = "FINISH" => ~isApp /\ InQueue(x) /\ NoData(x) /\ SlaveClosed(x) /\ ~Master(x).lastErrno
MessageFacts(x) ==
  /\ \A i \in 1 .. Len(x.net["s"]) : TokenAt(x, "s", i) => SlaveMessage(x, x.net["s"][i])
  /\ \A i \in 1 .. Len(x.net["m"]) : TokenAt(x, "m", i) => MasterMessage(x, x.net["m"][i])

\* Every block is in one place: read later, in a message, in a write, on disk.
BlockFits(x, j, n, p) ==
  /\ p = <<Cur(x), j>> /\ n \in {0, 1} /\ j \in Nat /\ j \notin Arrived(x, Cur(x))
  /\ n = 1 => j < Master(x).indexIO /\ j < xcfg.sizes[Cur(x)]
  /\ n = 0 => /\ j = Master(x).indexIO /\ (\A r \in x.req : r.op # "read") /\ ~Master(x).lastErrno
              /\ ~xcfg.shrinks => xcfg.sizes[Cur(x)] = 0
Blocks(x) ==
  /\ \A i \in 1 .. Len(x.net["s"]) : IsData(x, i) =>
       LET d == x.net["s"][i].arg IN BlockFits(x, d.index, d.n, RecvIOPayload(d.payload))
  /\ \A i, j \in 1 .. Len(x.net["s"]) :
       IsData(x, i) /\ IsData(x, j) /\ x.net["s"][i].arg.index = x.net["s"][j].arg.index => i = j
  /\ \A r \in x.req : r.op = "write" =>
       /\ r.file = Cur(x) /\ r.index = <<r.index[1], r.index[2], r.index[3]>>
       /\ BlockFits(x, r.index[1], r.index[2], r.index[3])
       /\ \A i \in 1 .. Len(x.net["s"]) : IsData(x, i) => x.net["s"][i].arg.index # r.index[1]
  /\ \A r, p \in x.req : r.op = "write" /\ p.op = "write" /\ r.index[1] = p.index[1] => r = p
  /\ ~NoData(x) => InQueue(x) /\ SlaveReady(x) /\ MasterReady(x)

\* What has arrived, and what the ends have counted of it.
DiskFits(x) ==
  /\ x.made \subseteq Files /\ \A f \in x.made : f >= Cur(x)
  /\ \A d \in x.data : d[1] \in x.made /\ d[2] \in Blk(d[1]) /\ d = <<d[1], d[2], <<d[1], d[2]>>>>
  /\ SlaveReady(x) /\ ~Slave(x).ioFinish => Slave(x).indexIO = Cardinality(Arrived(x, Cur(x)))
  /\ SlaveReady(x) /\ MasterReady(x) => Arrived(x, Cur(x)) \subseteq 0 .. (Master(x).indexIO - 1)

\* What an error, and the end of a file at the slave, leave behind.
ErrorsKnown(x) ==
  /\ Master(x).lastErrno => /\ Free(x) /\ InQueue(x) /\ MasterReady(x)
                            /\ \/ Master(x).indexIO < xcfg.sizes[Cur(x)]
                               \/ xcfg.sizes[Cur(x)] = 0 /\ x.emptyFailed /\ NoData(x)
  /\ Master(x).closeNotify => Master(x).lastErrno
  /\ Slave(x).closeNotify => Slave(x).ioFinish
  /\ Slave(x).lastErrno /\ ~isApp /\ ~Slave(x).singalStop => Closing(x, "m")
  /\ ~xcfg.shrinks /\ Slave(x).closeNotify /\ ~Slave(x).lastErrno => \A r \in x.req : r.op # "write"
  /\ x.forkFailed => Free(x) /\ NoData(x)

\* When the ends take a file, and the transfer, for finished.
AllDone(x) == ~xcfg.shrinks => \A f \in Files : Done(x, f)
FinishMeans(x) ==
  /\ ~isApp /\ ~xcfg.shrinks /\ Master(x).task # "none" => \A f \in Files : f > Cur(x) => Done(x, f)
  /\ \A i \in 1 .. Len(x.net["m"]) : x.net["m"][i].cmd = "FINISH" =>
       /\ x.net["m"][i].arg \in {0, 1} /\ ~isApp
       /\ x.net["m"][i].arg = 1 /\ Live(x, "m", i) /\ ~xcfg.shrinks => Done(x, Cur(x))
       /\ x.net["m"][i].arg = 0 => Master(x).lastErrno
  /\ \A i \in 1 .. Len(x.net["s"]) : x.net["s"][i].cmd = "FINISH" =>
       /\ x.net["s"][i].arg \in {0, 1} /\ ~isApp
       /\ x.net["s"][i].arg = 1 => Master(x).lastErrno
       /\ x.net["s"][i].arg = 0 => AllDone(x)
  /\ x.summary = "ok" /\ ~x.emptyFailed => AllDone(x)

Core(x) == /\ TransferShape(x) /\ WokenFirst(x) /\ OneFile(x) /\ OneToken(x) /\ RequestFacts(x) /\ MessageFacts(x)
           /\ Blocks(x) /\ DiskFits(x) /\ ErrorsKnown(x) /\ FinishMeans(x)

\* What holds once a handler is done: the master has its file open while it
\* reads, and opens the next one when the slave has closed the last.
Held(x) == /\ ~NoData(x) /\ Master(x).isFdOpen => \E r \in x.req : r.op = "read"
           /\ \A r \in x.req : r.op = "open" /\ r.end = "m" => SlaveClosed(x)
Leaked(x, a) == IF a = "s" /\ x.forkFailed THEN 1 ELSE 0
RefsCount(x) == \A a \in Ends : x.ctx[a].refCount = Cardinality({r \in x.req : r.end = a}) + Leaked(x, a)

Tractable == xcfg.shrinks => Len(xcfg.sizes) = 1
TransferInv == xcfg \in Plans /\ (Tractable => Core(xfer) /\ Held(xfer) /\ RefsCount(xfer))
=============================================================================
