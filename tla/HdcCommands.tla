---------------------------- MODULE HdcCommands ----------------------------
(***************************************************************************)
(* One command run on the device: the interactive shell on a terminal      *)
(* (HdcShell), a command on a pipe (HdcDaemonUnity with AsyncCmd), and the *)
(* bug report, whose output the host writes to a file (HdcHostUnity).  The *)
(* session's worker starts and stops the task, a thread of its own reads   *)
(* what the command prints and, for the shell, another one writes to it    *)
(* (HdcFileDescriptor).                                                    *)
(***************************************************************************)
EXTENDS Integers

CONSTANTS MaxOutput,  \* blocks the command prints
          MaxKeys     \* blocks of input for the shell

ASSUME CommandBounds == MaxOutput \in Nat /\ MaxKeys \in Nat

VARIABLES ckind,  \* "shell", "execute" or "bugreport"
          cmd,    \* the daemon's task and its threads
          hlog    \* the host's task and its file

cmdVars == <<ckind, cmd, hlog>>

CommandInit ==
  /\ ckind \in {"shell", "execute", "bugreport"}
  /\ cmd = [task |-> "none", refCount |-> 0, asyncRef |-> 0, childReady |-> FALSE, singalStop |-> FALSE,
            io |-> "none", refIO |-> 0, workContinue |-> FALSE, child |-> "none", unread |-> 0,
            printed |-> 0, sent |-> 0, closes |-> 0, cut |-> FALSE, failed |-> FALSE,
            writer |-> "none", writeQueue |-> 0, keys |-> 0]
  /\ hlog = [task |-> "none", refCount |-> 0, got |-> 0, writes |-> 0, file |-> "open", logged |-> 0,
             refused |-> 0]

Shell == ckind = "shell"
Step(x) == cmd' = x /\ UNCHANGED <<ckind, hlog>>

\* TaskFinish: CMD_KERNEL_CHANNEL_CLOSE, unless SendToAnother is stopped.
FinishCommand(x) == IF x.singalStop THEN x ELSE [x EXCEPT !.closes = @ + 1]
-----------------------------------------------------------------------------
(* Start                                                                   *)

\* HdcFileDescriptor with StartWorkOnThread: the reading thread runs from
\* here on, and the writing thread of the shell.
StartWorkOnThread(x) ==
  [x EXCEPT !.io = "read", !.refIO = 1, !.workContinue = TRUE, !.writer = IF Shell THEN "idle" ELSE "none"]

\* CommandDispatch for what is done at once (remount, run mode, root, list of
\* processes) or refused (bundle, options): no thread, and the channel closes.
InstantCommand ==
  /\ cmd.task = "none"
  /\ cmd' = FinishCommand([cmd EXCEPT !.task = "run"])
  /\ hlog' = [hlog EXCEPT !.task = "run"]
  /\ UNCHANGED ckind

\* StartShell: CreateSubProcessPTY returns the terminal even when no process
\* could be forked.
StartShell ==
  /\ Shell /\ cmd.task = "none"
  /\ \E c \in {"runs", "none"} : cmd' = [StartWorkOnThread(cmd) EXCEPT !.task = "starting", !.child = c]
  /\ hlog' = [hlog EXCEPT !.task = "run"]
  /\ UNCHANGED ckind

\* AsyncCmd::DaemonExecuteCommand with ThreadFork.
DaemonExecuteCommand ==
  /\ ~Shell /\ cmd.task = "none"
  /\ \/ cmd' = [StartWorkOnThread(cmd) EXCEPT !.task = "starting", !.child = "runs", !.asyncRef = @ + 1]
     \/ cmd' = [cmd EXCEPT !.task = "starting", !.failed = TRUE]
  /\ hlog' = [hlog EXCEPT !.task = "run"]
  /\ UNCHANGED ckind

\* ++refCount when the thread already runs: the end of StartShell, and of
\* ExecuteShell whatever DaemonExecuteCommand returned.
ExecuteShell ==
  /\ cmd.task = "starting"
  /\ Step([cmd EXCEPT !.task = "run", !.refCount = @ + 1, !.childReady = Shell])
-----------------------------------------------------------------------------
(* The command                                                             *)

ChildPrints ==
  /\ cmd.child = "runs" /\ cmd.printed < MaxOutput
  /\ Step([cmd EXCEPT !.printed = @ + 1, !.unread = @ + 1])

ChildExits ==
  /\ cmd.child = "runs"
  /\ Step([cmd EXCEPT !.child = "exited"])
-----------------------------------------------------------------------------
(* The reading thread                                                      *)

\* callbackRead: ChildReadCallback, SendToAnother.  It fails when the task is
\* stopped and, at any time, when the session takes nothing more.
SendOutcomes(x, n) ==
  (IF x.singalStop THEN {} ELSE {[x EXCEPT !.unread = @ - n, !.sent = @ + n]})
    \cup {[x EXCEPT !.unread = @ - n, !.io = "ends", !.cut = TRUE]}

\* One read empties a pipe (its 64 KB are less than the buffer), not a terminal.
ReadSizes == IF Shell /\ cmd.unread > 0 THEN 1 .. cmd.unread ELSE {cmd.unread}

\* EPOLLHUP: one more read, and the end.
ReadHungUp ==
  /\ cmd.child = "exited"
  /\ \E n \in ReadSizes : \E y \in SendOutcomes(cmd, n) :
       Step([y EXCEPT !.io = "ends", !.cut = @ \/ y.unread > 0])

ReadOutput ==
  /\ cmd.child = "runs" /\ cmd.unread > 0
  /\ \E n \in ReadSizes : \E y \in SendOutcomes(cmd, n) : Step(y)

\* PrepareBuf, at least every five seconds: told to stop.
ReadToldToStop == ~cmd.workContinue /\ Step([cmd EXCEPT !.io = "ends", !.cut = TRUE])

ReadData == cmd.io = "read" /\ (ReadToldToStop \/ (cmd.workContinue /\ (ReadHungUp \/ ReadOutput)))

\* Run without memory: callbackFinish, and refIO stays.
MallocFails ==
  /\ cmd.io = "read" /\ cmd.sent = 0 /\ cmd.workContinue
  /\ Step([cmd EXCEPT !.io = "unreferenced", !.failed = TRUE, !.cut = TRUE])

Run ==
  /\ cmd.io = "ends"
  /\ Step([cmd EXCEPT !.io = "unreferenced", !.refIO = @ - 1, !.workContinue = FALSE])

\* Mutant: the reference is given back before the other end is told.
FinishReleasesFirst ==
  /\ cmd.io = "unreferenced"
  /\ Step(IF Shell THEN [cmd EXCEPT !.io = "called", !.refCount = @ - 1]
          ELSE [cmd EXCEPT !.io = "called", !.refCount = @ - 1, !.asyncRef = @ - 1])

\* FinishShellProc tells the other end (AsyncCmdOut drops the task's
\* reference before that) ...
FinishShellProc ==
  /\ cmd.io = "unreferenced"
  /\ Step(FinishCommand(IF Shell THEN [cmd EXCEPT !.io = "called"]
                        ELSE [cmd EXCEPT !.io = "called", !.refCount = @ - 1]))

\* ... and drops the last reference as the last thing it does.
ShellProcDone ==
  /\ cmd.io = "called"
  /\ Step(IF Shell THEN [cmd EXCEPT !.io = "done", !.refCount = @ - 1]
          ELSE [cmd EXCEPT !.io = "done", !.asyncRef = @ - 1])
-----------------------------------------------------------------------------
(* The writing thread of the shell                                         *)

\* CMD_SHELL_DATA: Write needs the mutex that the thread holds while it
\* writes; the worker waits for it.
ShellData ==
  /\ cmd.task = "run" /\ cmd.childReady /\ cmd.keys < MaxKeys /\ cmd.writer # "writes"
  /\ Step([cmd EXCEPT !.keys = @ + 1, !.writeQueue = @ + 1])

IOWriteThread ==
  /\ cmd.writer = "idle"
  /\ Step(IF ~cmd.workContinue THEN [cmd EXCEPT !.writer = "ended"]
          ELSE [cmd EXCEPT !.writer = "writes", !.writeQueue = @ - 1])
  /\ cmd.workContinue => cmd.writeQueue > 0

\* The command takes the input, or it has gone and the write fails.
CtxFileIOWrite ==
  /\ cmd.writer = "writes"
  /\ Step([cmd EXCEPT !.writer = "idle"])
-----------------------------------------------------------------------------
(* The end                                                                 *)

\* HdcShell::StopTask: SIGKILL and waitpid.
StopShell ==
  /\ cmd.task = "run" /\ Shell
  /\ Step(LET x == [cmd EXCEPT !.task = "stopping", !.singalStop = TRUE]
          IN  IF ~cmd.childReady THEN x
              ELSE [x EXCEPT !.workContinue = FALSE, !.child = IF @ = "runs" THEN "exited" ELSE @])

\* Mutant: only SIGTERM, which the command may ignore.
TerminateOnly ==
  /\ cmd.task = "run" /\ ~Shell
  /\ \E c \in {cmd.child, IF cmd.child = "runs" THEN "exited" ELSE cmd.child} :
       Step([cmd EXCEPT !.task = "stopping", !.child = c])

\* HdcDaemonUnity::StopTask, DoRelease: SIGTERM, which the command may ignore.
DoRelease ==
  /\ cmd.task = "run" /\ ~Shell
  /\ \E c \in {cmd.child, IF cmd.child = "runs" THEN "exited" ELSE cmd.child} :
       Step([cmd EXCEPT !.task = "stopping", !.workContinue = FALSE, !.child = c])

\* ReadyForRelease, the destructors: ~HdcFileDescriptor waits for the writer.
ReleaseCommand ==
  /\ cmd.task = "stopping" /\ cmd.refCount = 0 /\ cmd.asyncRef = 0
  /\ cmd.refIO = 0 \/ (Shell /\ ~cmd.childReady)
  /\ cmd.writer \in {"none", "ended"}
  /\ Step([cmd EXCEPT !.task = "freed"])
-----------------------------------------------------------------------------
(* The host's file                                                         *)

HostStep(x) == hlog' = x /\ UNCHANGED <<ckind, cmd>>

\* CMD_UNITY_BUGREPORT_DATA, AppendLocalLog: a write of the thread pool for
\* each block, which holds the task.
AppendLocalLog ==
  /\ ckind = "bugreport" /\ hlog.task = "run" /\ hlog.got < cmd.sent
  /\ HostStep([hlog EXCEPT !.got = @ + 1, !.writes = @ + 1, !.refCount = @ + 1])

\* OnFileIO: the pool may have closed the file before.
OnFileIO ==
  /\ hlog.writes > 0
  /\ HostStep([hlog EXCEPT !.writes = @ - 1, !.refCount = @ - 1,
                 !.logged = IF hlog.file = "closed" THEN @ ELSE @ + 1,
                 !.refused = IF hlog.file = "closed" THEN @ + 1 ELSE @])

\* StopTask, when the daemon has closed the channel (after its data) or the
\* client has left.
HostStopTask ==
  /\ hlog.task = "run"
  /\ HostStep([hlog EXCEPT !.task = "stopping",
                 !.refCount = IF ckind = "bugreport" THEN @ + 1 ELSE @,
                 !.file = IF ckind = "bugreport" THEN "closing" ELSE @])

OnFileClose ==
  /\ hlog.file = "closing"
  /\ HostStep([hlog EXCEPT !.file = "closed", !.refCount = @ - 1])

ReleaseHost ==
  /\ hlog.task = "stopping" /\ hlog.refCount = 0 /\ (ckind = "bugreport" => hlog.file = "closed")
  /\ HostStep([hlog EXCEPT !.task = "freed"])
-----------------------------------------------------------------------------
IoThread == ReadData \/ MallocFails \/ Run \/ FinishShellProc \/ ShellProcDone
StopCommand == StopShell \/ DoRelease

CommandNext ==
  \/ InstantCommand \/ StartShell \/ DaemonExecuteCommand \/ ExecuteShell \/ ChildPrints \/ ChildExits
  \/ IoThread \/ ShellData \/ IOWriteThread \/ CtxFileIOWrite \/ StopCommand \/ ReleaseCommand
  \/ AppendLocalLog \/ OnFileIO \/ HostStopTask \/ OnFileClose \/ ReleaseHost

CommandSpec == CommandInit /\ [][CommandNext]_cmdVars
-----------------------------------------------------------------------------
(* Properties                                                              *)

\* A task is deleted, and its descriptor closed, only when no thread and no
\* callback will use it again, although the worker counts the reading thread
\* only after it has started it.
ThreadsEndFirst ==
  /\ cmd.task = "freed" => cmd.io \in {"none", "done"} /\ cmd.writer \in {"none", "ended"}
  /\ hlog.task = "freed" => hlog.writes = 0 /\ hlog.file # "closing"

\* The channel is closed after everything the command has printed, unless the
\* task was stopped, a block could not be sent or a terminal held more than one
\* read takes.
OutputBeforeClose ==
  (cmd.closes > 0 /\ ~cmd.cut) => cmd.sent = cmd.printed

\* A command that ends closes its channel, and a task that is stopped is
\* released, even when the command ignores SIGTERM; the exceptions are a
\* command that could not be forked and a reader without memory.
CommandEnds ==
  /\ []<>(cmd.child = "exited" => cmd.closes > 0 \/ cmd.task \in {"stopping", "freed"} \/ cmd.failed)
  /\ []<>(cmd.task = "stopping" => cmd.failed)
  /\ []<>(hlog.task # "stopping")

\* No thread outlives the task it works for, and nothing that the command has
\* printed is overtaken by the end of its channel (HdcFileDescriptor, AsyncCmd).
CommandSafe == ThreadsEndFirst /\ OutputBeforeClose
-----------------------------------------------------------------------------
(* The inductive invariant: what the references count, and where the output is. *)

CommandShape ==
  /\ ckind \in {"shell", "execute", "bugreport"}
  /\ DOMAIN cmd = {"task", "refCount", "asyncRef", "childReady", "singalStop", "io", "refIO", "workContinue",
                   "child", "unread", "printed", "sent", "closes", "cut", "failed", "writer", "writeQueue",
                   "keys"}
  /\ cmd.task \in {"none", "starting", "run", "stopping", "freed"}
  /\ cmd.io \in {"none", "read", "ends", "unreferenced", "called", "done"}
  /\ cmd.child \in {"none", "runs", "exited"} /\ {cmd.refCount, cmd.asyncRef} \subseteq Int
  /\ {cmd.unread, cmd.printed, cmd.sent, cmd.closes} \subseteq Nat
  /\ DOMAIN hlog = {"task", "refCount", "got", "writes", "file", "logged", "refused"}
  /\ hlog.file \in {"open", "closing", "closed"} /\ hlog.refCount \in Int /\ hlog.writes \in Nat

\* The last reference of a reading thread is the shell's own or AsyncCmd's: it is
\* there from the end of the start, or from the start, until the thread is done.
ReaderHolds ==
  /\ cmd.task = "none" => cmd.io = "none" /\ cmd.refCount = 0 /\ cmd.asyncRef = 0
  /\ cmd.io = "none" => cmd.child = "none"
  /\ cmd.io # "none" /\ Shell =>
       cmd.refCount = (IF cmd.task = "starting" THEN 0 ELSE 1) - (IF cmd.io = "done" THEN 1 ELSE 0)
  /\ cmd.io # "none" /\ ~Shell => cmd.asyncRef = IF cmd.io = "done" THEN 0 ELSE 1
  /\ cmd.task = "freed" => cmd.io \in {"none", "done"} /\ cmd.writer \in {"none", "ended"}

\* Every write of the log, and its close, holds the host's task.
LogHolds ==
  /\ hlog.refCount = hlog.writes + IF hlog.file = "closing" THEN 1 ELSE 0
  /\ hlog.task \in {"none", "run"} => hlog.file = "open"
  /\ cmd.task = "none" => hlog.task = "none"
  /\ hlog.task = "freed" => hlog.writes = 0 /\ hlog.file # "closing"

\* What was printed is sent or still to be read, until the reader gives it up.
OutputKept ==
  /\ cmd.task = "none" => cmd.closes = 0
  /\ cmd.child = "none" => cmd.printed = 0
  /\ ~cmd.cut =>
       /\ cmd.sent + cmd.unread = cmd.printed
       /\ cmd.io \in {"ends", "unreferenced", "called", "done"} => cmd.unread = 0 /\ cmd.child = "exited"
       /\ cmd.closes > 0 => cmd.io \in {"none", "called", "done"}

CommandInv == CommandShape /\ ReaderHolds /\ LogHolds /\ OutputKept
=============================================================================
