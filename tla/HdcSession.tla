----------------------------- MODULE HdcSession -----------------------------
(***************************************************************************)
(* The life cycle of the TCP sessions of one hdc server or daemon instance *)
(* (HdcSessionBase): creation on the main loop, the session worker thread  *)
(* on the libuv thread pool, the control channel between the two, senders  *)
(* on other threads, and the four-stage destruction                        *)
(*   FreeSession -> FreeSessionOpeate -> FreeSessionContinue               *)
(*               -> FreeSessionFinally                                     *)
(* One action is one libuv callback (or one thread step) of the code.      *)
(***************************************************************************)
EXTENDS Naturals, FiniteSets, Sequences

CONSTANTS
    Session,      \* the HdcSession objects an instance may create
    Thread,       \* threads other than main and the workers that call Send
    NoSession,    \* "holds no session"
    IsServer,     \* serverOrDaemon
    PoolSize,     \* threads of the libuv pool (SIZE_THREAD_POOL)
    MaxPush,      \* bound: queued asynchronous messages of one kind
    MallocFails,  \* sessions whose MallocSession may fail half way
    StartFails    \* sessions whose WorkThreadStartSession may fail

ASSUME SessionAssumption == /\ IsFiniteSet(Session)
                            /\ IsFiniteSet(Thread)
                            /\ Session \cap Thread = {}
                            /\ NoSession \notin Session
                            /\ IsServer \in BOOLEAN
                            /\ PoolSize \in Nat \ {0}
                            /\ MaxPush \in Nat \ {0}

\* The libuv handles inside HdcSession that live on the main loop.
Handle == {"hWorkTCP", "pollMain", "dataPipe"}

\* Who may be inside Send: a plain thread, or the worker of a session
\* (named by its session).
Sender == Thread \cup Session

StopMainLoop == "ASYNC_STOP_MAINLOOP"

VARIABLES
    mem,          \* storage of the HdcSession: none, live, freed, torn
    mapSession,   \* sessions AdminSession(OP_QUERY) finds
    sessionRef,   \* number of sessions the instance still accounts for
    isDead, ref,
    holds,        \* sender -> session it got by OP_QUERY_REF and not given back
    early,        \* sender -> that reference is older than isDead
    handle,       \* session -> main-loop handle -> its libuv state
    uvHandleRef, 
    connecting,   \* a uv_tcp_connect request is outstanding
    worker,       \* SessionWorkThread: none, queued, run, clear, done, wild
    ctrl,         \* commands in the control socket pair, main to worker
    batch,        \* commands the worker has read and not yet dispatched
    childTcp,     \* hChildWorkTCP: none, inited, reading, closed
    uvChildRef,
    childClosing, \* worker-loop handles whose close callback is pending
    childCleared,
    opTimer,      \* running timers with callback FreeSessionOpeate
    waitTimer,    \* running timers with callbackCheckFreeSessionContinue
    finIdle,      \* running idle callbacks FreeSessionFinally
    freedBy,      \* branch FreeSessionOpeate took: none, stop, direct
    lstMainThreadOP, \* message -> how many are queued for the main thread
    idleOp,       \* message -> how many AsyncMainLoopTask idles are running
    instance      \* main thread: run, stopping, clearing, stopped, aborted

memVars    == <<mem, mapSession, sessionRef>>
sendVars   == <<ref, holds, early>>
handleVars == <<handle, uvHandleRef, connecting>>
childVars  == <<batch, childTcp, uvChildRef, childClosing>>
freeVars   == <<isDead, opTimer, waitTimer, finIdle, freedBy>>
loopVars   == <<lstMainThreadOP, idleOp, instance>>

vars == <<memVars, sendVars, handleVars, worker, ctrl, childVars,
          childCleared, freeVars, loopVars>>

Message == Session \cup {StopMainLoop}

TypeOK ==
    /\ mem \in [Session -> {"none", "live", "freed", "torn"}]
    /\ mapSession \subseteq Session
    /\ sessionRef \in Nat
    /\ isDead \in [Session -> BOOLEAN]
    /\ ref \in [Session -> Nat]
    /\ holds \in [Sender -> Session \cup {NoSession}]
    /\ early \in [Sender -> BOOLEAN]
    /\ handle \in [Session -> [Handle ->
                     {"null", "open", "closing", "closingCb", "closed"}]]
    /\ uvHandleRef \in [Session -> Nat]
    /\ connecting \in [Session -> BOOLEAN]
    /\ worker \in [Session -> {"none", "queued", "run", "clear", "done", "wild"}]
    /\ ctrl \in [Session -> Seq({"START", "STOP"})]
    /\ batch \in [Session -> Seq({"START", "STOP"})]
    /\ childTcp \in [Session -> {"none", "inited", "reading", "closed"}]
    /\ uvChildRef \in [Session -> Nat]
    /\ childClosing \in [Session -> SUBSET {"tcp", "poll"}]
    /\ childCleared \in [Session -> BOOLEAN]
    /\ opTimer \in [Session -> Nat]
    /\ waitTimer \in [Session -> Nat]
    /\ finIdle \in [Session -> Nat]
    /\ freedBy \in [Session -> {"none", "stop", "direct"}]
    /\ lstMainThreadOP \in [Message -> Nat]
    /\ idleOp \in [Message -> Nat]
    /\ instance \in {"run", "stopping", "clearing", "stopped",
                    "aborted"}

Init ==
    /\ mem = [s \in Session |-> "none"]
    /\ mapSession = {}
    /\ sessionRef = 0
    /\ isDead = [s \in Session |-> FALSE]
    /\ ref = [s \in Session |-> 0]
    /\ holds = [x \in Sender |-> NoSession]
    /\ early = [x \in Sender |-> FALSE]
    /\ handle = [s \in Session |-> [h \in Handle |-> "null"]]
    /\ uvHandleRef = [s \in Session |-> 0]
    /\ connecting = [s \in Session |-> FALSE]
    /\ worker = [s \in Session |-> "none"]
    /\ ctrl = [s \in Session |-> <<>>]
    /\ batch = [s \in Session |-> <<>>]
    /\ childTcp = [s \in Session |-> "none"]
    /\ uvChildRef = [s \in Session |-> 0]
    /\ childClosing = [s \in Session |-> {}]
    /\ childCleared = [s \in Session |-> FALSE]
    /\ opTimer = [s \in Session |-> 0]
    /\ waitTimer = [s \in Session |-> 0]
    /\ finIdle = [s \in Session |-> 0]
    /\ freedBy = [s \in Session |-> "none"]
    /\ lstMainThreadOP = [m \in Message |-> 0]
    /\ idleOp = [m \in Message |-> 0]
    /\ instance = "run"

\* The main loop still turns.
MainRuns == instance \in {"run", "stopping", "clearing"}

-----------------------------------------------------------------------------
(* Creation *)

\* MallocSession succeeds: three main-loop handles, one entry in mapSession.
\* h says in which state the caller leaves the handles.
MallocSession(s, h) ==
    /\ mem[s] = "none"
    /\ mem' = [mem EXCEPT ![s] = "live"]
    /\ mapSession' = mapSession \cup {s}
    /\ sessionRef' = sessionRef + 1
    /\ handle' = [handle EXCEPT ![s] = h]
    /\ uvHandleRef' = [uvHandleRef EXCEPT ![s] = 3]

AllOpen == [h \in Handle |-> "open"]

\* MallocSession fails after ++sessionRef, in MallocSessionByConnectType: the
\* object is deleted with pollMain and dataPipe registered with the main loop
\* ("torn"), and the count stays.  What the loop does to that memory is not followed.
MallocSessionFail(s) ==
    /\ instance = "run"
    /\ s \in MallocFails
    /\ mem[s] = "none"
    /\ mem' = [mem EXCEPT ![s] = "torn"]
    /\ sessionRef' = sessionRef + 1
    /\ handle' = [handle EXCEPT ![s] = [AllOpen EXCEPT !["hWorkTCP"] = "null"]]
    /\ UNCHANGED <<mapSession, sendVars, uvHandleRef, connecting, worker, ctrl,
                   childVars, childCleared, freeVars, loopVars>>

\* FreeSession on the main thread, for a session the map still has:
\* mark it dead and start the FreeSessionOpeate timer, once.
MarkDead(s) ==
    IF s \in mapSession /\ ~isDead[s]
    THEN /\ isDead' = [isDead EXCEPT ![s] = TRUE]
         /\ opTimer' = [opTimer EXCEPT ![s] = @ + 1]
    ELSE UNCHANGED <<isDead, opTimer>>

\* Base::StartWorkThread, "wait for thread up" (which is no wait: the report
\* timer of MallocSession already made childLoop.active_handles positive),
\* and the SP_START_SESSION command.
StartWorkThread(s) ==
    /\ worker' = [worker EXCEPT ![s] = "queued"]
    /\ ctrl' = [ctrl EXCEPT ![s] = Append(@, "START")]

\* HdcHostTCP::ConnectDaemon (server).
ConnectDaemon(s) ==
    /\ instance = "run"
    /\ IsServer
    /\ MallocSession(s, AllOpen)
    /\ connecting' = [connecting EXCEPT ![s] = TRUE]
    /\ UNCHANGED <<sendVars, worker, ctrl, childVars, childCleared, freeVars,
                   loopVars>>

\* HdcHostTCP::Connect, called by libuv when the connection is made.  It does
\* not look at isDead.
ConnectOk(s) ==
    /\ MainRuns
    /\ connecting[s]
    /\ handle[s]["hWorkTCP"] = "open"
    /\ connecting' = [connecting EXCEPT ![s] = FALSE]
    /\ StartWorkThread(s)
    /\ UNCHANGED <<memVars, sendVars, handle, uvHandleRef, childVars,
                   childCleared, freeVars, loopVars>>

\* HdcHostTCP::Connect with an error status, or DuplicateUvSocket failing.
ConnectFail(s) ==
    /\ MainRuns
    /\ connecting[s]
    /\ handle[s]["hWorkTCP"] = "open"
    /\ connecting' = [connecting EXCEPT ![s] = FALSE]
    /\ childCleared' = [childCleared EXCEPT ![s] = TRUE]
    /\ MarkDead(s)
    /\ UNCHANGED <<memVars, sendVars, handle, uvHandleRef, worker, ctrl,
                   childVars, waitTimer, finIdle, freedBy, loopVars>>

\* HdcDaemonTCP::AcceptClient (daemon): the main-loop handle is closed at once,
\* the worker uses the duplicated socket.
AcceptClient(s) ==
    /\ instance = "run"
    /\ ~IsServer
    /\ MallocSession(s, [AllOpen EXCEPT !["hWorkTCP"] = "closing"])
    /\ StartWorkThread(s)
    /\ UNCHANGED <<sendVars, connecting, childVars, childCleared, freeVars,
                   loopVars>>

\* AcceptClient with uv_accept or DuplicateUvSocket failing.
AcceptClientFail(s) ==
    /\ instance = "run"
    /\ ~IsServer
    /\ MallocSession(s, AllOpen)
    /\ isDead' = [isDead EXCEPT ![s] = TRUE]
    /\ opTimer' = [opTimer EXCEPT ![s] = @ + 1]
    /\ UNCHANGED <<sendVars, connecting, worker, ctrl, childVars, childCleared,
                   waitTimer, finIdle, freedBy, loopVars>>

-----------------------------------------------------------------------------
(* Messages to the main thread *)

\* The worker is in its event loop and in no callback.
WorkerIdle(s) ==
    /\ worker[s] = "run"
    /\ mem[s] = "live"
    /\ batch[s] = <<>>
    /\ holds[s] = NoSession

\* PushAsyncMessage: the worker (a failed handshake, a task) calls FreeSession.
PushFreeSession(s) ==
    /\ WorkerIdle(s)
    /\ lstMainThreadOP[s] + idleOp[s] < MaxPush
    /\ lstMainThreadOP' = [lstMainThreadOP EXCEPT ![s] = @ + 1]
    /\ UNCHANGED <<memVars, sendVars, handleVars, worker, ctrl, childVars,
                   childCleared, freeVars, idleOp, instance>>

\* PostStopInstanceMessage: the daemon's "smode" command, on a worker.
PostStopInstanceMessage(s) ==
    /\ ~IsServer
    /\ WorkerIdle(s)
    /\ lstMainThreadOP[StopMainLoop] + idleOp[StopMainLoop] < MaxPush
    /\ lstMainThreadOP' = [lstMainThreadOP EXCEPT ![StopMainLoop] = @ + 1]
    /\ UNCHANGED <<memVars, sendVars, handleVars, worker, ctrl, childVars,
                   childCleared, freeVars, idleOp, instance>>

\* A version of MainAsyncCallback that empties the list but starts no task.
MainAsyncCallbackLost ==
    /\ MainRuns
    /\ \E m \in Message : lstMainThreadOP[m] > 0
    /\ lstMainThreadOP' = [m \in Message |-> 0]
    /\ UNCHANGED <<memVars, sendVars, handleVars, worker, ctrl, childVars,
                   childCleared, freeVars, idleOp, instance>>

\* MainAsyncCallback: every queued message becomes an idle task.
MainAsyncCallback ==
    /\ MainRuns
    /\ \E m \in Message : lstMainThreadOP[m] > 0
    /\ idleOp' = [m \in Message |-> idleOp[m] + lstMainThreadOP[m]]
    /\ lstMainThreadOP' = [m \in Message |-> 0]
    /\ UNCHANGED <<memVars, sendVars, handleVars, worker, ctrl, childVars,
                   childCleared, freeVars, instance>>

\* AsyncMainLoopTask, ASYNC_FREE_SESSION.
AsyncFreeSession(s) ==
    /\ MainRuns
    /\ idleOp[s] > 0
    /\ idleOp' = [idleOp EXCEPT ![s] = @ - 1]
    /\ MarkDead(s)
    /\ UNCHANGED <<memVars, sendVars, handleVars, worker, ctrl, childVars,
                   childCleared, waitTimer, finIdle, freedBy, lstMainThreadOP,
                   instance>>

\* AsyncMainLoopTask, ASYNC_STOP_MAINLOOP: uv_stop, so the uv_run in progress
\* returns: WorkerPendding's the first time, but the one of
\* ReMainLoopForInstanceClear when the message comes late.  The idle phase of
\* a loop turn runs all idle tasks, so the stop messages present count as one.
AsyncStopMainLoop ==
    /\ MainRuns
    /\ idleOp[StopMainLoop] > 0
    /\ idleOp' = [idleOp EXCEPT ![StopMainLoop] = 0]
    /\ instance' = IF instance = "clearing" THEN "aborted" ELSE "stopping"
    /\ UNCHANGED <<memVars, sendVars, handleVars, worker, ctrl, childVars,
                   childCleared, freeVars, lstMainThreadOP>>

\* FreeSession called by a handler of the main thread itself.
FreeSession(s) ==
    /\ instance \in {"run", "stopping"}
    /\ s \in mapSession
    /\ ~isDead[s]
    /\ MarkDead(s)
    /\ UNCHANGED <<memVars, sendVars, handleVars, worker, ctrl, childVars,
                   childCleared, waitTimer, finIdle, freedBy, loopVars>>

\* The sessions ClearSessions broadcasts the free signal to.
Broadcast == {s \in mapSession : ~isDead[s]}

\* TryStopInstance: ClearSessions frees every session that is not dead, then
\* ReMainLoopForInstanceClear runs the loop again.
ClearSessions ==
    /\ instance = "stopping"
    /\ instance' = "clearing"
    /\ isDead' = [s \in Session |-> isDead[s] \/ s \in Broadcast]
    /\ opTimer' = [s \in Session |->
                     IF s \in Broadcast THEN opTimer[s] + 1 ELSE opTimer[s]]
    /\ UNCHANGED <<memVars, sendVars, handleVars, worker, ctrl, childVars,
                   childCleared, waitTimer, finIdle, freedBy, lstMainThreadOP,
                   idleOp>>

\* What clearSessionsForFinish waits for, and an off-by-one version of it.
OneSessionLeft == sessionRef <= 1
AllSessionsFreed == sessionRef = 0

\* clearSessionsForFinish: the idle callback of ReMainLoopForInstanceClear.
ReMainLoopForInstanceClear ==
    /\ instance = "clearing"
    /\ AllSessionsFreed
    /\ instance' = "stopped"
    /\ UNCHANGED <<memVars, sendVars, handleVars, worker, ctrl, childVars,
                   childCleared, freeVars, lstMainThreadOP, idleOp>>


-----------------------------------------------------------------------------
(* Destruction on the main loop *)

\* How many close callbacks closeSessionTCPHandle of session s are pending,
\* and how many of its handles TryCloseHandle finds already closing (it calls
\* back for those as well).
Pending(s, h)   == IF handle[s][h] = "closingCb" THEN 1 ELSE 0
NotOpen(s, h)   == IF handle[s][h] # "open" THEN 1 ELSE 0
PendingClose(s) == Pending(s, "hWorkTCP") + Pending(s, "pollMain")
                                          + Pending(s, "dataPipe")
ClosedAlready(s) == NotOpen(s, "hWorkTCP") + NotOpen(s, "pollMain")
                                           + NotOpen(s, "dataPipe")

\* FreeSessionContinue: close the three handles, each with the callback that
\* decrements uvHandleRef; TryCloseHandle(.., true, ..) calls it at once for a
\* handle that is closing already.  Then start FreeSessionFinally.
FreeSessionContinue(s) ==
    /\ handle' = [handle EXCEPT ![s] =
                    [h \in Handle |-> IF @[h] = "open" THEN "closingCb" ELSE @[h]]]
    /\ uvHandleRef' = [uvHandleRef EXCEPT ![s] = @ - ClosedAlready(s)]
    /\ finIdle' = [finIdle EXCEPT ![s] = @ + 1]

\* The worker's poll handle is registered (pollHandle[STREAM_WORK]->loop).
PollWorkUp(s) == worker[s] \in {"run", "clear", "done"}

\* The three conditions the stages of the pipeline wait for, each with the
\* version that does not wait.
NoWait(s) == TRUE
NoSendInProgress(s) == ref[s] = 0
ChildFinished(s)    == childCleared[s]
CallbacksFinished(s) == uvHandleRef[s] = 0

\* FreeSessionOpeate with the worker up: send SP_STOP_SESSION and wait.
FreeSessionOpeateStop(s) ==
    /\ MainRuns
    /\ opTimer[s] > 0
    /\ NoSendInProgress(s)
    /\ PollWorkUp(s)
    /\ ctrl' = [ctrl EXCEPT ![s] = Append(@, "STOP")]
    /\ opTimer' = [opTimer EXCEPT ![s] = @ - 1]
    /\ waitTimer' = [waitTimer EXCEPT ![s] = @ + 1]
    /\ freedBy' = [freedBy EXCEPT ![s] = "stop"]
    /\ UNCHANGED <<memVars, sendVars, handleVars, worker, childVars,
                   childCleared, isDead, finIdle, loopVars>>

\* FreeSessionOpeate with no worker up: go on at once.
FreeSessionOpeateDirect(s) ==
    /\ MainRuns
    /\ opTimer[s] > 0
    /\ NoSendInProgress(s)
    /\ ~PollWorkUp(s)
    /\ opTimer' = [opTimer EXCEPT ![s] = @ - 1]
    /\ freedBy' = [freedBy EXCEPT ![s] = "direct"]
    /\ FreeSessionContinue(s)
    /\ UNCHANGED <<memVars, sendVars, connecting, worker, ctrl, childVars,
                   childCleared, isDead, waitTimer, loopVars>>

\* callbackCheckFreeSessionContinue.
CheckFreeSessionContinue(s) ==
    /\ MainRuns
    /\ waitTimer[s] > 0
    /\ ChildFinished(s)
    /\ waitTimer' = [waitTimer EXCEPT ![s] = @ - 1]
    /\ FreeSessionContinue(s)
    /\ UNCHANGED <<memVars, sendVars, connecting, worker, ctrl, childVars,
                   childCleared, isDead, opTimer, freedBy, loopVars>>

\* The closing phase of the main loop runs the close callbacks of a session.
\* A connect request still outstanding is cancelled first: Connect takes its
\* error branch, whose FreeSession finds the session dead.
MainCloseCallbacks(s) ==
    /\ MainRuns
    /\ mem[s] = "live"
    /\ \E h \in Handle : handle[s][h] \in {"closing", "closingCb"}
    /\ handle' = [handle EXCEPT ![s] =
                    [h \in Handle |-> IF @[h] \in {"closing", "closingCb"}
                                      THEN "closed" ELSE @[h]]]
    /\ uvHandleRef' = [uvHandleRef EXCEPT ![s] = @ - PendingClose(s)]
    /\ LET cancelled == connecting[s] /\ handle[s]["hWorkTCP"] = "closingCb"
       IN  /\ connecting' = [connecting EXCEPT ![s] = @ /\ ~cancelled]
           /\ childCleared' = [childCleared EXCEPT ![s] = @ \/ cancelled]
    /\ ctrl' = [ctrl EXCEPT ![s] =
                  IF handle[s]["pollMain"] = "closingCb" THEN <<>> ELSE @]
    /\ UNCHANGED <<memVars, sendVars, worker, childVars, freeVars, loopVars>>

\* FreeSessionFinally: all callbacks done, delete the session.
FreeSessionFinally(s) ==
    /\ MainRuns
    /\ finIdle[s] > 0
    /\ CallbacksFinished(s)
    /\ finIdle' = [finIdle EXCEPT ![s] = @ - 1]
    /\ mapSession' = mapSession \ {s}
    /\ mem' = [mem EXCEPT ![s] = "freed"]
    /\ sessionRef' = sessionRef - 1
    /\ UNCHANGED <<sendVars, handleVars, worker, ctrl, childVars, childCleared,
                   isDead, opTimer, waitTimer, freedBy, loopVars>>

-----------------------------------------------------------------------------
(* The session worker thread *)

Busy == {s \in Session : worker[s] \in {"run", "clear", "wild"}}

\* SessionWorkThread gets a pool thread, registers the poll handle, enters
\* uv_run.
SessionWorkThread(s) ==
    /\ worker[s] = "queued"
    /\ Cardinality(Busy) < PoolSize
    /\ worker' = [worker EXCEPT ![s] = IF mem[s] = "live" THEN "run" ELSE "wild"]
    /\ UNCHANGED <<memVars, sendVars, handleVars, ctrl, childVars,
                   childCleared, freeVars, loopVars>>

\* The session was deleted under its worker: what the thread does from here on
\* is undefined.
WorkerUseAfterFree(s) ==
    /\ worker[s] \in {"run", "clear"}
    /\ mem[s] = "freed"
    /\ worker' = [worker EXCEPT ![s] = "wild"]
    /\ UNCHANGED <<memVars, sendVars, handleVars, ctrl, childVars,
                   childCleared, freeVars, loopVars>>

\* ReadCtrlFromMain: one read takes every command in the socket.
ReadCtrlFromMain(s) ==
    /\ WorkerIdle(s)
    /\ ctrl[s] # <<>>
    /\ "poll" \notin childClosing[s]
    /\ batch' = [batch EXCEPT ![s] = ctrl[s]]
    /\ ctrl' = [ctrl EXCEPT ![s] = <<>>]
    /\ UNCHANGED <<memVars, sendVars, handleVars, worker, childTcp, uvChildRef,
                   childClosing, childCleared, freeVars, loopVars>>

Dispatching(s, command) ==
    /\ worker[s] = "run"
    /\ mem[s] = "live"
    /\ holds[s] = NoSession
    /\ batch[s] # <<>>
    /\ Head(batch[s]) = command

\* A reference on s through mapSession (AdminSession OP_QUERY_REF).
Acquire(x, s) ==
    /\ ref' = [ref EXCEPT ![s] = @ + 1]
    /\ holds' = [holds EXCEPT ![x] = s]
    /\ early' = [early EXCEPT ![x] = ~isDead[s]]

\* DispatchMainThreadCommand(SP_START_SESSION): WorkThreadStartSession opens
\* the duplicated socket; a server then sends the first handshake packet.
WorkThreadStartSession(s) ==
    /\ Dispatching(s, "START")
    /\ batch' = [batch EXCEPT ![s] = Tail(@)]
    /\ childTcp' = [childTcp EXCEPT ![s] = "reading"]
    /\ IF IsServer /\ s \in mapSession THEN Acquire(s, s) ELSE UNCHANGED sendVars
    /\ UNCHANGED <<memVars, handleVars, worker, ctrl, uvChildRef, childClosing,
                   childCleared, freeVars, loopVars>>

\* uv_tcp_open fails: ReadCtrlFromMain leaves its loop, and the commands read
\* together with this one are dropped.
WorkThreadStartSessionFail(s) ==
    /\ s \in StartFails
    /\ Dispatching(s, "START")
    /\ batch' = [batch EXCEPT ![s] = <<>>]
    /\ childTcp' = [childTcp EXCEPT ![s] = "inited"]
    /\ UNCHANGED <<memVars, sendVars, handleVars, worker, ctrl, uvChildRef,
                   childClosing, childCleared, freeVars, loopVars>>

\* hChildWorkTCP was initialised, and is not yet closed.
TcpUsed(s) == childTcp[s] # "none"
TcpOpen(s) == childTcp[s] \in {"inited", "reading"}

\* The handles SP_STOP_SESSION counts in uvChildRef, and those of them whose
\* callback TryCloseHandle runs at once.
CountedClose(s) == IF TcpUsed(s) THEN 3 ELSE 2
AtOnceClose(s)  == IF TcpUsed(s) /\ ~TcpOpen(s) THEN 2 ELSE 1

\* DispatchMainThreadCommand(SP_STOP_SESSION): uvChildRef counts dataPipe (its
\* handle was never opened here, so its callback runs at once), the poll
\* handle, and hChildWorkTCP when it was initialised; that callback too runs at
\* once when ReadStream has closed the handle already.
StopSession(s) ==
    /\ Dispatching(s, "STOP")
    /\ batch' = [batch EXCEPT ![s] = Tail(@)]
    /\ uvChildRef' = [uvChildRef EXCEPT ![s] =
                         @ + CountedClose(s) - AtOnceClose(s)]
    /\ childClosing' = [childClosing EXCEPT ![s] =
                           IF TcpOpen(s) THEN {"tcp", "poll"} ELSE {"poll"}]
    /\ childTcp' = [childTcp EXCEPT ![s] = IF TcpUsed(s) THEN "closed" ELSE @]
    /\ UNCHANGED <<memVars, sendVars, handleVars, worker, ctrl, childCleared,
                   freeVars, loopVars>>

\* How many of these callbacks are still to come.
ChildPending(s) == (IF "tcp" \in childClosing[s] THEN 1 ELSE 0)
                 + (IF "poll" \in childClosing[s] THEN 1 ELSE 0)

\* closeSessionChildThreadTCPHandle: the last callback stops the worker's loop,
\* and SessionWorkThread goes on to ReChildLoopForSessionClear.
ChildCloseCallback(s, h) ==
    /\ WorkerIdle(s)
    /\ h \in childClosing[s]
    /\ childClosing' = [childClosing EXCEPT ![s] = @ \ {h}]
    /\ uvChildRef' = [uvChildRef EXCEPT ![s] = @ - 1]
    /\ worker' = [worker EXCEPT ![s] = IF uvChildRef[s] = 1 THEN "clear" ELSE @]
    /\ UNCHANGED <<memVars, sendVars, handleVars, ctrl, batch, childTcp,
                   childCleared, freeVars, loopVars>>

\* ReChildLoopForSessionClear returns (see HdcTaskClear), the thread announces
\* itself finished.
WorkerFinish(s) ==
    /\ worker[s] = "clear"
    /\ mem[s] = "live"
    /\ holds[s] = NoSession
    /\ worker' = [worker EXCEPT ![s] = "done"]
    /\ childCleared' = [childCleared EXCEPT ![s] = TRUE]
    /\ UNCHANGED <<memVars, sendVars, handleVars, ctrl, childVars, freeVars,
                   loopVars>>

\* HdcTCPBase::ReadStream meets the end of the stream or a bad packet: close
\* the socket, ask the main thread to free the session.
ReadStreamError(s) ==
    /\ WorkerIdle(s)
    /\ childTcp[s] = "reading"
    /\ childTcp' = [childTcp EXCEPT ![s] = "closed"]
    /\ lstMainThreadOP' = [lstMainThreadOP EXCEPT ![s] = @ + 1]
    /\ UNCHANGED <<memVars, sendVars, handleVars, worker, ctrl, batch,
                   uvChildRef, childClosing, childCleared, freeVars, idleOp,
                   instance>>

-----------------------------------------------------------------------------
(* Send *)

\* The worker enters Send from one of its callbacks (a task, the heartbeat).
WorkerSend(s) ==
    /\ worker[s] \in {"run", "clear"}
    /\ mem[s] = "live"
    /\ batch[s] = <<>>
    /\ holds[s] = NoSession
    /\ s \in mapSession
    /\ Acquire(s, s)
    /\ UNCHANGED <<memVars, handleVars, worker, ctrl, childVars, childCleared,
                   freeVars, loopVars>>

\* Another thread enters Send with the id of session s.
ThreadSend(t, s) ==
    /\ holds[t] = NoSession
    /\ s \in mapSession
    /\ Acquire(t, s)
    /\ UNCHANGED <<memVars, handleVars, worker, ctrl, childVars, childCleared,
                   freeVars, loopVars>>

\* Send leaves: --ref.  On a deleted session the decrement hits freed memory.
SendEnd(x) ==
    /\ holds[x] # NoSession
    /\ holds' = [holds EXCEPT ![x] = NoSession]
    /\ early' = [early EXCEPT ![x] = FALSE]
    /\ ref' = IF mem[holds[x]] = "live"
              THEN [ref EXCEPT ![holds[x]] = @ - 1] ELSE ref
    /\ UNCHANGED <<memVars, handleVars, worker, ctrl, childVars, childCleared,
                   freeVars, loopVars>>

-----------------------------------------------------------------------------
Create(s) == \/ MallocSessionFail(s)
             \/ ConnectDaemon(s)
             \/ AcceptClient(s)
             \/ AcceptClientFail(s)

MainStep(s) == \/ ConnectOk(s)
               \/ ConnectFail(s)
               \/ AsyncFreeSession(s)
               \/ FreeSessionOpeateStop(s)
               \/ FreeSessionOpeateDirect(s)
               \/ CheckFreeSessionContinue(s)
               \/ MainCloseCallbacks(s)
               \/ FreeSessionFinally(s)

MainLoop == \/ MainAsyncCallback
            \/ AsyncStopMainLoop
            \/ ClearSessions
            \/ ReMainLoopForInstanceClear

WorkerStep(s) == \/ SessionWorkThread(s)
                 \/ WorkerUseAfterFree(s)
                 \/ ReadCtrlFromMain(s)
                 \/ WorkThreadStartSession(s)
                 \/ WorkThreadStartSessionFail(s)
                 \/ StopSession(s)
                 \/ \E h \in {"tcp", "poll"} : ChildCloseCallback(s, h)
                 \/ WorkerFinish(s)

\* Peers, users and tasks decide when these happen.
Environment(s) == \/ FreeSession(s)
                  \/ PushFreeSession(s)
                  \/ PostStopInstanceMessage(s)
                  \/ ReadStreamError(s)
                  \/ WorkerSend(s)
                  \/ \E t \in Thread : ThreadSend(t, s)

Next == \/ \E s \in Session : \/ Create(s)
                              \/ MainStep(s)
                              \/ WorkerStep(s)
                              \/ Environment(s)
        \/ MainLoop
        \/ \E x \in Sender : SendEnd(x)

Spec == Init /\ [][Next]_vars

(***************************************************************************)
(* Fairness.  libuv serves every ready handle of a loop in each turn, so a *)
(* callback that keeps becoming ready runs (SF for the worker, whose own   *)
(* callbacks may call Send in between); a connect request completes or     *)
(* fails; a send ends (the peer reads, or the socket breaks).  SF for      *)
(* FreeSessionOpeate says that its repeating timer some day fires while no *)
(* Send is in progress.  No fairness for what peers and users decide.      *)
(***************************************************************************)
Fairness ==
    /\ \A s \in Session :
         /\ WF_vars(ConnectOk(s) \/ ConnectFail(s))
         /\ WF_vars(AsyncFreeSession(s))
         /\ SF_vars(FreeSessionOpeateStop(s) \/ FreeSessionOpeateDirect(s))
         /\ WF_vars(CheckFreeSessionContinue(s))
         /\ WF_vars(MainCloseCallbacks(s))
         /\ WF_vars(FreeSessionFinally(s))
         /\ SF_vars(WorkerStep(s))
    /\ WF_vars(MainAsyncCallback)
    /\ WF_vars(AsyncStopMainLoop)
    /\ WF_vars(ClearSessions)
    /\ WF_vars(ReMainLoopForInstanceClear)
    /\ \A x \in Sender : WF_vars(SendEnd(x))

FairSpec == Spec /\ Fairness

-----------------------------------------------------------------------------
(* Properties *)

\* ref of a session that exists is exactly the number of threads between
\* OP_QUERY_REF and --ref in Send (session.cpp:1015, 1078): no leak, no
\* double release, whatever the session goes through meanwhile.
RefCountsSenders ==
    \A s \in Session : mem[s] = "live" =>
        ref[s] = Cardinality({x \in Sender : holds[x] = s})

\* The promise of OP_QUERY_REF: a reference taken before FreeSession marked the
\* session dead keeps the object until the holder gives it back, because
\* FreeSessionOpeate does not go on while ref > 0 (session.cpp:718).
EarlyReferenceKeepsSession ==
    \A x \in Sender : early[x] => holds[x] \in mapSession /\ mem[holds[x]] = "live"

\* uvHandleRef counts the close callbacks still to come, so FreeSessionFinally
\* ("work when libuv-handle at struct of HdcSession has all callback finished",
\* session.cpp:626) reads zero exactly when they are all done, also for the
\* daemon's hWorkTCP, which AcceptClient closed without that callback.
UvHandleRefCountsCallbacks ==
    \A s \in Session : mem[s] = "live" =>
        uvHandleRef[s] = IF finIdle[s] > 0 THEN PendingClose(s) ELSE 3

\* A session that FreeSessionFinally has deleted has no handle, no connect request
\* and no timer or idle of the free pipeline left on the main loop (TryCloseHandle,
\* TimerUvTask and IdleUvTask all keep the pointer).  Nothing is said of its worker
\* (see ContinueAfterWorker), nor of a session that MallocSession itself deletes
\* (session.cpp:543): that one leaves two handles behind.
DeletedIsOffTheLoop ==
    \A s \in Session : mem[s] = "freed" =>
        /\ \A h \in Handle : handle[s][h] = "closed"
        /\ ~connecting[s]
        /\ opTimer[s] + waitTimer[s] + finIdle[s] = 0

\* One pipeline: however many FreeSession calls arrive, from whichever thread,
\* exactly one stage callback is armed for a dead session and none for one
\* that is not dead.
OneFreePipeline ==
    \A s \in Session : mem[s] = "live" =>
        opTimer[s] + waitTimer[s] + finIdle[s] = IF isDead[s] THEN 1 ELSE 0

\* A session that was stopped through SP_STOP_SESSION is only taken apart after
\* its worker thread has finished (childCleared).  One that is freed while its
\* worker is still queued gets no SP_STOP_SESSION (see ContinueAfterWorker).
StoppedWorkerFinishedFirst ==
    \A s \in Session :
        freedBy[s] = "stop" /\ (finIdle[s] > 0 \/ mem[s] = "freed")
            => worker[s] = "done"

\* uvChildRef reaches zero, and the worker's loop stops, only when the worker
\* has no close callback left.
ChildLoopStopsClean ==
    \A s \in Session :
        /\ worker[s] = "run" => uvChildRef[s] = ChildPending(s)
        /\ worker[s] \in {"clear", "done"} => childClosing[s] = {} /\ batch[s] = <<>>

\* When ReMainLoopForInstanceClear ends because sessionRef is zero, no session
\* exists any more.
CleanStop ==
    instance = "stopped" =>
        mapSession = {} /\ \A s \in Session : mem[s] \in {"none", "freed"}

\* Every session that is marked dead is deleted in the end.
DeadIsDeleted ==
    \A s \in Session : []<>(isDead[s] => mem[s] = "freed" \/ instance = "aborted")

\* A peer that goes away gets its session deleted: a closed stream leads to a
\* deleted session through the asynchronous message.
ClosedStreamIsDeleted ==
    \A s \in Session : []<>(childTcp[s] = "closed"
                              => mem[s] = "freed" \/ instance = "aborted")

\* A stopping daemon leaves its main loop.
StopTerminates == []<>(instance # "stopping")

\* A session is referenced exactly as often as it is being sent on, and a
\* reference taken before the free began keeps it (ref, AdminSession).
SessionReferences == RefCountsSenders /\ EarlyReferenceKeepsSession

\* FreeSession .. FreeSessionFinally: one pipeline frees a session; where it sent
\* SP_STOP_SESSION it waits for the worker; and it leaves nothing of the session on
\* the main loop.  Not covered, as the code does not ensure it: the worker of a
\* session freed before it got its thread, and the delete in MallocSession.
SessionPipeline ==
    TypeOK /\ OneFreePipeline /\ StoppedWorkerFinishedFirst /\ DeletedIsOffTheLoop

\* What a stopping daemon counts is what there is: the handles of a session, the
\* handles of its loop, the sessions of the instance.
DaemonStops == UvHandleRefCountsCallbacks /\ ChildLoopStopsClean /\ CleanStop

\* Sessions end: a dead one and one whose peer is gone are deleted, and a
\* stopping daemon gets out of its loop.
SessionsEnd == StopTerminates /\ DeadIsDeleted /\ ClosedStreamIsDeleted

\* "work when child-work thread finish" (session.cpp:661): FreeSessionContinue
\* runs only once the worker thread is over or was never asked for.
ContinueAfterWorker ==
    \A s \in Session : finIdle[s] > 0 => worker[s] \in {"none", "done"}

-----------------------------------------------------------------------------
\* Refinement mapping: the stages of the free pipeline are one "dying", late
\* references are not promised anything, a session torn in MallocSession was
\* never opened.
lifeOf == [s \in Session |-> CASE mem[s] \in {"none", "torn"} -> "none"
                               [] mem[s] = "freed" -> "gone"
                               [] OTHER -> IF isDead[s] THEN "dying" ELSE "alive"]
heldBy == [x \in Sender |-> IF early[x] THEN holds[x] ELSE NoSession]

Life == INSTANCE SessionLife WITH life <- lifeOf, held <- heldBy

\* The session layer implements SessionLife: no interleaving of FreeSession
\* calls, senders, worker and main loop destroys a session twice, before it is
\* dead, or under a reference older than its death.
ImplementsSessionLife == Life!LifeSpec

-----------------------------------------------------------------------------
(* The inductive invariant behind the invariants above (HdcSession_proofs). *)

MapInv == \A s \in Session : s \in mapSession <=> mem[s] = "live"

\* Where in the free pipeline a session is.
PipeOf(s) ==
    /\ mem[s] = "live" /\ isDead[s] => opTimer[s] + waitTimer[s] + finIdle[s] = 1
    /\ mem[s] # "live" \/ ~isDead[s] => opTimer[s] = 0 /\ waitTimer[s] = 0 /\ finIdle[s] = 0
    /\ mem[s] \in {"none", "torn"} => ~isDead[s]
    /\ mem[s] = "freed" => isDead[s]
    /\ freedBy[s] = "none" <=>
         waitTimer[s] = 0 /\ finIdle[s] = 0 /\ mem[s] # "freed"
    /\ waitTimer[s] > 0 => freedBy[s] = "stop"
PipeInv == \A s \in Session : PipeOf(s)

\* Handles are open until FreeSessionContinue; after it uvHandleRef is the
\* number of callbacks to come, and a close AcceptClient began ends no later.
HandleOf(s) ==
    /\ mem[s] = "live" /\ finIdle[s] = 0 =>
         /\ uvHandleRef[s] = 3
         /\ handle[s]["pollMain"] = "open"
         /\ handle[s]["dataPipe"] = "open"
         /\ handle[s]["hWorkTCP"] \in {"open", "closing", "closed"}
    /\ mem[s] = "live" /\ finIdle[s] > 0 =>
         /\ uvHandleRef[s] = PendingClose(s)
         /\ handle[s]["pollMain"] \in {"closingCb", "closed"}
         /\ handle[s]["dataPipe"] \in {"closingCb", "closed"}
         /\ handle[s]["hWorkTCP"] \in {"closing", "closingCb", "closed"}
         /\ handle[s]["hWorkTCP"] = "closing" => handle[s]["pollMain"] = "closingCb"
    /\ mem[s] = "freed" => \A h \in Handle : handle[s][h] = "closed"
    /\ connecting[s] => /\ mem[s] = "live"
                        /\ handle[s]["hWorkTCP"] \in {"open", "closingCb"}
HandleInv == \A s \in Session : HandleOf(s)

\* childCleared means what FreeSessionContinue takes it for.
WorkerOf(s) ==
    /\ connecting[s] => worker[s] = "none" /\ ~childCleared[s]
    /\ childCleared[s] => worker[s] \in {"none", "done"}
    /\ freedBy[s] = "stop" => worker[s] \in {"run", "clear", "done"}
    /\ freedBy[s] = "stop" /\ (finIdle[s] > 0 \/ mem[s] = "freed")
         => worker[s] = "done"
    /\ mem[s] \in {"none", "torn"} => worker[s] = "none" /\ ~childCleared[s]
WorkerInv == \A s \in Session : WorkerOf(s)

\* START is sent once and first, STOP once and last.
Started(q) == q \in {<<"START">>, <<"START", "STOP">>}
Stopped(q) == q \in {<<"STOP">>, <<"START", "STOP">>}

CtrlOf(s) ==
    /\ ctrl[s] = <<>> \/ Started(ctrl[s]) \/ Stopped(ctrl[s])
    /\ batch[s] = <<>> \/ Started(batch[s]) \/ Stopped(batch[s])
    /\ worker[s] = "none" => ctrl[s] = <<>>
    /\ worker[s] \in {"none", "queued"} => batch[s] = <<>> /\ childClosing[s] = {}
                                           /\ uvChildRef[s] = 0
    /\ Started(ctrl[s]) => batch[s] = <<>>
    /\ Stopped(ctrl[s]) \/ Stopped(batch[s]) \/ childClosing[s] # {}
         => freedBy[s] = "stop"
    /\ ~(Stopped(ctrl[s]) /\ Stopped(batch[s]))
    /\ childClosing[s] # {} => ctrl[s] = <<>> /\ batch[s] = <<>>
    /\ worker[s] = "run" => uvChildRef[s] = ChildPending(s)
    /\ worker[s] \in {"clear", "done"} => childClosing[s] = {} /\ batch[s] = <<>>
CtrlInv == \A s \in Session : CtrlOf(s)

\* References: counted, and the early ones hold up FreeSessionOpeate.
Holders(s) == {x \in Sender : holds[x] = s}
RefOf(s) == mem[s] # "freed" => ref[s] = Cardinality(Holders(s))
RefInv == \A s \in Session : RefOf(s)

HolderOf(x) ==
    /\ holds[x] # NoSession => mem[holds[x]] \in {"live", "freed"}
    /\ early[x] => /\ holds[x] # NoSession
                   /\ mem[holds[x]] = "live"
                   /\ isDead[holds[x]] => opTimer[holds[x]] > 0
HolderInv == \A x \in Sender : HolderOf(x)

Accounted == {s \in Session : mem[s] \in {"live", "torn"}}

CountInv == /\ sessionRef = Cardinality(Accounted)
            /\ instance = "stopped" => Accounted = {}

IInv == /\ TypeOK
        /\ MapInv
        /\ PipeInv
        /\ HandleInv
        /\ WorkerInv
        /\ CtrlInv
        /\ HolderInv
        /\ RefInv
        /\ CountInv
=============================================================================
