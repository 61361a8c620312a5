----------------------------- MODULE HdcChannel -----------------------------
(***************************************************************************)
(* The channels of the host server: one per connected client.  A channel   *)
(* is made by the main thread when a client connects, its stream is handed *)
(* to the worker thread of a session when the client names a device, and   *)
(* it is freed by the main thread once nobody holds a reference.           *)
(*                                                                         *)
(* Threads: "main" (main loop of the server) and "worker" (child loop of   *)
(* the session).  They meet in the channel record (ref, isDead,            *)
(* childCleared), in the control pipe of the session and in the list of    *)
(* asynchronous requests of the channel class.                             *)
(***************************************************************************)
EXTENDS Naturals, Sequences, FiniteSets

CONSTANTS Channels,     \* channels the server may accept
          MaxWrites,    \* writes of one stream that wait for their callback
          MaxReads,     \* packets a client sends after its handshake
          MaxPackets    \* packets the daemon sends for one channel

\* One command for each way through DoCommand: "list" stands for every local
\* command that only answers, "shell" for every command only passed on, and
\* "remote" for a file sent in remote client mode.
LocalCommands == {"list", "wait", "connect", "keepalive", "disconnect"}
AnywhereCommands == {"fport rm", "spawn"}
TaskCommands == {"recv", "send", "fport", "remote"}
Commands == LocalCommands \cup AnywhereCommands \cup TaskCommands \cup {"shell"}

ASSUME ChannelBounds == MaxWrites \in Nat /\ MaxReads \in Nat /\ MaxPackets \in Nat

VARIABLES ch,       \* the HdcChannel records
          peer,     \* the client end of the socket and what it has sent
          sess,     \* the session of the device: up, dead (isDead), stopped
          ctrl,     \* control pipe from the main thread to the worker
          asyncQ,   \* lstMainThreadOP: channels to free in the main thread
          bindNext, \* DoNextLoop callbacks of BindChannelToSession
          clearNext,\* DoNextLoop callbacks of DetachChannel
          hold,     \* what the worker is doing with a referenced channel
          permit,   \* hostReceivePermits: channels with a permit
          forward,  \* channels that own an entry of the forward map
          task,     \* host tasks of the session, by channel
          asked     \* what the daemon knows of a channel: none, some, remote

chanVars == <<ch, peer, sess, ctrl, asyncQ, bindNext, clearNext, hold, permit,
              forward, task, asked>>

Nobody == [kind |-> "none"]

\* The record MallocChannel leaves behind, before any of it is used.
NewChannel == [st |-> "none", isDead |-> FALSE, ref |-> 0, uvHandleRef |-> 0,
               work |-> "null", child |-> "null", onClose |-> "none",
               wWork |-> 0, wChild |-> 0, bound |-> FALSE,
               childCleared |-> FALSE, free |-> "no", handshakeOK |-> FALSE,
               keepAlive |-> FALSE, connecting |-> FALSE]

ChanInit ==
  /\ ch = [c \in Channels |-> NewChannel]
  /\ peer = [c \in Channels |-> [on |-> FALSE, sent |-> 0, q |-> <<>>, recv |-> 0]]
  /\ sess \in {"up", "stopped"}
  /\ ctrl = <<>> /\ asyncQ = {} /\ bindNext = {} /\ clearNext = {}
  /\ hold = Nobody /\ permit = {} /\ forward = {} /\ task = {}
  /\ asked = [c \in Channels |-> "none"]
-----------------------------------------------------------------------------
(* Operations on one channel record                                        *)

InMap(c) == ch[c].st = "mapped"

\* FreeChannel in the main thread: once, and only for a channel in the map.
MarkDead(r) == IF r.isDead \/ r.st # "mapped"
               THEN r ELSE [r EXCEPT !.isDead = TRUE, !.free = "operate"]

\* FreeChannel: the main thread starts the timer, the worker asks it to.
NotFreed(c, r, thread) == ch' = [ch EXCEPT ![c] = r] /\ UNCHANGED asyncQ
FreeChannel(c, r, thread) ==
  /\ ch' = [ch EXCEPT ![c] = IF thread = "main" THEN MarkDead(r) ELSE r]
  /\ asyncQ' = IF thread = "main" THEN asyncQ ELSE asyncQ \cup {c}

\* GetSendStream and SendChannel: a reference for every write under way; a
\* stream that is closed, or a write that fails at once, leaves none.
SendChannel(r, thread) ==
  IF thread = "main"
  THEN IF r.work = "open" /\ r.wWork < MaxWrites
       THEN [r EXCEPT !.ref = @ + 1, !.wWork = @ + 1] ELSE r
  ELSE IF r.child = "open" /\ r.wChild < MaxWrites
       THEN [r EXCEPT !.ref = @ + 1, !.wChild = @ + 1] ELSE r

\* EchoClient: an answer for the client, through the stream of this thread.
EchoClient(r, thread) == SendChannel(r, thread)

\* TryCloseHandle of the stream a thread uses.
CloseStream(r, thread) ==
  IF thread = "main"
  THEN IF r.work = "open" THEN [r EXCEPT !.work = "closing"] ELSE r
  ELSE IF r.child = "open" THEN [r EXCEPT !.child = "closing"] ELSE r

\* A session that can be bound: connected, not dead, handshake done.
FindAliveSession == sess = "up"

\* FreeSession and NotifyInstanceSessionFree: the session is dead, its permits
\* and its entries of the forward map are gone.
SessionIsFreed == sess' = "dead" /\ permit' = {} /\ forward' = {}

\* The thread that reads the stream of a channel.
Reader(c) == IF ch[c].child = "open" THEN "worker" ELSE "main"
Readable(c) ==
  \/ ch[c].st = "mapped" /\ ch[c].work = "open"
  \/ ch[c].child = "open" /\ sess # "stopped" /\ hold = Nobody
-----------------------------------------------------------------------------
(* Main thread: accept, handshake, binding                                 *)

\* AcceptClient: MallocChannel, uv_accept (which may fail), first handshake.
AcceptClient(c) ==
  /\ ch[c].st = "none"
  /\ \E accepted \in BOOLEAN :
       LET r == [NewChannel EXCEPT !.st = "mapped", !.uvHandleRef = 1,
                                   !.work = "open"]
       IN /\ peer' = [peer EXCEPT ![c].on = accepted]
          /\ ch' = [ch EXCEPT ![c] = IF accepted THEN SendChannel(r, "main")
                                     ELSE MarkDead(r)]
  /\ UNCHANGED <<sess, ctrl, asyncQ, bindNext, clearNext, hold, permit,
                 forward, task, asked>>

\* The client answers the handshake, with or without a device.
ClientHandshake(c) ==
  /\ peer[c].on /\ peer[c].sent = 0
  /\ \E m \in {"hs key", "hs nokey", "hs bad"} :
       peer' = [peer EXCEPT ![c].sent = 1, ![c].q = <<m>>]
  /\ UNCHANGED <<ch, sess, ctrl, asyncQ, bindNext, clearNext, hold, permit,
                 forward, task, asked>>

\* The client sends its command (again, for wait and the shell).
ClientCommand(c) ==
  /\ peer[c].on /\ peer[c].sent \in 1 .. MaxReads /\ peer[c].q = <<>>
  /\ \E m \in Commands :
       peer' = [peer EXCEPT ![c].sent = @ + 1, ![c].q = <<m>>]
  /\ UNCHANGED <<ch, sess, ctrl, asyncQ, bindNext, clearNext, hold, permit,
                 forward, task, asked>>

\* The client goes away (it is done, or it is interrupted).
ClientHangup(c) ==
  /\ peer[c].on
  /\ peer' = [peer EXCEPT ![c].on = FALSE]
  /\ UNCHANGED <<ch, sess, ctrl, asyncQ, bindNext, clearNext, hold, permit,
                 forward, task, asked>>

\* BindChannelToSession: the socket is duplicated for the worker (which may
\* fail), the stream of the main thread is closed under a reference and the
\* rest is left to the next turn of the loop.
BindChannelToSession(c, r) ==
  \/ /\ FindAliveSession
     /\ ch' = [ch EXCEPT ![c] = [r EXCEPT !.ref = @ + 1, !.bound = TRUE,
                                          !.work = "closing"]]
     /\ bindNext' = bindNext \cup {c}
  \/ /\ ch' = [ch EXCEPT ![c] = MarkDead(IF FindAliveSession THEN r
                                         ELSE EchoClient(r, "main"))]
     /\ UNCHANGED bindNext

\* ChannelHandShake: banner, connect key, binding; an error ends the channel.
ChannelHandShake(c) ==
  /\ Readable(c) /\ peer[c].q # <<>> /\ ~ch[c].handshakeOK
  /\ peer' = [peer EXCEPT ![c].q = <<>>]
  /\ LET r == [ch[c] EXCEPT !.handshakeOK = TRUE]
         m == Head(peer[c].q)
     IN CASE m = "hs key"   -> BindChannelToSession(c, r)
          [] m = "hs nokey" -> ch' = [ch EXCEPT ![c] = r] /\ UNCHANGED bindNext
          [] OTHER          -> ch' = [ch EXCEPT ![c] = MarkDead(@)] /\ UNCHANGED bindNext
  /\ UNCHANGED <<sess, ctrl, asyncQ, clearNext, hold, permit, forward, task,
                 asked>>

\* The close callback of hWorkTCP.  The writes still under way fail before it
\* (and may free the channel); then the reference of the binding or the handle
\* reference of FreeChannelContinue is returned.
WorkClosed(c) ==
  LET r == [ch[c] EXCEPT !.wWork = 0, !.ref = @ - ch[c].wWork]
      f == IF ch[c].wWork > 0 /\ r.ref = 0 THEN MarkDead(r) ELSE r
  IN /\ ch[c].work = "closing"
     /\ ch' = [ch EXCEPT ![c] =
                [f EXCEPT !.work = "closed", !.bound = FALSE,
                          !.ref = IF f.bound THEN @ - 1 ELSE @,
                          !.uvHandleRef = IF f.free = "finally" /\ f.onClose = "uvref"
                                          THEN @ - 1 ELSE @,
                          !.onClose = IF @ = "uvref" THEN "none" ELSE @]]
     /\ UNCHANGED <<peer, sess, ctrl, asyncQ, bindNext, clearNext, hold, permit,
                    forward, task, asked>>

\* The callback of BindChannelToSession looks for the session again.
BindNextLoop(c) ==
  /\ c \in bindNext /\ ch[c].work = "closed"
  /\ bindNext' = bindNext \ {c}
  /\ ctrl' = IF FindAliveSession THEN Append(ctrl, <<"attach", c>>) ELSE ctrl
  /\ UNCHANGED <<ch, peer, sess, asyncQ, clearNext, hold, permit, forward, task,
                 asked>>
-----------------------------------------------------------------------------
(* Commands of the client                                                  *)

\* RemoveForward and RemoveFportkey for every rule: a rule of a session that
\* still exists has its tasks cleared and its channel freed.
RemoveForward ==
  /\ task' = IF sess = "stopped" THEN task ELSE task \ forward
  /\ forward' = {}
Unforwarded == IF sess = "stopped" THEN {} ELSE forward

\* NewConnectTry: the target is refused or known, or a timer watches the attempt.
NewConnectTry(r, thread) ==
  {[r |-> EchoClient(r, thread), more |-> FALSE],
   [r |-> [r EXCEPT !.connecting = TRUE], more |-> TRUE]}

\* DoCommandLocal, as far as it decides about the channel: the new record and
\* whether the channel lives on.
DoCommandLocal(r, cmd, thread) ==
  CASE cmd = "wait"      -> {[r |-> EchoClient(r, thread), more |-> sess # "up"]}
    [] cmd = "keepalive" -> {[r |-> [r EXCEPT !.keepAlive = TRUE], more |-> TRUE]}
    [] cmd = "spawn"     -> {[r |-> EchoClient(r, thread), more |-> TRUE]}
    [] cmd = "connect"   -> NewConnectTry(r, thread)
    [] OTHER             -> {[r |-> EchoClient(r, thread), more |-> FALSE]}

\* SendToDaemon: only to a session that is there and alive.
SendToDaemon == FindAliveSession

\* DoCommandRemote: passed on to a live session, or a task command, whose
\* failure does not count; anything else ends in an error.
DoCommandRemote(r, cmd, thread) ==
  IF cmd \in TaskCommands \/ (cmd = "shell" /\ SendToDaemon)
  THEN {[r |-> IF cmd = "remote" /\ FindAliveSession THEN SendChannel(r, thread) ELSE r,
         more |-> TRUE]}
  ELSE {[r |-> EchoClient(r, thread), more |-> FALSE]}

\* TaskCommand: sending and forwarding start a task of the host; everything
\* else about files is started by the daemon.
TaskCommand(c, cmd) ==
  IF cmd \in {"send", "fport"} /\ FindAliveSession THEN task \cup {c} ELSE task

\* RegisterHostPermit: one permit for a channel; a second one, and a file
\* command that receives nothing, withdraw it.
RegisterHostPermit(c, cmd) ==
  IF cmd \in {"recv", "fport"} /\ c \notin permit THEN permit \cup {c} ELSE permit \ {c}

\* ReadChannel, DoCommand and the end of ReadStream: a channel without a child
\* stream runs commands on the server itself; a command that fails, or is
\* done, frees the channel unless it is kept alive.
DoCommand(c) ==
  LET cmd     == Head(peer[c].q)
      thread  == Reader(c)
      local   == ch[c].child = "null" \/ cmd \in AnywhereCommands
      removes == local /\ cmd = "fport rm"
      leaves  == local /\ cmd = "disconnect" /\ sess = "up"
  IN /\ Readable(c) /\ ch[c].handshakeOK /\ peer[c].q # <<>>
     /\ \E res \in IF local THEN DoCommandLocal(ch[c], cmd, thread)
                     ELSE DoCommandRemote(ch[c], cmd, thread) :
          LET freed == (IF res.more \/ res.r.keepAlive THEN {} ELSE {c})
                       \cup (IF removes THEN Unforwarded ELSE {})
              left  == [ch EXCEPT ![c] = res.r]
          IN IF thread = "main"
             THEN /\ ch' = [d \in Channels |->
                              IF d \in freed THEN MarkDead(left[d]) ELSE left[d]]
                  /\ UNCHANGED asyncQ
             ELSE /\ ch' = left
                  /\ asyncQ' = asyncQ \cup freed
     /\ peer' = [peer EXCEPT ![c].q = <<>>]
     /\ asked' = [asked EXCEPT ![c] = IF local \/ ~SendToDaemon THEN @
                                      ELSE IF cmd = "remote" THEN "remote"
                                      ELSE IF @ = "none" THEN "some" ELSE @]
     /\ CASE removes -> RemoveForward /\ UNCHANGED <<sess, permit>>
          [] leaves  -> SessionIsFreed /\ UNCHANGED task
          [] ~local /\ cmd \in TaskCommands ->
               /\ task' = TaskCommand(c, cmd)
               /\ permit' = RegisterHostPermit(c, cmd)
               /\ UNCHANGED <<sess, forward>>
          [] OTHER   -> UNCHANGED <<sess, permit, forward, task>>
     /\ UNCHANGED <<ctrl, bindNext, clearNext, hold>>

\* The same command of a client whose channel is not modelled.
OtherRemovesForward ==
  /\ forward # {} /\ RemoveForward
  /\ ch' = [d \in Channels |-> IF d \in Unforwarded THEN MarkDead(ch[d]) ELSE ch[d]]
  /\ UNCHANGED <<peer, sess, ctrl, asyncQ, bindNext, clearNext, hold, permit, asked>>

\* ReadStream: the peer is gone or the packet makes no sense.
ReadStreamFails(c) ==
  /\ Readable(c) /\ ~peer[c].on
  /\ FreeChannel(c, CloseStream(ch[c], Reader(c)), Reader(c))
  /\ UNCHANGED <<peer, sess, ctrl, bindNext, clearNext, hold, permit, forward,
                 task, asked>>

\* The reference of a write ends with its callback.
WriteDone(r, thread) == IF thread = "main" THEN [r EXCEPT !.wWork = @ - 1, !.ref = @ - 1]
                        ELSE [r EXCEPT !.wChild = @ - 1, !.ref = @ - 1]

\* WriteCallback: the write is done; a failure closes the stream
\* and frees a channel that has no reference left.
WriteCallback(c, thread, ok) ==
  LET r == WriteDone(ch[c], thread)
      f == CloseStream(r, thread)
  IN /\ IF thread = "main" THEN ch[c].work = "open" /\ ch[c].wWork > 0
        ELSE ch[c].child = "open" /\ ch[c].wChild > 0 /\ hold = Nobody /\ sess # "stopped"
     /\ ok \/ ~peer[c].on
     /\ IF ~ok /\ ~f.isDead /\ f.ref = 0 THEN FreeChannel(c, f, thread)
        ELSE /\ ch' = [ch EXCEPT ![c] = IF ok THEN r ELSE f]
             /\ UNCHANGED asyncQ
     /\ UNCHANGED <<peer, sess, ctrl, bindNext, clearNext, hold, permit, forward,
                    task, asked>>

\* OrderConnecTargetResult: the timer of NewConnectTry ends with a result.  It has
\* the address of the channel and no reference, and repeats until then, also when
\* the channel is deleted: it reads freed memory, taken here to hold what the
\* channel left there (a closed stream and an id that is not in the map).
OrderConnecTargetResult(c) ==
  /\ ch[c].connecting
  /\ ch' = [ch EXCEPT ![c] = MarkDead(EchoClient([@ EXCEPT !.connecting = FALSE], "main"))]
  /\ UNCHANGED <<peer, sess, ctrl, asyncQ, bindNext, clearNext, hold, permit,
                 forward, task, asked>>
-----------------------------------------------------------------------------
(* Main thread: freeing                                                    *)

\* MainAsyncCallback and AsyncMainLoopTask: FreeChannel for the worker.
AsyncMainLoopTask(c) ==
  /\ c \in asyncQ
  /\ asyncQ' = asyncQ \ {c}
  /\ ch' = [ch EXCEPT ![c] = MarkDead(@)]
  /\ UNCHANGED <<peer, sess, ctrl, bindNext, clearNext, hold, permit, forward,
                 task, asked>>

\* FreeChannelContinue: the stream of the main thread is closed, unless it
\* already is, and the handle reference is given back.
FreeChannelContinue(r) ==
  IF r.work = "open"
  THEN [r EXCEPT !.free = "finally", !.work = "closing", !.onClose = "uvref"]
  ELSE [r EXCEPT !.free = "finally", !.uvHandleRef = @ - 1]

AnyReference(r) == TRUE
NoReference(r) == r.ref = 0

\* FreeChannelOpeate: the timer waits until nobody refers to the channel,
\* then asks the worker to detach it.
FreeChannelOpeate(c) ==
  /\ ch[c].free = "operate" /\ NoReference(ch[c])
  /\ IF ch[c].child # "null"
     THEN /\ ch' = [ch EXCEPT ![c].free = "wait",
                              ![c].childCleared = IF FindAliveSession THEN @ ELSE TRUE]
          /\ ctrl' = IF FindAliveSession THEN Append(ctrl, <<"detach", c>>) ELSE ctrl
     ELSE /\ ch' = [ch EXCEPT ![c] = FreeChannelContinue(@)]
          /\ UNCHANGED ctrl
  /\ UNCHANGED <<peer, sess, asyncQ, bindNext, clearNext, hold, permit, forward,
                 task, asked>>

\* The second timer of FreeChannelOpeate waits for childCleared.
CheckFreeChannelContinue(c) ==
  /\ ch[c].free = "wait" /\ ch[c].childCleared
  /\ ch' = [ch EXCEPT ![c] = FreeChannelContinue(@)]
  /\ UNCHANGED <<peer, sess, ctrl, asyncQ, bindNext, clearNext, hold, permit,
                 forward, task, asked>>

\* NotifyInstanceChannelFree, which RemoveHostReceivePermit does.
PermitKept(c) == permit
NotifyInstanceChannelFree(c) == permit \ {c}

\* FreeChannelFinally: the permit and the map entry go; the record itself is
\* deleted at once, or by the close callback of a child stream still open.
FreeChannelFinally(c) ==
  /\ ch[c].free = "finally" /\ ch[c].uvHandleRef = 0
  /\ permit' = NotifyInstanceChannelFree(c)
  /\ ch' = [ch EXCEPT ![c].free = "done",
              ![c].st = IF ch[c].child = "open" THEN "removed" ELSE "deleted",
              ![c].child = IF @ = "open" THEN "closing" ELSE @,
              ![c].onClose = IF ch[c].child = "open" THEN "delete" ELSE @]
  /\ UNCHANGED <<peer, sess, ctrl, asyncQ, bindNext, clearNext, hold, forward,
                 task, asked>>
-----------------------------------------------------------------------------
(* Worker thread of the session                                            *)

Working == sess # "stopped" /\ hold = Nobody

\* ReadCtrlFromMain takes a request; a channel still in the map is
\* referenced (OP_QUERY_REF) for the time of an attach.
ReadCtrlFromMain ==
  /\ Working /\ ctrl # <<>>
  /\ LET op == Head(ctrl)[1]
         c  == Head(ctrl)[2]
     IN IF op = "attach"
        THEN /\ hold' = IF InMap(c) THEN [kind |-> "attach", c |-> c, early |-> ~ch[c].isDead]
                        ELSE Nobody
             /\ ch' = [ch EXCEPT ![c].ref = IF InMap(c) THEN @ + 1 ELSE @]
             /\ UNCHANGED <<clearNext, task>>
        ELSE \* DetachChannel
             /\ task' = IF InMap(c) /\ ch[c].childCleared THEN task ELSE task \ {c}
             /\ clearNext' = IF InMap(c) /\ ~ch[c].childCleared /\ ch[c].child # "open"
                             THEN clearNext \cup {c} ELSE clearNext
             /\ ch' = IF InMap(c) /\ ~ch[c].childCleared /\ ch[c].child = "open"
                      THEN [ch EXCEPT ![c].child = "closing", ![c].onClose = "cleared"]
                      ELSE ch
             /\ UNCHANGED hold
  /\ ctrl' = Tail(ctrl)
  /\ UNCHANGED <<peer, sess, asyncQ, bindNext, permit, forward, asked>>

\* AttachChannel: the duplicated socket is opened on the child loop, or is
\* closed again when that fails; the reference ends.
AttachChannel ==
  /\ hold.kind = "attach"
  /\ \E opened \in {"open", "closing"} :
       ch' = [ch EXCEPT ![hold.c].child = opened, ![hold.c].ref = @ - 1]
  /\ hold' = Nobody
  /\ UNCHANGED <<peer, sess, ctrl, asyncQ, bindNext, clearNext, permit, forward,
                 task, asked>>

\* The close callback of hChildWorkTCP; the writes under way fail before it,
\* and the last of them frees the channel.
ChildGone(r) ==
  [r EXCEPT !.child = "closed", !.ref = @ - r.wChild, !.wChild = 0,
            !.childCleared = @ \/ r.onClose = "cleared",
            !.st = IF r.onClose = "delete" THEN "deleted" ELSE @,
            !.onClose = IF @ \in {"cleared", "delete"} THEN "none" ELSE @]
FailedWrites(r) == r.wChild > 0 /\ ~r.isDead /\ r.ref = r.wChild

ChildClosed(c) ==
  /\ ch[c].child = "closing" /\ Working
  /\ ch' = [ch EXCEPT ![c] = ChildGone(@)]
  /\ asyncQ' = IF FailedWrites(ch[c]) THEN asyncQ \cup {c} ELSE asyncQ
  /\ UNCHANGED <<peer, sess, ctrl, bindNext, clearNext, hold, permit, forward,
                 task, asked>>

Detached(r) == [r EXCEPT !.childCleared = TRUE]

\* The next turn of the child loop, after the close callbacks of this one.
ClearNextLoop(c) ==
  /\ c \in clearNext /\ ch[c].child = "closed" /\ Working
  /\ clearNext' = clearNext \ {c}
  /\ ch' = [ch EXCEPT ![c] = Detached(@)]
  /\ UNCHANGED <<peer, sess, ctrl, asyncQ, bindNext, hold, permit, forward, task,
                 asked>>

\* FetchCommand, first half: a packet of the daemon for a channel the daemon
\* has heard of; a channel that is no longer in the map is only answered.
FetchCommand(c) ==
  /\ Working /\ asked[c] # "none" /\ InMap(c) /\ peer[c].recv < MaxPackets
  /\ peer' = [peer EXCEPT ![c].recv = @ + 1]
  /\ \E cmd \in {"echo", "channel close", "forward success", "file check",
                 "forward active", "file init", "data"} :
       hold' = [kind |-> "fetch", c |-> c, early |-> ~ch[c].isDead, cmd |-> cmd]
  /\ ch' = [ch EXCEPT ![c].ref = @ + 1]
  /\ UNCHANGED <<sess, ctrl, asyncQ, bindNext, clearNext, permit, forward,
                 task, asked>>

\* CheckHostCommandPermission: orders that only a permit allows, and orders
\* the host never takes from a daemon.
CheckHostCommandPermission(c, cmd) ==
  /\ cmd # "file init"
  /\ cmd \in {"file check", "forward active"} => c \in permit

\* FetchCommand, second half: DispatchChannelCommand for a channel that is
\* alive, and the end of the reference.
DispatchChannelCommand ==
  /\ hold.kind = "fetch"
  /\ hold' = Nobody
  /\ LET c     == hold.c
         cmd   == hold.cmd
         runs  == hold.early /\ CheckHostCommandPermission(c, cmd)
         r     == [ch[c] EXCEPT !.ref = @ - 1]
         passed == asked[c] = "remote" /\ cmd \in {"file check", "data"}
     IN /\ ch' = [ch EXCEPT ![c] =
                    CASE runs /\ (cmd = "echo" \/ passed)  -> EchoClient(r, "worker")
                      [] runs /\ cmd = "forward success" -> CloseStream(r, "worker")
                      [] OTHER                           -> r]
        /\ asyncQ' = IF runs /\ cmd = "channel close" THEN asyncQ \cup {c} ELSE asyncQ
        /\ forward' = IF runs /\ cmd = "forward success" THEN forward \cup {c} ELSE forward
        /\ task' = CASE runs /\ cmd = "channel close" -> task \ {c}
                     [] runs /\ ~passed /\ cmd \in {"file check", "forward active"} ->
                          task \cup {c}
                     [] OTHER -> task
  /\ UNCHANGED <<peer, sess, ctrl, bindNext, clearNext, permit, asked>>

\* The session is freed for a reason of its own.
SessionDies ==
  /\ sess = "up" /\ SessionIsFreed
  /\ UNCHANGED <<ch, peer, ctrl, asyncQ, bindNext, clearNext, hold, task, asked>>

\* The worker of a dead session stops after the requests before the stop: the
\* streams of its loop are closed, its tasks cleared, late permits withdrawn.
WorkerStops ==
  /\ sess = "dead" /\ Working /\ ctrl = <<>>
  /\ sess' = "stopped"
  /\ ch' = [c \in Channels |->
       IF ch[c].child \notin {"open", "closing"} THEN ch[c] ELSE ChildGone(ch[c])]
  /\ asyncQ' = asyncQ \cup {c \in Channels : /\ ch[c].child \in {"open", "closing"}
                                             /\ FailedWrites(ch[c])}
  /\ permit' = {} /\ task' = {} /\ clearNext' = {}
  /\ UNCHANGED <<peer, ctrl, bindNext, hold, forward, asked>>
-----------------------------------------------------------------------------
ClientSteps(c) == ClientHandshake(c) \/ ClientCommand(c) \/ ClientHangup(c)

\* The callbacks of the main loop and those of the child loop.
MainSteps(c) ==
  \/ WorkClosed(c) \/ BindNextLoop(c) \/ AsyncMainLoopTask(c)
  \/ FreeChannelOpeate(c) \/ CheckFreeChannelContinue(c) \/ FreeChannelFinally(c)
StreamSteps(c) ==
  \/ ChannelHandShake(c) \/ DoCommand(c) \/ ReadStreamFails(c)
  \/ \E thread \in {"main", "worker"}, ok \in BOOLEAN : WriteCallback(c, thread, ok)
WorkerSteps(c) == ChildClosed(c) \/ ClearNextLoop(c) \/ FetchCommand(c)

ChanNext ==
  \/ \E c \in Channels : \/ AcceptClient(c) \/ ClientSteps(c) \/ MainSteps(c)
                         \/ StreamSteps(c) \/ OrderConnecTargetResult(c) \/ WorkerSteps(c)
  \/ ReadCtrlFromMain \/ AttachChannel \/ DispatchChannelCommand
  \/ OtherRemovesForward \/ SessionDies \/ WorkerStops

ChanSpec == ChanInit /\ [][ChanNext]_chanVars
-----------------------------------------------------------------------------
(* Properties                                                              *)

ChannelFields == {"st", "isDead", "ref", "uvHandleRef", "work", "child", "onClose", "wWork", "wChild", "bound",
                  "childCleared", "free", "handshakeOK", "keepAlive", "connecting"}
StreamStates == {"null", "open", "closing", "closed"}

\* A channel record.
ChannelShape(r) ==
  /\ DOMAIN r = ChannelFields
  /\ r.st \in {"none", "mapped", "removed", "deleted"}
  /\ r.ref \in Nat /\ r.uvHandleRef \in 0 .. 1
  /\ r.work \in StreamStates /\ r.child \in StreamStates
  /\ r.onClose \in {"none", "uvref", "cleared", "delete"}
  /\ r.wWork \in 0 .. MaxWrites /\ r.wChild \in 0 .. MaxWrites
  /\ r.free \in {"no", "operate", "wait", "finally", "done"}

\* The types of the state of the channels.
ChanTypeOK ==
  /\ DOMAIN ch = Channels /\ \A c \in Channels : ChannelShape(ch[c])
  /\ sess \in {"up", "dead", "stopped"}
  /\ asyncQ \subseteq Channels /\ bindNext \subseteq Channels
  /\ clearNext \subseteq Channels /\ permit \subseteq Channels
  /\ forward \subseteq Channels /\ task \subseteq Channels

\* The reference count of a channel in the map counts the writes under way in
\* both threads, the close of a bound stream and what the worker holds: the
\* timer of FreeChannelOpeate waits for exactly these, and not for the timer of a
\* connection attempt, which has the channel without a reference.
ChannelRefs ==
  \A c \in Channels : ch[c].st = "mapped" =>
    ch[c].ref = ch[c].wWork + ch[c].wChild + (IF ch[c].bound THEN 1 ELSE 0)
                + (IF hold # Nobody /\ hold.c = c THEN 1 ELSE 0)

\* A channel the worker took while it was alive stays in the map, and so in
\* memory, until the worker gives it back, whatever the main thread frees.
HeldChannelKept == hold # Nobody /\ hold.early => ch[hold.c].st = "mapped"

\* As long as its session lives, a channel that has left the map has released
\* what the worker and the stream had of it: no task, no permit, no stream and no
\* write whose callback would still use the record, and a permit is never kept
\* without its channel.  The timer of a connection attempt may be left (connecting,
\* server_for_client.cpp:658): nothing stops it, and it uses the deleted channel.
FreedChannelReleased ==
  sess = "up" =>
    \A c \in Channels :
      /\ ch[c].st \in {"removed", "deleted"} =>
           /\ c \notin task /\ c \notin clearNext
           /\ ch[c].child \in {"null", "closed"} /\ ch[c].wChild = 0 /\ ch[c].wWork = 0
      /\ c \in permit => InMap(c)

\* The channel lost its child stream without being freed: a forward rule
\* keeps it for fport rm, and an attach that failed leaves it behind.
LostItsClient(c) == ch[c].child \in {"closing", "closed"} /\ ~ch[c].isDead

\* A client that is gone has its channel freed, however the hang-up meets the
\* hand-over to the worker, a command or a write, unless the session ends or
\* the channel was detached from its client before.
HangupFreesChannel ==
  \A c \in Channels :
    []<>(~peer[c].on => ~InMap(c) \/ LostItsClient(c) \/ sess # "up")

\* A channel that is marked dead is deleted in the end, unless its session
\* ends meanwhile: nothing keeps a reference for ever and the worker answers.
DeadChannelIsDeleted ==
  \A c \in Channels : []<>(ch[c].isDead => ch[c].st = "deleted" \/ sess # "up")

\* A channel is referenced exactly as often as it is used, and one the worker
\* took while it lived is not freed under it (AdminChannel, FreeChannelOpeate).
ChannelSafe == ChanTypeOK /\ ChannelRefs /\ HeldChannelKept

\* Channels end: a client that has gone takes its channel with it, and a channel
\* marked dead is deleted (FreeChannel, CheckFreeChannelContinue).
ChannelEnds == HangupFreesChannel /\ DeadChannelIsDeleted
-----------------------------------------------------------------------------
(* The inductive invariant of ChannelSafe *)

\* How far the freeing of a channel has come, and what is still to be given back.
FreeStages(r) ==
  /\ ~r.isDead => r.free = "no"
  /\ r.st = "none" => r.free = "no"
  /\ r.st # "none" /\ r.free \in {"no", "operate", "wait"} => r.uvHandleRef = 1
  /\ r.onClose = "uvref" => r.uvHandleRef = 1 /\ r.free = "finally"
  /\ r.onClose = "delete" => r.free = "done"
  /\ r.bound => r.handshakeOK

\* The writes, the binding and n holders.
RefsCounted(r, n) == r.ref = r.wWork + r.wChild + (IF r.bound THEN 1 ELSE 0) + n
Held(c) == IF hold # Nobody /\ hold.c = c THEN 1 ELSE 0

HoldOK == hold # Nobody =>
  /\ hold.kind \in {"attach", "fetch"} /\ hold.c \in Channels /\ ch[hold.c].st # "none"
  /\ hold.early => ch[hold.c].st = "mapped" /\ ch[hold.c].free \in {"no", "operate"}

ChannelInv ==
  /\ ChanTypeOK /\ HoldOK
  /\ ctrl \in Seq({"attach", "detach"} \X Channels)
  /\ \A c \in Channels : FreeStages(ch[c]) /\ RefsCounted(ch[c], Held(c))
-----------------------------------------------------------------------------
(* The inductive invariant of FreedChannelReleased: where a channel is      *)
(* on its way into the worker and out of it, while the session lives.       *)

InCtrl(op, c) == \E i \in 1 .. Len(ctrl) : ctrl[i] = <<op, c>>
AttachHeld(c) == hold.kind = "attach" /\ hold.c = c
Attaching(c) == c \in bindNext \/ InCtrl("attach", c) \/ AttachHeld(c)

\* No request is sent twice, and an attach is in one place.
OneRequest ==
  /\ \A i, j \in 1 .. Len(ctrl) : ctrl[i] = ctrl[j] => i = j
  /\ \A c \in Channels : /\ c \in bindNext => ~InCtrl("attach", c)
                         /\ AttachHeld(c) => c \notin bindNext /\ ~InCtrl("attach", c)

PeersShaped == /\ DOMAIN peer = Channels /\ DOMAIN asked = Channels
               /\ \A c \in Channels : DOMAIN peer[c] = {"on", "sent", "q", "recv"}

\* A channel whose handshake is not read yet is not dead.
UnreadAlive(c) ==
  /\ ch[c].st = "none" => ~peer[c].on /\ peer[c].sent = 0
  /\ peer[c].q # <<>> => peer[c].sent # 0
  /\ (peer[c].on /\ peer[c].sent = 0) \/ (peer[c].q # <<>> /\ Head(peer[c].q) = "hs key") =>
       (ch[c].work = "open" /\ ~ch[c].handshakeOK => ~ch[c].isDead)

\* A channel on its way to the worker: nobody can free it.
AttachingAlive(c) ==
  /\ Attaching(c) => /\ ch[c].st = "mapped" /\ ~ch[c].isDead /\ ch[c].child = "null" /\ ch[c].handshakeOK
                     /\ ch[c].work \in {"closing", "closed"} /\ ~ch[c].connecting
                     /\ ch[c].work = "closing" => ch[c].bound
  /\ InCtrl("attach", c) \/ AttachHeld(c) => ch[c].work = "closed"

\* A channel the worker has never had.
OnMainOnly(c) ==
  /\ ch[c].st = "none" => ch[c].child = "null"
  /\ ~ch[c].handshakeOK => ~ch[c].connecting /\ ch[c].child = "null" /\ ~ch[c].bound
  /\ ch[c].child = "null" =>
       /\ c \notin task /\ c \notin permit /\ c \notin forward /\ c \notin clearNext /\ c \notin asyncQ
       /\ asked[c] = "none" /\ ch[c].wChild = 0 /\ ~InCtrl("detach", c)
       /\ ch[c].onClose # "cleared" /\ ~ch[c].childCleared /\ ch[c].free # "wait"

\* A channel the worker has, or has had.
OnWorker(c) ==
  ch[c].child # "null" =>
    /\ ch[c].work = "closed"
    /\ ch[c].child = "closed" => ch[c].wChild = 0
    /\ ch[c].free \in {"finally", "done"} => ch[c].childCleared
    /\ ch[c].childCleared => /\ ch[c].child = "closed" /\ c \notin task /\ c \notin clearNext
                             /\ ~InCtrl("detach", c) /\ ch[c].free \in {"wait", "finally", "done"}

\* A detach is asked for once, and the child is cleared once.
DetachedOnce(c) ==
  /\ InCtrl("detach", c) => ch[c].free = "wait" /\ c \notin clearNext /\ ch[c].onClose # "cleared"
  /\ c \in clearNext => /\ ch[c].free = "wait" /\ ch[c].child \in {"closing", "closed"} /\ c \notin task
                        /\ ch[c].onClose # "cleared"
  /\ ch[c].onClose = "cleared" => ch[c].free = "wait" /\ ch[c].child = "closing" /\ c \notin task

\* What has left the map has been through all of it.
FreedLast(c) ==
  /\ ch[c].st \in {"removed", "deleted"} => ch[c].free = "done"
  /\ ch[c].work = "closed" => ~ch[c].bound /\ ch[c].wWork = 0
  /\ ch[c].free \in {"finally", "done"} => ch[c].work # "open" /\ ch[c].wWork = 0
  /\ c \in permit => ch[c].st = "mapped"

ChannelLife ==
  sess = "up" =>
    /\ OneRequest /\ PeersShaped
    /\ hold.kind = "fetch" => asked[hold.c] # "none"
    /\ \A c \in Channels : /\ UnreadAlive(c) /\ AttachingAlive(c) /\ OnMainOnly(c)
                           /\ OnWorker(c) /\ DetachedOnce(c) /\ FreedLast(c)
=============================================================================
