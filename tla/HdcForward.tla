----------------------------- MODULE HdcForward -----------------------------
(***************************************************************************)
(* Port forwarding: the task of the master end listens, the task of the    *)
(* slave end connects to the target, one context per connection at each    *)
(* end.  Context 0 is the listener of the master and the trial connection  *)
(* of the slave.  The ends exchange messages over the session, in order.   *)
(***************************************************************************)
EXTENDS Naturals, Sequences, FiniteSets

CONSTANTS MaxConns,  \* connections that are accepted
          MaxReads   \* blocks each end of a connection reads

ASSUME ForwardBounds == MaxConns \in Nat /\ MaxReads \in Nat

VARIABLES fkind,  \* type of the target: FORWARD_TCP, FORWARD_ABSTRACT ...
          fwd     \* the two tasks, their contexts and the messages

fwdVars == <<fkind, fwd>>

FwdEnds == {"master", "slave"}
OtherSide(e) == IF e = "master" THEN "slave" ELSE "master"
ForwardTypes == {"tcp", "abstract", "jdwp", "ark", "dev"}  \* tcp: the reserved and file sockets too
Conns == 0 .. MaxConns

NoContext == [st |-> "none", finish |-> FALSE, ready |-> FALSE, checkPoint |-> FALSE, connected |-> FALSE,
              idle |-> FALSE, io |-> "none", reads |-> 0, writes |-> 0]

ForwardInit ==
  /\ fkind \in ForwardTypes
  /\ fwd = [ctx |-> [e \in FwdEnds |-> [i \in Conns |-> NoContext]],
            mapCtxPoint |-> [e \in FwdEnds |-> {}], refCount |-> [e \in FwdEnds |-> 0],
            task |-> [e \in FwdEnds |-> "none"], net |-> [e \in FwdEnds |-> <<>>],
            arkFd |-> FALSE, listed |-> FALSE]
-----------------------------------------------------------------------------
(* Contexts                                                                *)

SendToTask(x, e, cmd, i) ==
  [x EXCEPT !.net[OtherSide(e)] = Append(@, [cmd |-> cmd, id |-> i])]

FinishForward(x, e) == SendToTask(x, e, "CHANNEL_CLOSE 1", 0)

\* AdminContext(OP_ADD) with the id of the master (OP_UPDATE at the slave).
MallocContext(x, e, i, check) ==
  [x EXCEPT !.ctx[e][i] = [NoContext EXCEPT !.st = "live", !.checkPoint = check],
            !.mapCtxPoint[e] = @ \cup {i}, !.refCount[e] = @ + 1]

QueryContext(x, e, i) == i \in x.mapCtxPoint[e]

\* FreeContext: once per context; the handle is closed.
FreeContext(x, e, i, bNotifyRemote) ==
  IF x.ctx[e][i].finish THEN x
  ELSE LET y == IF bNotifyRemote THEN SendToTask(x, e, "FREE_CONTEXT", i) ELSE x
       IN  [y EXCEPT !.ctx[e][i].finish = TRUE, !.ctx[e][i].st = "closing"]

\* The close callback, with what was queued for the stream cancelled.  FreeJDWP
\* waits for the I/O thread of a device, but for 100 ticks of an idle only: then
\* the descriptor is deleted under the thread, which may wait for 5 seconds.
HandleClose(e, i) ==
  /\ fwd.ctx[e][i].st = "closing"
  /\ fwd' = [fwd EXCEPT !.ctx[e][i].st = "closed", !.ctx[e][i].writes = 0,
                        !.ctx[e][i].io = IF @ = "run" THEN "abandoned" ELSE @]
  /\ UNCHANGED fkind

\* FreeContextCallBack, in the next turn of the loop.
StillMapped(x, e, i) == x.mapCtxPoint[e]
RemoveContext(x, e, i) == x.mapCtxPoint[e] \ {i}
FreeContextCallBack(e, i) ==
  /\ fwd.ctx[e][i].st = "closed"
  /\ fwd' = [fwd EXCEPT !.ctx[e][i].st = "deleted",
                        !.mapCtxPoint[e] = RemoveContext(fwd, e, i),
                        !.refCount[e] = IF @ > 0 THEN @ - 1 ELSE @]
  /\ UNCHANGED fkind

\* TaskCommandDispatch finishes a task whose CommandDispatch fails.
FailedDispatch(x, e) == FinishForward(x, e)
-----------------------------------------------------------------------------
(* Setting up                                                              *)

\* CMD_FORWARD_INIT, BeginForward: the listener, then the slave is asked.  A
\* context whose point cannot be set up stays until the task is stopped.
BeginForward ==
  /\ fwd.task["master"] = "none"
  /\ LET x == MallocContext([fwd EXCEPT !.task = [e \in FwdEnds |-> "run"]], "master", 0, FALSE)
     IN  \/ fwd' = SendToTask(x, "master", "FORWARD_CHECK", 0)
         \/ fwd' = FailedDispatch(x, "master")
  /\ UNCHANGED fkind

\* DoForwardBegin: an ark point has one socket only, a device gets its I/O thread.
DoForwardBegin(x, e, i) ==
  IF fkind = "ark" /\ e = "slave" /\ ~x.arkFd THEN x
  ELSE [x EXCEPT !.ctx[e][i].ready = TRUE, !.arkFd = IF e = "slave" THEN FALSE ELSE @,
                 !.ctx[e][i].io = IF fkind = "dev" /\ e = "slave" THEN "run" ELSE @]

\* SetupPointContinue of the slave: the answer to a trial, or the connection.
SetupPointContinue(x, i, status) ==
  IF x.ctx["slave"][i].checkPoint
  THEN FreeContext(SendToTask(x, "slave", "FORWARD_CHECK_RESULT", i), "slave", i, FALSE)
  ELSE IF status = "failed" THEN FreeContext(x, "slave", i, TRUE)
  ELSE DoForwardBegin(SendToTask([x EXCEPT !.ctx["slave"][i].connected = status = "ok"],
                                 "slave", "ACTIVE_MASTER", i), "slave", i)

IdlePoint(x, i) == [x EXCEPT !.ctx["slave"][i].idle = TRUE, !.refCount["slave"] = @ + 1]
GivenUp(x, i) == FailedDispatch(FreeContext(x, "slave", i, TRUE), "slave")

\* SetupArkPoint: for the trial only; a process that is not there answers the
\* trial and ends the forward.
SetupArkPoint(x, i) ==
  {IdlePoint([x EXCEPT !.arkFd = TRUE], i), FailedDispatch(SetupPointContinue(x, i, "failed"), "slave"),
   GivenUp(x, i)}
SetupJdwpPoint(x, i) == {IdlePoint(x, i), GivenUp(x, i)}
\* SetupDevicePoint: a device that does not open has status 255, no failure.
SetupDevicePoint(x, i) ==
  {SetupPointContinue(x, i, "ok"), SetupPointContinue(x, i, "255"), GivenUp(x, i)}
\* SetupFilePoint: the abstract socket is connected at once.
SetupFilePoint(x, i) ==
  {SetupPointContinue(x, i, "ok"), FailedDispatch(SetupPointContinue(x, i, "failed"), "slave")}
\* SetupTCPPoint: ConnectTarget comes later.
SetupTCPPoint(x, i) == {[x EXCEPT !.ctx["slave"][i].st = "connecting"], GivenUp(x, i)}

SetupPoint(x, i) ==
  CASE fkind = "tcp"      -> SetupTCPPoint(x, i)
    [] fkind = "abstract" -> SetupFilePoint(x, i)
    [] fkind = "jdwp"     -> SetupJdwpPoint(x, i)
    [] fkind = "dev"      -> SetupDevicePoint(x, i)
    [] OTHER              -> {SetupPointContinue(x, i, "ok")}

\* SlaveConnect: a trial does not connect, except to an ark runtime.
SlaveConnect(x, i, bCheckPoint) ==
  LET y == MallocContext(x, "slave", i, bCheckPoint)
  IN  {GivenUp(y, i)} \cup
      CASE bCheckPoint /\ fkind = "ark" -> SetupArkPoint(y, i)
        [] bCheckPoint /\ fkind # "ark" -> {SetupPointContinue(y, i, "ok")}
        [] OTHER                        -> SetupPoint(y, i)

ConnectTarget(i) ==
  /\ fwd.ctx["slave"][i].st = "connecting"
  /\ \E status \in {"ok", "failed"} :
       fwd' = SetupPointContinue([fwd EXCEPT !.ctx["slave"][i].st = "live"], i, status)
  /\ UNCHANGED fkind

\* SetupJdwpPointCallBack, from the idle of the loop, also for a context that was
\* freed in between.  A deleted one is used after its end: what was in its memory
\* may still be there, or not.
SetupJdwpPointCallBack(i) ==
  /\ fwd.ctx["slave"][i].idle
  /\ LET x == [fwd EXCEPT !.ctx["slave"][i].idle = FALSE, !.refCount["slave"] = @ - 1]
     IN  \/ fwd' = SetupPointContinue(x, i, "ok")
         \/ fwd.ctx["slave"][i].st = "deleted" /\ fwd' = x
  /\ UNCHANGED fkind

\* ListenCallback and OnAccept; a connection before the answer to the trial
\* ends the forward.
ListenCallback(i) ==
  /\ fwd.ctx["master"][0].st = "live" /\ ~fwd.ctx["master"][0].finish
  /\ fwd.ctx["master"][i].st = "none" /\ i > 0
  /\ IF ~fwd.ctx["master"][0].ready
     THEN fwd' = FinishForward(FreeContext(fwd, "master", 0, FALSE), "master")
     ELSE LET x == MallocContext(fwd, "master", i, FALSE)
          IN  \/ fwd' = SendToTask(x, "master", "ACTIVE_SLAVE", i)
              \/ fwd' = FreeContext(x, "master", i, FALSE)
  /\ UNCHANGED fkind
-----------------------------------------------------------------------------
(* Data and commands                                                       *)

\* ReadForwardBuf: data, or the end.
NoNotify == FALSE
RemoteNotified == TRUE
ReadForwardBuf(e, i) ==
  /\ fwd.ctx[e][i].ready /\ ~fwd.ctx[e][i].finish /\ i > 0 /\ ~(fkind = "dev" /\ e = "slave")
  /\ \/ fwd.ctx[e][i].reads < MaxReads
        /\ fwd' = SendToTask([fwd EXCEPT !.ctx[e][i].reads = @ + 1], e, "FORWARD_DATA", i)
     \/ fwd' = FreeContext(fwd, e, i, RemoteNotified)
  /\ UNCHANGED fkind

\* The I/O thread of a device (FileIoThread::Run): data, then refIO is given back
\* and funcFinish called, in two steps.  It knows of FreeContext only by
\* workContinue, at its next read; an abandoned one works on what is deleted.
DeviceIo(i) ==
  LET c == fwd.ctx["slave"][i]
  IN  /\ \/ /\ c.io \in {"run", "abandoned"} /\ c.reads < MaxReads
            /\ fwd' = SendToTask([fwd EXCEPT !.ctx["slave"][i].reads = @ + 1], "slave", "FORWARD_DATA", i)
         \/ c.io = "run" /\ fwd' = [fwd EXCEPT !.ctx["slave"][i].io = "over"]
         \/ c.io = "abandoned" /\ fwd' = [fwd EXCEPT !.ctx["slave"][i].io = "none"]
         \/ c.io = "over" /\ fwd' = FreeContext([fwd EXCEPT !.ctx["slave"][i].io = "none"], "slave", i, RemoteNotified)
      /\ UNCHANGED fkind

\* SendForwardBuf: queued for the stream, or the context is given up.
SendForwardBuf(x, e, i) ==
  {[x EXCEPT !.ctx[e][i].writes = @ + 1], FreeContext(x, e, i, TRUE)}

SendCallbackForwardBuf(e, i) ==
  /\ fwd.ctx[e][i].writes > 0 /\ fwd.ctx[e][i].st = "live"
  /\ LET x == [fwd EXCEPT !.ctx[e][i].writes = @ - 1]
     IN  fwd' \in {x, FreeContext(x, e, i, TRUE)}
  /\ UNCHANGED fkind

\* StopTask: every context of the map, without a word to the other end.
StopTask(x, e) ==
  [x EXCEPT !.task[e] = "stopped", !.mapCtxPoint[e] = {},
            !.ctx[e] = [i \in Conns |->
                          IF i \in x.mapCtxPoint[e] /\ ~x.ctx[e][i].finish
                          THEN [x.ctx[e][i] EXCEPT !.finish = TRUE, !.st = "closing"]
                          ELSE x.ctx[e][i]]]

\* CommandForwardCheckResult: the flag of the slave is not looked at.  The server
\* puts the forward into its list (CMD_FORWARD_SUCCESS).
CommandForwardCheckResult(x, i) == [x EXCEPT !.ctx["master"][i].ready = TRUE, !.listed = TRUE]

\* ForwardCommandDispatch: a context that is gone ignores the command.
ForwardCommandDispatch(x, e, c) ==
  IF ~QueryContext(x, e, c.id) THEN {x}
  ELSE CASE c.cmd = "FORWARD_CHECK_RESULT" -> {CommandForwardCheckResult(x, c.id)}
         [] c.cmd = "ACTIVE_MASTER" -> {DoForwardBegin(x, e, c.id),
                                        FailedDispatch(FreeContext(x, e, c.id, TRUE), e)}
         [] c.cmd = "FORWARD_DATA"  -> IF x.ctx[e][c.id].finish THEN {x} ELSE SendForwardBuf(x, e, c.id)
         [] c.cmd = "FREE_CONTEXT"  -> {FreeContext(x, e, c.id, FALSE)}

ForwardDispatch(e) ==
  /\ fwd.net[e] # <<>>
  /\ LET c == Head(fwd.net[e])
         x == [fwd EXCEPT !.net[e] = Tail(@)]
         stopped == IF x.task[e] = "run" THEN StopTask(x, e) ELSE x
     IN  CASE c.cmd = "CHANNEL_CLOSE 1" -> fwd' = SendToTask(stopped, e, "CHANNEL_CLOSE 0", 0)
           [] c.cmd = "CHANNEL_CLOSE 0" -> fwd' = stopped
           [] c.cmd \notin {"CHANNEL_CLOSE 0", "CHANNEL_CLOSE 1"} /\ x.task[e] # "run" -> fwd' = x
           [] OTHER -> CASE c.cmd = "FORWARD_CHECK" -> fwd' \in SlaveConnect(x, c.id, TRUE)
                         [] c.cmd = "ACTIVE_SLAVE"  -> fwd' \in SlaveConnect(x, c.id, FALSE)
                         [] OTHER                   -> fwd' \in ForwardCommandDispatch(x, e, c)
  /\ UNCHANGED fkind

\* RemoveForward, RemoveFportkey: a forward of the list is taken off it, the task
\* of the server's end (either end) stopped and the channel closed.
RemoveForward ==
  /\ fwd.listed
  /\ \E e \in FwdEnds :
       LET x == IF fwd.task[e] = "run" THEN StopTask(fwd, e) ELSE fwd
       IN  fwd' = [FinishForward(x, e) EXCEPT !.listed = FALSE]
  /\ UNCHANGED fkind

\* ReadyForRelease: the task is deleted once it has no context left.
ReleaseForward(e) ==
  /\ fwd.task[e] = "stopped" /\ fwd.refCount[e] = 0
  /\ fwd' = [fwd EXCEPT !.task[e] = "deleted"]
  /\ UNCHANGED fkind

ForwardNext ==
  \/ BeginForward \/ RemoveForward
  \/ \E e \in FwdEnds : ForwardDispatch(e) \/ ReleaseForward(e)
  \/ \E i \in Conns : ListenCallback(i) \/ ConnectTarget(i) \/ SetupJdwpPointCallBack(i)
  \/ \E e \in FwdEnds, i \in Conns :
       \/ HandleClose(e, i) \/ FreeContextCallBack(e, i)
       \/ ReadForwardBuf(e, i) \/ SendCallbackForwardBuf(e, i)
  \/ \E i \in Conns : DeviceIo(i)

ForwardSpec == ForwardInit /\ [][ForwardNext]_fwdVars
-----------------------------------------------------------------------------
(* Properties                                                              *)

Undeleted(x, e) == {i \in Conns : x.ctx[e][i].st \notin {"none", "deleted"}}
Idles(x, e) == {i \in Conns : x.ctx[e][i].idle}

\* refCount keeps the task until its last context and its last idle are gone: it
\* counts both; the map never leads to a deleted context, and the descriptor of a
\* device is not closed with a thread that nobody has given up (MallocContext,
\* FreeContextCallBack, FreeJDWP, SetupJdwpPointCallBack).  An idle keeps the task
\* only: the context it will use may be deleted before it runs, and the I/O thread
\* that was given up after 100 ticks outlives its descriptor; neither is excluded.
ForwardRefs ==
  \A e \in FwdEnds :
    /\ fwd.refCount[e] = Cardinality(Undeleted(fwd, e)) + Cardinality(Idles(fwd, e))
    /\ fwd.mapCtxPoint[e] \subseteq Undeleted(fwd, e)
    /\ fwd.task[e] = "deleted" => Undeleted(fwd, e) = {} /\ Idles(fwd, e) = {}
    /\ \A i \in Conns : fwd.ctx[e][i].io = "run" => fwd.ctx[e][i].st \in {"live", "closing"}

\* The master forwards only on connections whose slave end has reached its
\* target (SetupPointContinue before ACTIVE_MASTER).  A device that did not
\* open passes as connected, and so does the second use of an ark socket.
ActiveMeansConnected ==
  fkind # "dev" => \A i \in Conns \ {0} : fwd.ctx["master"][i].ready => fwd.ctx["slave"][i].connected

\* A connection that is over at one end does not stay open at the other, and
\* a forward that is stopped is deleted (FREE_CONTEXT, CHANNEL_CLOSE).
BothEndsClose ==
  \A i \in Conns \ {0}, e \in FwdEnds :
    /\ []<>(fwd.ctx[e][i].finish => fwd.ctx[OtherSide(e)][i].st \in {"none", "deleted"})
    /\ []<>(fwd.task[e] # "stopped")

\* A forward's tasks live as long as something counts on them, its map and its
\* descriptors fit its contexts, and data moves only between ends that are connected.
ForwardSafe == ForwardRefs /\ ActiveMeansConnected
-----------------------------------------------------------------------------
(* The inductive invariant: what the contexts and the messages under way    *)
(* of a state x of the two tasks have to do with each other.                *)

ForwardCommands == {"FORWARD_CHECK", "FORWARD_CHECK_RESULT", "ACTIVE_SLAVE", "ACTIVE_MASTER", "FORWARD_DATA",
                    "FREE_CONTEXT", "CHANNEL_CLOSE 0", "CHANNEL_CLOSE 1"}
ForwardMessages == [cmd : ForwardCommands, id : Conns]
ForwardShape(x) ==
  /\ DOMAIN x = {"ctx", "mapCtxPoint", "refCount", "task", "net", "arkFd", "listed"}
  /\ DOMAIN x.ctx = FwdEnds /\ DOMAIN x.mapCtxPoint = FwdEnds /\ DOMAIN x.refCount = FwdEnds
  /\ DOMAIN x.task = FwdEnds /\ DOMAIN x.net = FwdEnds
  /\ \A e \in FwdEnds :
       /\ DOMAIN x.ctx[e] = Conns /\ x.mapCtxPoint[e] \subseteq Conns /\ x.refCount[e] \in Nat
       /\ x.task[e] \in {"none", "run", "stopped", "deleted"}
       /\ \A i \in Conns : DOMAIN x.ctx[e][i] = DOMAIN NoContext
       /\ x.net[e] \in Seq(ForwardMessages)

\* A context is reset until it is made and marked from the moment it is closed;
\* idles and trials are the slave's, and only context 0 is a trial; a device has
\* its thread until it is closed.
ContextStages(x) ==
  \A e \in FwdEnds, i \in Conns :
    LET c == x.ctx[e][i]
    IN  /\ c.st \in {"none", "live", "connecting", "closing", "closed", "deleted"}
        /\ c.st = "none" => ~c.idle /\ ~c.ready /\ ~c.connected /\ ~c.finish /\ c.io = "none"
        /\ c.st \in {"closing", "closed", "deleted"} => c.finish
        /\ c.idle => e = "slave" /\ fkind # "dev"
        /\ c.io = "run" => c.st \in {"live", "closing"}
        /\ c.checkPoint => i = 0

\* Who sends what; ids are asked for once, before the slave has the context.
Opening == {"FORWARD_CHECK", "ACTIVE_SLAVE"}
ToSlave(x, m) ==
  /\ m.cmd \in Opening \cup {"FORWARD_DATA", "FREE_CONTEXT", "CHANNEL_CLOSE 0", "CHANNEL_CLOSE 1"}
  /\ m.cmd = "FORWARD_CHECK" => m.id = 0
  /\ m.cmd \in Opening => x.ctx["slave"][m.id].st = "none" /\ x.ctx["master"][m.id].st # "none"
ToMaster(x, m) ==
  /\ m.cmd \in {"FORWARD_CHECK_RESULT", "ACTIVE_MASTER", "FORWARD_DATA", "FREE_CONTEXT",
                "CHANNEL_CLOSE 0", "CHANNEL_CLOSE 1"}
  /\ m.cmd = "FORWARD_CHECK_RESULT" => m.id = 0
  /\ m.cmd = "ACTIVE_MASTER" /\ fkind # "dev" => x.ctx["slave"][m.id].connected
OpensOnce(q) ==
  \A k, n \in 1 .. Len(q) : q[k].cmd \in Opening /\ q[n].cmd \in Opening /\ q[k].id = q[n].id => k = n
MessagesFit(x) ==
  /\ \A k \in 1 .. Len(x.net["slave"]) : ToSlave(x, x.net["slave"][k])
  /\ OpensOnce(x.net["slave"])
  /\ \A k \in 1 .. Len(x.net["master"]) : ToMaster(x, x.net["master"][k])
MasterFirst(x) ==
  /\ \A i \in Conns : x.ctx["master"][i].st = "none" => x.ctx["slave"][i].st = "none"
  /\ x.task["master"] = "none" => \A i \in Conns : x.ctx["master"][i].st = "none"

RefsFit(x) ==
  \A e \in FwdEnds :
    /\ x.refCount[e] = Cardinality(Undeleted(x, e)) + Cardinality(Idles(x, e))
    /\ x.mapCtxPoint[e] \subseteq Undeleted(x, e)
    /\ x.task[e] = "deleted" => Undeleted(x, e) = {} /\ Idles(x, e) = {}

ReadyFit(x) ==
  fkind # "dev" => \A i \in Conns \ {0} : x.ctx["master"][i].ready => x.ctx["slave"][i].connected

ForwardFits(x) == ForwardShape(x) /\ ContextStages(x) /\ MessagesFit(x) /\ MasterFirst(x) /\ RefsFit(x)
                  /\ ReadyFit(x)
ForwardInv == fkind \in ForwardTypes /\ ForwardFits(fwd)
=============================================================================
