--------------------------- MODULE MCHdcChannels ---------------------------
(***************************************************************************)
(* What serves one command between the user and the daemon's program: the  *)
(* one server that clients pull up, the client, its channel in the server, *)
(* the command on the daemon, and the key files the server's workers share.*)
(* The parts share no state; a behaviour moves one of them, chosen at the  *)
(* start, and leaves the others where they begin.                          *)
(***************************************************************************)
EXTENDS HdcChannel, HdcClient, HdcCommands, HdcInstance, HdcKeys

CONSTANT c1
VARIABLE active

MCChannels == {c1}
MCKeyWorkers == {"w1", "w2"}

Uds == [ip |-> "uds", port |-> 0]
Local == [ip |-> "local", port |-> 1]
MCEndpoints == {Uds, Local}
Scenario(first, second, running) ==
  [cmds |-> <<first, second>>, eps |-> <<Uds, Local>>, running |-> running, ep |-> Local]
MCScenarios == {Scenario("run", "run", FALSE), Scenario("run", "start -r", TRUE),
                Scenario("start", "kill -r", FALSE), Scenario("kill", "run", TRUE)}

MCInit ==
  /\ active \in {"channel", "client", "command", "instance", "keys"}
  /\ ChanInit /\ (active # "channel" => sess = "up")
  /\ ClientInit /\ (active # "client" => cli.cmd = CHOOSE k \in ClientCommands : TRUE)
  /\ CommandInit /\ (active # "command" => ckind = "shell")
  /\ IF active = "instance" THEN InstanceInit ELSE InstanceStart(Scenario("run", "run", FALSE))
  /\ KeyInit /\ (active # "keys" => ~kcfg.encrypt /\ kfile.priv.is = "none")

MCNext ==
  /\ UNCHANGED active
  /\ \/ active = "channel" /\ ChanNext /\ UNCHANGED <<clientVars, cmdVars, instanceVars, keyVars>>
     \/ active = "client" /\ ClientNext /\ UNCHANGED <<chanVars, cmdVars, instanceVars, keyVars>>
     \/ active = "command" /\ CommandNext /\ UNCHANGED <<chanVars, clientVars, instanceVars, keyVars>>
     \/ active = "instance" /\ InstanceNext /\ UNCHANGED <<chanVars, clientVars, cmdVars, keyVars>>
     \/ active = "keys" /\ KeyNext /\ UNCHANGED <<chanVars, clientVars, cmdVars, instanceVars>>

\* The part that moves.
On(part) == active = part

\* Both loops keep turning: a callback that is due is run.  Nothing is assumed
\* of the client, the daemon and the timer of a connection attempt.
ChanFair ==
  /\ \A c \in Channels :
       /\ WF_chanVars(On("channel") /\ WorkClosed(c))
       /\ WF_chanVars(On("channel") /\ BindNextLoop(c))
       /\ WF_chanVars(On("channel") /\ AsyncMainLoopTask(c))
       /\ WF_chanVars(On("channel") /\ CheckFreeChannelContinue(c))
       /\ WF_chanVars(On("channel") /\ FreeChannelFinally(c))
       /\ WF_chanVars(On("channel") /\ FreeChannelOpeate(c))
       /\ WF_chanVars(On("channel") /\ ReadStreamFails(c))
       /\ \A thread \in {"main", "worker"} :
            WF_chanVars(On("channel") /\ \E ok \in BOOLEAN : WriteCallback(c, thread, ok))
       /\ WF_chanVars(On("channel") /\ ChildClosed(c))
       /\ WF_chanVars(On("channel") /\ ClearNextLoop(c))
  /\ WF_chanVars(On("channel") /\ ReadCtrlFromMain)
  /\ WF_chanVars(On("channel") /\ AttachChannel)
  /\ WF_chanVars(On("channel") /\ DispatchChannelCommand)

\* The loop of the client turns: its timers fire and its callbacks run.
ClientFair ==
  /\ WF_clientVars(On("client") /\ ExecuteCommand)
  /\ WF_clientVars(On("client") /\ CommandWorker)
  /\ WF_clientVars(On("client") /\ ClientWriteDone)
  /\ WF_clientVars(On("client") /\ ClientFreeContinue)
  /\ WF_clientVars(On("client") /\ ClientFreeFinally)
  /\ \A h \in Handles : WF_clientVars(On("client") /\ HandleClosed(h))

\* The threads run; a write ends once the command has gone; the worker tries
\* to release a stopped task again and again.  The command need not end.
CommandFair ==
  /\ WF_cmdVars(On("command") /\ ReadData) /\ WF_cmdVars(On("command") /\ Run)
  /\ WF_cmdVars(On("command") /\ FinishShellProc)
  /\ WF_cmdVars(On("command") /\ ShellProcDone)
  /\ WF_cmdVars(On("command") /\ IOWriteThread)
  /\ WF_cmdVars(On("command") /\ cmd.child # "runs" /\ CtxFileIOWrite)
  /\ WF_cmdVars(On("command") /\ ReleaseCommand)
  /\ WF_cmdVars(On("command") /\ OnFileIO) /\ WF_cmdVars(On("command") /\ OnFileClose)
  /\ WF_cmdVars(On("command") /\ ReleaseHost)

\* A process is scheduled.
InstanceFair == \A p \in ProcIds : WF_instanceVars(On("instance") /\ InstanceStep(p))

MCSpec ==
  /\ MCInit /\ [][MCNext]_<<active, chanVars, clientVars, cmdVars, instanceVars, keyVars>>
  /\ ChanFair /\ ClientFair /\ CommandFair /\ InstanceFair

\* A client never hangs: without a server it gives up, whether the connection
\* is refused, is lost or never answers, and a channel marked dead ends it.
ClientEnds == []<>(On("client") => ClientGoesOn)
=============================================================================
