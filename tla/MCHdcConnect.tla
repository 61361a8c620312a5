---------------------------- MODULE MCHdcConnect ----------------------------
(***************************************************************************)
(* How a device comes to be a connected target: the subservers a device is *)
(* handed over to, the server's list of targets and the handshake of one   *)
(* session.  The parts share no state; a behaviour moves one of them,      *)
(* chosen at the start, and leaves the others where they begin.            *)
(***************************************************************************)
EXTENDS HdcSubserver, HdcTargets, HdcHandshake

VARIABLE active

MCInit ==
  /\ active \in {"handshake", "targets", "subserver"}
  /\ HandshakeInit /\ hcfg.pub = (CHOOSE k \in Keys : TRUE)  \* which key it is does not matter
  /\ active # "handshake" => hcfg = (CHOOSE p \in Configs : RealConfig(p)) /\ hknown = {}
  /\ TargetsInit /\ (active # "targets" => tkind = "tcp")
  /\ SubserverInit /\ (active # "subserver" => smain.plat = "linux")

MCNext ==
  /\ UNCHANGED active
  /\ \/ active = "handshake" /\ HandshakeNext /\ UNCHANGED <<targetVars, subVars>>
     \/ active = "targets" /\ TargetsNext /\ UNCHANGED <<hsVars, subVars>>
     \/ active = "subserver" /\ SubserverNext /\ UNCHANGED <<hsVars, targetVars>>

\* The part that moves.
On(part) == active = part

\* Both ends handle what has arrived, and a closed connection is noticed.
HandshakeFair ==
  /\ WF_hsVars(On("handshake") /\ ServerSteps)
  /\ WF_hsVars(On("handshake") /\ DaemonSteps)
  /\ WF_hsVars(On("handshake") /\ PeerClosed)

\* The timers fire, the main loop takes its messages, a worker goes on and a
\* connection attempt ends; a handshake need not.
TargetsFair ==
    /\ \A c \in TargetChannels : WF_targetVars(On("targets") /\ OrderConnecTargetResult(c))
    /\ \A s \in TargetSessions :
         /\ WF_targetVars(On("targets") /\ PreConnect(s))
         /\ WF_targetVars(On("targets") /\ tsess[s].pend /\ FreeTarget(s))
         /\ WF_targetVars(On("targets") /\ UpdateHdiInfoWrite(s))

\* The main loops run their timers, the processes go on and the lock is
\* handed out fairly.
SubserverFair ==
    /\ WF_subVars(On("subserver") /\ DelayDo)
    /\ WF_subVars(On("subserver") /\ MainScans)
    /\ WF_subVars(On("subserver") /\ MainFreed)
    /\ WF_subVars(On("subserver") /\ smain.own # "open" /\ MainReaderEnds)
    /\ WF_subVars(On("subserver") /\ smain.readers = 0 /\ MainLosesDevice)
    /\ WF_subVars(On("subserver") /\ KillDone)
    /\ \A p \in Subs :
         /\ WF_subVars(On("subserver") /\ RegisterPid(p))
         /\ WF_subVars(On("subserver") /\ SubListens(p))
         /\ WF_subVars(On("subserver") /\ SubConnects(p))
         /\ WF_subVars(On("subserver") /\ ConnectTimer(p))
         /\ WF_subVars(On("subserver") /\ UnregisterReads(p))
         /\ WF_subVars(On("subserver") /\ UnregisterWrites(p))
         /\ WF_subVars(On("subserver") /\ KillOne(p))

MCSpec ==
  /\ MCInit /\ [][MCNext]_<<active, hsVars, targetVars, subVars>>
  /\ HandshakeFair /\ TargetsFair /\ SubserverFair

\* A handover ends: every subserver gets the device or exits, and a device that
\* no subserver runs for comes back to the main server (RemoveIgnoreDevice, the
\* timers of the suspension).
DeviceComesBack ==
  /\ \A p \in Subs : []<>(On("subserver") => HandoverDone(p))
  /\ []<>(On("subserver") => DeviceServed)
=============================================================================
