--------------------------- MODULE MCHdcServices ---------------------------
(***************************************************************************)
(* The services on top of a session: file transfer, port forwarding and    *)
(* the list of debuggable processes. The parts share no state; a behaviour *)
(* moves one of them and leaves the others where they begin.               *)
(***************************************************************************)
EXTENDS HdcTransfer, HdcForward, HdcJdwp

VARIABLE active

Two(x, y) == [p \in Pids |-> IF p = "a" THEN x ELSE y]
MCScenarios == {
  [pkg |-> Two("debug", "release"), daemon |-> 1, app |-> Two(1, 1), maxMapSize |-> 2, tracks |-> {"t"}],
  [pkg |-> Two("debug", "release"), daemon |-> 1, app |-> Two(1, 1), maxMapSize |-> 1, tracks |-> {}],
  [pkg |-> Two("debug", "release"), daemon |-> 1, app |-> Two(1, 0), maxMapSize |-> 2, tracks |-> {"t", "u"}],
  [pkg |-> Two("debug", "release"), daemon |-> 2, app |-> Two(2, 0), maxMapSize |-> 2, tracks |-> {}],
  [pkg |-> Two("invalid", "release"), daemon |-> 2, app |-> Two(1, 0), maxMapSize |-> 2, tracks |-> {}]}

MCInit ==
  /\ active \in {"transfer", "forward", "jdwp"}
  /\ TransferInit /\ (active # "transfer" => xcfg = CHOOSE p \in Plans : TRUE)
  /\ ForwardInit /\ (active # "forward" => fkind = CHOOSE k \in ForwardTypes : TRUE)
  /\ IF active = "jdwp" THEN JdwpInit ELSE JdwpStart(CHOOSE s \in Scenarios : TRUE)

MCNext ==
  /\ UNCHANGED active
  /\ \/ active = "transfer" /\ TransferNextState /\ UNCHANGED <<fwdVars, jdwpVars>>
     \/ active = "forward" /\ ForwardNext /\ UNCHANGED <<xferVars, jdwpVars>>
     \/ active = "jdwp" /\ JdwpNext /\ UNCHANGED <<xferVars, fwdVars>>

\* The part that moves.
On(part) == active = part

\* The loops of both ends and the file pool go on until the transfer is over.
TransferFair == WF_xferVars(On("transfer") /\ TransferSteps)

\* The loops run: messages, closes, connects and idles happen; nothing is
\* assumed of the programs at both ends.
ForwardFair == \A e \in FwdEnds :
  /\ WF_fwdVars(On("forward") /\ ForwardDispatch(e))
  /\ WF_fwdVars(On("forward") /\ ReleaseForward(e))
  /\ \A i \in Conns : /\ WF_fwdVars(On("forward") /\ HandleClose(e, i))
                      /\ WF_fwdVars(On("forward") /\ FreeContextCallBack(e, i))
                      /\ WF_fwdVars(On("forward") /\ ConnectTarget(i))
                      /\ WF_fwdVars(On("forward") /\ SetupJdwpPointCallBack(i))

\* The loop serves what is ready, the threads of the applications run, and
\* the parameter service delivers what was set.
JdwpFair ==
  /\ WF_jdwpVars(On("jdwp") /\ AcceptClient)
  /\ WF_jdwpVars(On("jdwp") /\ ReadStream)
  /\ WF_jdwpVars(On("jdwp") /\ SetDevItem)
  /\ \A l \in Links : WF_jdwpVars(On("jdwp") /\ ContextDeleted(l))
  /\ \A p \in Pids : /\ WF_jdwpVars(On("jdwp") /\ Connect2Jdwp(p))
                     /\ WF_jdwpVars(On("jdwp") /\ WaitForJdwp(p))
                     /\ WF_jdwpVars(On("jdwp") /\ ParameterChanged(p))
                     /\ WF_jdwpVars(On("jdwp") /\ Send2Jdwp(p))
                     /\ WF_jdwpVars(On("jdwp") /\ ReadFromJdwp(p))
                     /\ WF_jdwpVars(On("jdwp") /\ ConnectReturns(p))

MCSpec ==
  /\ MCInit /\ [][MCNext]_<<active, xferVars, fwdVars, jdwpVars>>
  /\ TransferFair /\ ForwardFair /\ JdwpFair

\* Every transfer ends with both tasks deleted (CMD_FILE_FINISH,
\* CMD_KERNEL_CHANNEL_CLOSE), whichever request fails at which end, with the
\* exceptions TransferOver names: there the code ends nobody.
TransfersEnd == []<>(On("transfer") => TransferOver)
=============================================================================
