--------------------------- MODULE HdcHost_proofs ---------------------------
(***************************************************************************)
(* Proofs about the parts around sessions and channels: the client and its *)
(* handles, the commands of the daemon's shell, the processes that share   *)
(* the pid file, the key files, and the registry of the tasks that run the *)
(* commands, for any sets of sessions, channels and tasks and any time     *)
(* limit.  The inductive invariant of each part is at the end of its       *)
(* module.                                                                 *)
(***************************************************************************)
EXTENDS HdcClient, HdcCommands, HdcInstance, HdcKeys, HdcTaskClear, FiniteSetTheorems, TLAPS

-----------------------------------------------------------------------------
(* The client                                                              *)

\* The number of some of the three handles.
LEMMA HandlesCounted ==
    ASSUME NEW S \in SUBSET Handles
    PROVE  Cardinality(S) = (IF "work" \in S THEN 1 ELSE 0) + (IF "stdin" \in S THEN 1 ELSE 0)
                            + (IF "stdout" \in S THEN 1 ELSE 0)
<1> DEFINE S1 == S \cap {"work"}
           S2 == S \cap {"work", "stdin"}
<1>1. IsFiniteSet(S1) /\ Cardinality(S1) = IF "work" \in S THEN 1 ELSE 0
  <2>1. S1 = IF "work" \in S THEN {"work"} ELSE {}
    OBVIOUS
  <2>2. QED
    BY <2>1, FS_Singleton, FS_EmptySet
<1>2. IsFiniteSet(S2) /\ Cardinality(S2) = Cardinality(S1) + IF "stdin" \in S THEN 1 ELSE 0
  <2>1. S2 = (IF "stdin" \in S THEN S1 \cup {"stdin"} ELSE S1) /\ "stdin" \notin S1
    OBVIOUS
  <2>2. Cardinality(S1) \in Nat
    BY <1>1
  <2>3. IsFiniteSet(S1 \cup {"stdin"}) /\ Cardinality(S1 \cup {"stdin"}) = Cardinality(S1) + 1
    BY <1>1, <2>1, FS_AddElement
  <2> HIDE DEF S1, S2
  <2>4. QED
    BY <1>1, <2>1, <2>2, <2>3
<1>3. Cardinality(S) = Cardinality(S2) + IF "stdout" \in S THEN 1 ELSE 0
  <2>1. S = (IF "stdout" \in S THEN S2 \cup {"stdout"} ELSE S2) /\ "stdout" \notin S2
    BY DEF Handles
  <2>2. Cardinality(S2) \in Nat
    BY <1>1, <1>2
  <2>3. Cardinality(S2 \cup {"stdout"}) = Cardinality(S2) + 1
    BY <1>2, <2>1, FS_AddElement
  <2> HIDE DEF S1, S2
  <2>4. CASE "stdout" \in S
    <3>1. S = S2 \cup {"stdout"}
      BY <2>1, <2>4
    <3>2. QED
      BY <2>3, <2>4, <3>1
  <2>5. CASE "stdout" \notin S
    BY <2>1, <2>2, <2>5
  <2>6. QED
    BY <2>4, <2>5
<1>4. QED
  BY <1>1, <1>2, <1>3

\* The fields of the client, and which of them HandlesOK looks at.
ClientFields ==
  {"cmd", "conn", "retry", "ticks", "worker", "handshakeOK", "id", "key", "ref",
   "uvHandleRef", "isDead", "free", "raw", "spawned", "sent", "input", "exit"}

\* From r to q: the handle references, the terminal and the way to find the
\* channel are as before, and the channel is at most marked to be freed.
Quiet(r, q) ==
  /\ DOMAIN r = ClientFields => DOMAIN q = ClientFields
  /\ q.uvHandleRef = r.uvHandleRef /\ q.cmd = r.cmd /\ (q.raw <=> r.raw)
  /\ r.key = r.id => q.key = q.id
  /\ r.isDead => q.isDead
  /\ q.free = r.free \/ (q.free = "operate" /\ ~r.isDead /\ q.isDead)

\* Two quiet operations in a row are quiet.
LEMMA QuietTrans == ASSUME NEW r, NEW q, NEW s, Quiet(r, q), Quiet(q, s) PROVE Quiet(r, s)
  BY DEF Quiet

\* The helpers do nothing else.
LEMMA QuietHelpers ==
    ASSUME NEW r, DOMAIN r = ClientFields
    PROVE  /\ Quiet(r, ClientFree(r)) /\ ClientFree(r).conn = r.conn /\ ClientFree(r).exit = r.exit
           /\ Quiet(r, ClientSend(r)) /\ ClientSend(r).conn = r.conn /\ ClientSend(r).exit = r.exit
           /\ Quiet(r, SyncChannelId(r)) /\ SyncChannelId(r).conn = r.conn /\ SyncChannelId(r).exit = r.exit
<1>1. Quiet(r, ClientFree(r)) /\ ClientFree(r).conn = r.conn /\ ClientFree(r).exit = r.exit
  BY DEF ClientFree, Quiet, ClientFields
<1>2. Quiet(r, ClientSend(r)) /\ ClientSend(r).conn = r.conn /\ ClientSend(r).exit = r.exit
  BY DEF ClientSend, Quiet, ClientFields
<1>3. Quiet(r, SyncChannelId(r)) /\ SyncChannelId(r).conn = r.conn /\ SyncChannelId(r).exit = r.exit
  BY DEF SyncChannelId, Quiet, ClientFields
<1>4. QED
  BY <1>1, <1>2, <1>3

\* A quiet step that leaves the handles alone keeps the invariant.
LEMMA QuietStep ==
    ASSUME ClientInv, cli.exit = "no", UNCHANGED handles, Quiet(cli, cli'),
           cli'.exit # "freed", cli'.conn = "up" <=> cli.conn = "up",
           cli.raw => cli'.exit \in {"no", "timeout"}
    PROVE  ClientInv'
<1>1. /\ cli.free \in {"no", "operate", "finally"} /\ DOMAIN cli' = ClientFields
      /\ cli'.free = cli.free \/ (cli.free = "no" /\ cli'.free = "operate")
  BY DEF ClientInv, ClientShape, Quiet, ClientFields
<1>2. ClientShape'
  BY <1>1 DEF ClientInv, ClientShape, Quiet, ClientFields
<1>3. HandleStages'
  BY <1>1 DEF ClientInv, HandleStages, Quiet
<1>4. RefsKept'
  BY <1>1 DEF ClientInv, RefsKept, HandleCount, Quiet
<1>5. QED
  BY <1>1, <1>2, <1>3, <1>4 DEF ClientInv, Quiet

\* The first states of the client satisfy its inductive invariant.
LEMMA ClientInitInv == ClientInit => ClientInv
<1> SUFFICES ASSUME ClientInit PROVE ClientInv
  OBVIOUS
<1>1. /\ DOMAIN cli = ClientFields /\ cli.free = "no" /\ cli.exit = "no" /\ cli.key = cli.id /\ ~cli.raw
      /\ cli.uvHandleRef = 1
  BY DEF ClientInit, ClientFields
<1>2. handles = [h \in Handles |-> IF h = "work" THEN "open" ELSE "null"]
  BY DEF ClientInit
<1>3. QED
  BY <1>1, <1>2 DEF ClientInv, ClientShape, HandleStages, RefsKept, HandleCount, Handles, ClientFields

\* Every callback, timer and failure of the client keeps the inductive invariant: a
\* handle is closed once, and the record is deleted after the last of them.
LEMMA ClientStepInv == ClientInv /\ [ClientNext]_clientVars => ClientInv'
<1> SUFFICES ASSUME ClientInv, ClientNext PROVE ClientInv'
  BY DEF clientVars, ClientInv, ClientShape, HandleStages, RefsKept, HandleCount
<1>0. DOMAIN cli = ClientFields /\ cli.exit = "no"
  BY DEF ClientInv, ClientShape, ClientFields, ClientNext, ExecuteCommand, Connect, RetryTcpConnectWorker,
     PreHandshake, CommandWorker, ReadAnswer, ReadStd, ServerCloses, ClientWriteDone, ClientFreeContinue,
     ClientFreeFinally, HandleClosed, Runs
<1>1. CASE ExecuteCommand
  <2>1. /\ Quiet(cli, cli') /\ cli'.exit # "freed" /\ cli'.conn # "up" /\ cli.conn # "up" /\ UNCHANGED handles
    BY <1>0, <1>1 DEF ExecuteCommand, Quiet, ClientFields
  <2>2. ~cli.raw
    BY <2>1 DEF ClientInv
  <2>3. QED
    BY <1>0, <2>1, <2>2, QuietStep
<1>2. CASE Connect
  <2>1. CASE BindLocalStd
    <3>1. CASE cli' = [cli EXCEPT !.conn = "up"] /\ UNCHANGED handles
      BY <1>0, <3>1 DEF ClientInv, ClientShape, HandleStages, RefsKept, HandleCount, ClientFields
    <3>2. CASE cli' = [cli EXCEPT !.conn = "up"] /\ handles' = [handles EXCEPT !["stdout"] = "uncounted"]
      BY <1>0, <1>2, <3>2 DEF Connect, ClientInv, ClientShape, HandleStages, RefsKept, HandleCount, ClientFields, Handles
    <3>3. CASE /\ cli.cmd = "shell" /\ cli' = [cli EXCEPT !.conn = "up", !.uvHandleRef = @ + 2, !.raw = TRUE]
               /\ handles' = [handles EXCEPT !["stdin"] = "open", !["stdout"] = "open"]
      BY <1>0, <1>2, <3>3 DEF Connect, ClientInv, ClientShape, HandleStages, RefsKept, HandleCount, ClientFields, Handles
    <3>4. QED
      BY <2>1, <3>1, <3>2, <3>3 DEF BindLocalStd
  <2>2. CASE cli' = ClientFree([cli EXCEPT !.conn = "none"]) /\ UNCHANGED handles
    <3> DEFINE r == [cli EXCEPT !.conn = "none"]
    <3>1. DOMAIN r = ClientFields /\ Quiet(cli, r) /\ r.conn = "none" /\ r.exit = "no" /\ cli.conn # "up"
      BY <1>0, <1>2 DEF Quiet, ClientFields, Connect
    <3> HIDE DEF r
    <3>2. Quiet(cli, cli') /\ cli'.conn = "none" /\ cli'.exit = "no"
      BY <2>2, <3>1, QuietTrans, QuietHelpers DEF r
    <3>3. QED
      BY <1>0, <2>2, <3>1, <3>2, QuietStep
  <2>3. CASE /\ cli' = [cli EXCEPT !.conn = "retry", !.retry = IF @ <= MaxRetry THEN @ + 1 ELSE @]
             /\ UNCHANGED handles
    <3>1. Quiet(cli, cli') /\ cli'.conn = "retry" /\ cli'.exit = "no" /\ cli.conn # "up"
      BY <1>0, <1>2, <2>3 DEF Quiet, ClientFields, Connect
    <3>2. QED
      BY <1>0, <2>3, <3>1, QuietStep
  <2>4. QED
    BY <1>2, <2>1, <2>2, <2>3 DEF Connect
<1>3. CASE RetryTcpConnectWorker
  <2>1. CASE \E c \in {"connecting", "none"} : cli' = [cli EXCEPT !.conn = c]
    <3>1. Quiet(cli, cli') /\ cli'.conn # "up" /\ cli'.exit = "no" /\ cli.conn # "up" /\ UNCHANGED handles
      BY <1>0, <1>3, <2>1 DEF Quiet, ClientFields, RetryTcpConnectWorker
    <3>2. QED
      BY <1>0, <3>1, QuietStep
  <2>2. CASE cli' = ClientFree([cli EXCEPT !.conn = "none"])
    <3> DEFINE r == [cli EXCEPT !.conn = "none"]
    <3>1. /\ DOMAIN r = ClientFields /\ Quiet(cli, r) /\ r.conn = "none" /\ r.exit = "no" /\ cli.conn # "up"
          /\ UNCHANGED handles
      BY <1>0, <1>3 DEF Quiet, ClientFields, RetryTcpConnectWorker
    <3> HIDE DEF r
    <3>2. Quiet(cli, cli') /\ cli'.conn = "none" /\ cli'.exit = "no"
      BY <2>2, <3>1, QuietTrans, QuietHelpers DEF r
    <3>3. QED
      BY <1>0, <3>1, <3>2, QuietStep
  <2>3. QED
    BY <1>3, <2>1, <2>2 DEF RetryTcpConnectWorker
<1>4. CASE PreHandshake
  <2> DEFINE r == SyncChannelId(cli)
  <2>1. Quiet(cli, r) /\ DOMAIN r = ClientFields /\ r.conn = cli.conn /\ r.exit = cli.exit
    BY <1>0, QuietHelpers DEF Quiet
  <2>2. \A q : DOMAIN q = ClientFields =>
          /\ Quiet(q, [q EXCEPT !.handshakeOK = TRUE, !.sent = 0])
          /\ [q EXCEPT !.handshakeOK = TRUE, !.sent = 0].conn = q.conn
          /\ [q EXCEPT !.handshakeOK = TRUE, !.sent = 0].exit = q.exit
    BY DEF Quiet, ClientFields
  <2> HIDE DEF r
  <2>3. Quiet(cli, ClientFree(r)) /\ ClientFree(r).conn = cli.conn /\ ClientFree(r).exit = cli.exit
    BY <2>1, QuietHelpers, QuietTrans
  <2>4. /\ Quiet(cli, ClientSend(r)) /\ ClientSend(r).conn = cli.conn /\ ClientSend(r).exit = cli.exit
        /\ DOMAIN ClientSend(r) = ClientFields
    BY <2>1, QuietHelpers, QuietTrans DEF Quiet
  <2>5. Quiet(cli, cli') /\ cli'.conn = cli.conn /\ cli'.exit = cli.exit /\ UNCHANGED handles
    <3>1. CASE cli' = ClientFree(cli)
      BY <1>0, <1>4, <3>1, QuietHelpers DEF PreHandshake
    <3>2. CASE cli' = ClientFree(r)
      BY <1>4, <3>2, <2>3 DEF PreHandshake
    <3>3. CASE cli' = [ClientSend(r) EXCEPT !.handshakeOK = TRUE, !.sent = 0]
      <4> DEFINE q == ClientSend(r)
      <4>1. DOMAIN q = ClientFields /\ Quiet(cli, q) /\ q.conn = cli.conn /\ q.exit = cli.exit
        BY <2>4
      <4> HIDE DEF q
      <4>2. Quiet(q, cli') /\ cli'.conn = q.conn /\ cli'.exit = q.exit
        BY <2>2, <3>3, <4>1 DEF q
      <4>3. QED
        BY <1>4, <4>1, <4>2, QuietTrans DEF PreHandshake
    <3>4. QED
      BY <1>4, <3>1, <3>2, <3>3 DEF PreHandshake, r
  <2>6. QED
    BY <1>0, <2>5, QuietStep
<1>5. CASE CommandWorker
  <2>1. CASE \/ cli' = [cli EXCEPT !.worker = FALSE, !.exit = "timeout"]
             \/ cli' = [cli EXCEPT !.worker = FALSE, !.exit = "cancel"]
             \/ cli' = [cli EXCEPT !.ticks = IF @ < MaxWait THEN @ + 1 ELSE @]
    <3>1. Quiet(cli, cli') /\ cli'.conn = cli.conn /\ cli'.exit # "freed" /\ UNCHANGED handles
      BY <1>0, <1>5, <2>1 DEF Quiet, ClientFields, CommandWorker
    <3>2. cli.raw => cli'.exit \in {"no", "timeout"}
      <4>1. CASE cli' = [cli EXCEPT !.worker = FALSE, !.exit = "cancel"]
        <5>1. cli'.exit = "cancel"
          BY <1>0, <4>1 DEF ClientFields
        <5>2. cli.cmd = "confirm"
          <6>1. CASE cli' = ClientSend([cli EXCEPT !.worker = FALSE])
            <7> DEFINE r == [cli EXCEPT !.worker = FALSE]
            <7>1. DOMAIN r = ClientFields /\ r.exit = "no"
              BY <1>0 DEF ClientFields
            <7> HIDE DEF r
            <7>2. cli'.exit = "no"
              BY <6>1, <7>1, QuietHelpers DEF r
            <7>3. QED
              BY <5>1, <7>2
          <6>2. CASE cli' # ClientSend([cli EXCEPT !.worker = FALSE])
            <7>1. cli' # [cli EXCEPT !.worker = FALSE, !.exit = "timeout"]
              BY <1>0, <5>1 DEF ClientFields
            <7>2. cli' # [cli EXCEPT !.ticks = IF @ < MaxWait THEN @ + 1 ELSE @]
              BY <1>0, <5>1 DEF ClientFields
            <7>3. QED
              BY <1>5, <6>2, <7>1, <7>2 DEF CommandWorker
          <6>3. QED
            BY <6>1, <6>2
        <5>3. QED
          BY <5>2 DEF ClientInv
      <4>2. CASE cli' # [cli EXCEPT !.worker = FALSE, !.exit = "cancel"]
        BY <1>0, <2>1, <4>2 DEF ClientFields
      <4>3. QED
        BY <4>1, <4>2
    <3>3. QED
      BY <1>0, <3>1, <3>2, QuietStep
  <2>2. CASE cli' = ClientSend([cli EXCEPT !.worker = FALSE])
    <3> DEFINE r == [cli EXCEPT !.worker = FALSE]
    <3>1. DOMAIN r = ClientFields /\ Quiet(cli, r) /\ r.conn = cli.conn /\ r.exit = cli.exit /\ UNCHANGED handles
      BY <1>0, <1>5 DEF Quiet, ClientFields, CommandWorker
    <3> HIDE DEF r
    <3>2. Quiet(cli, cli') /\ cli'.conn = cli.conn /\ cli'.exit = cli.exit
      BY <2>2, <3>1, QuietTrans, QuietHelpers DEF r
    <3>3. QED
      BY <1>0, <3>1, <3>2, QuietStep
  <2>3. QED
    BY <1>5, <2>1, <2>2 DEF CommandWorker
<1>6. CASE ReadAnswer
  <2>1. PICK r \in {ClientSend(cli), [cli EXCEPT !.exit = "done"], ClientSend([cli EXCEPT !.spawned = @ + 1]),
                    cli, ClientFree(cli)} :
              /\ cli' = [r EXCEPT !.input = @ + 1]
              /\ cli.cmd = "shell" => r \in {cli, ClientFree(cli)}
    BY <1>6 DEF ReadAnswer, WaitFor, WaitForSpawn, WriteShellOutput
  <2>2. /\ Quiet(cli, r) /\ r.conn = cli.conn /\ r.exit # "freed" /\ DOMAIN r = ClientFields
        /\ cli.raw => r.exit = "no"
    <3>1. CASE r = [cli EXCEPT !.exit = "done"]
      <4>1. /\ Quiet(cli, r) /\ r.conn = cli.conn /\ r.exit = "done" /\ DOMAIN r = ClientFields
        BY <1>0, <3>1 DEF Quiet, ClientFields
      <4>2. cli.cmd = "shell" => r.exit = "no"
        BY <1>0, <2>1, QuietHelpers
      <4>3. QED
        BY <4>1, <4>2 DEF ClientInv
    <3>2. CASE r = ClientSend([cli EXCEPT !.spawned = @ + 1])
      <4> DEFINE q == [cli EXCEPT !.spawned = @ + 1]
      <4>1. DOMAIN q = ClientFields /\ Quiet(cli, q) /\ q.conn = cli.conn /\ q.exit = cli.exit
        BY <1>0 DEF Quiet, ClientFields
      <4>2. r = ClientSend(q)
        BY <3>2
      <4> HIDE DEF q
      <4>3. Quiet(cli, r) /\ r.conn = cli.conn /\ r.exit = cli.exit
        BY <4>2, <4>1, QuietTrans, QuietHelpers
      <4>4. QED
        BY <1>0, <4>3 DEF Quiet
    <3>3. CASE r = ClientSend(cli) \/ r = ClientFree(cli)
      <4>1. Quiet(cli, r) /\ r.conn = cli.conn /\ r.exit = cli.exit
        BY <1>0, <3>3, QuietHelpers
      <4>2. QED
        BY <1>0, <4>1 DEF Quiet
    <3>4. CASE r = cli
      BY <1>0, <3>4 DEF Quiet
    <3>5. QED
      BY <2>1, <3>1, <3>2, <3>3, <3>4
  <2>3. Quiet(r, cli') /\ cli'.conn = r.conn /\ cli'.exit = r.exit
    BY <2>1, <2>2 DEF Quiet, ClientFields
  <2>4. Quiet(cli, cli') /\ UNCHANGED handles
    BY <1>6, <2>2, <2>3, QuietTrans DEF ReadAnswer
  <2>5. QED
    BY <1>0, <2>2, <2>3, <2>4, QuietStep
<1>7. CASE ReadStd
  <2> DEFINE r == ClientSend(cli)
  <2>1. Quiet(cli, r) /\ r.conn = cli.conn /\ r.exit = cli.exit /\ DOMAIN r = ClientFields
    BY <1>0, QuietHelpers DEF Quiet
  <2> HIDE DEF r
  <2>2. cli' = [r EXCEPT !.input = @ + 1] /\ UNCHANGED handles
    BY <1>7 DEF ReadStd, r
  <2>3. Quiet(r, cli') /\ cli'.conn = r.conn /\ cli'.exit = r.exit
    BY <2>1, <2>2 DEF Quiet, ClientFields
  <2>4. QED
    BY <1>0, <2>1, <2>2, <2>3, QuietTrans, QuietStep
<1>8. CASE ServerCloses
  <2>1. Quiet(cli, cli') /\ cli'.conn = cli.conn /\ cli'.exit = cli.exit
    BY <1>0, <1>8, QuietHelpers DEF ServerCloses
  <2>2. handles' = [handles EXCEPT !["work"] = "closed"] /\ handles["work"] = "open" /\ cli.conn = "up"
    BY <1>8 DEF ServerCloses
  <2>3. cli.free \in {"no", "operate"} /\ cli'.free \in {"no", "operate"} /\ DOMAIN cli' = ClientFields
    BY <1>0, <2>1, <2>2 DEF ClientInv, ClientShape, HandleStages, Quiet, Handles
  <2>4. ClientShape'
    BY <1>0, <2>1, <2>2, <2>3 DEF ClientInv, ClientShape, Quiet, ClientFields, Handles
  <2>5. HandleStages' /\ RefsKept'
    BY <2>1, <2>2, <2>3 DEF ClientInv, ClientShape, HandleStages, RefsKept, HandleCount, Quiet, Handles
  <2>6. QED
    BY <2>1, <2>3, <2>4, <2>5 DEF ClientInv, Quiet
<1>9. CASE ClientWriteDone
  <2>1. Quiet(cli, cli') /\ cli'.conn = cli.conn /\ cli'.exit = cli.exit /\ UNCHANGED handles
    BY <1>0, <1>9 DEF Quiet, ClientFields, ClientWriteDone
  <2>2. QED
    BY <1>0, <2>1, QuietStep
<1>10. CASE ClientFreeContinue
  BY <1>0, <1>10 DEF ClientFreeContinue, ClientInv, ClientShape, HandleStages, RefsKept, HandleCount, ClientFields, Handles
<1>11. CASE ClientFreeFinally
  <2>1. CASE cli.cmd = "shell"
    BY <1>0, <1>11, <2>1 DEF ClientFreeFinally, RestoreTty, NoHandleRef, ClientInv, ClientShape, HandleStages, RefsKept,
       HandleCount, ClientFields, Handles
  <2>2. CASE cli.cmd # "shell"
    BY <1>0, <1>11, <2>2 DEF ClientFreeFinally, RestoreTty, NoHandleRef, ClientInv, ClientShape, HandleStages, RefsKept,
       HandleCount, ClientFields, Handles
  <2>3. QED
    BY <2>1, <2>2
<1>12. ASSUME NEW h \in Handles, HandleClosed(h) PROVE ClientInv'
  BY <1>0, <1>12 DEF HandleClosed, ClientInv, ClientShape, HandleStages, RefsKept, HandleCount, ClientFields, Handles
<1>13. QED
  BY <1>1, <1>2, <1>3, <1>4, <1>5, <1>6, <1>7, <1>8, <1>9, <1>10, <1>11, <1>12 DEF ClientNext

\* ClientSafe for every behaviour of the client: its record outlives its handles, is
\* found under its id until it is deleted, and the terminal is given back.
THEOREM ClientsSafe == ClientSpec => []ClientSafe
<1>1. ClientInv => ClientHandleRefs
  <2> SUFFICES ASSUME ClientInv PROVE ClientHandleRefs
    OBVIOUS
  <2> DEFINE S == {h \in Handles : handles[h] \in {"open", "closing"}}
  <2>1. Cardinality(S) = HandleCount("work") + HandleCount("stdin") + HandleCount("stdout")
    BY HandlesCounted DEF HandleCount, Handles
  <2>2. QED
    BY <2>1 DEF ClientInv, ClientShape, HandleStages, RefsKept, HandleCount, ClientHandleRefs, Handles
<1>2. ClientInv => ClientEndsClean
  BY DEF ClientInv, ClientShape, ClientEndsClean
<1>3. QED
  BY <1>1, <1>2, ClientInitInv, ClientStepInv, PTL DEF ClientSpec, ClientSafe

-----------------------------------------------------------------------------
(* Commands run by the daemon                                              *)

\* The first states of the command runner satisfy its inductive invariant.
LEMMA CommandInitInv == CommandInit => CommandInv
  BY DEF CommandInit, CommandInv, CommandShape, ReaderHolds, LogHolds, OutputKept, Shell

\* Every step of the worker, of the threads that read and write and of the command
\* keeps the inductive invariant.
LEMMA CommandStepInv == CommandInv /\ [CommandNext]_cmdVars => CommandInv'
<1> SUFFICES ASSUME CommandInv, [CommandNext]_cmdVars PROVE CommandInv'
  OBVIOUS
<1>0. CommandShape /\ ReaderHolds /\ LogHolds /\ OutputKept
  BY DEF CommandInv
<1> USE <1>0 DEF CommandShape, Step, Shell
<1>1. CASE InstantCommand
  <2>1. CommandShape'
    BY <1>1 DEF InstantCommand, FinishCommand
  <2>2. ReaderHolds'
    BY <1>1 DEF InstantCommand, FinishCommand, ReaderHolds
  <2>3. LogHolds'
    BY <1>1 DEF InstantCommand, FinishCommand, LogHolds
  <2>4. OutputKept'
    BY <1>1 DEF InstantCommand, FinishCommand, OutputKept, ReaderHolds
  <2>5. QED
    BY <2>1, <2>2, <2>3, <2>4 DEF CommandInv
<1>2. CASE StartShell
  <2>1. CommandShape'
    BY <1>2 DEF StartShell, StartWorkOnThread
  <2>2. ReaderHolds'
    BY <1>2 DEF StartShell, StartWorkOnThread, ReaderHolds
  <2>3. LogHolds'
    BY <1>2 DEF StartShell, StartWorkOnThread, LogHolds
  <2>4. OutputKept'
    BY <1>2 DEF StartShell, StartWorkOnThread, OutputKept, ReaderHolds
  <2>5. QED
    BY <2>1, <2>2, <2>3, <2>4 DEF CommandInv
<1>3. CASE DaemonExecuteCommand
  <2>a. ~Shell /\ cmd.task = "none" /\ hlog' = [hlog EXCEPT !.task = "run"] /\ UNCHANGED ckind
    BY <1>3 DEF DaemonExecuteCommand
  <2>1. CASE cmd' = [StartWorkOnThread(cmd) EXCEPT !.task = "starting", !.child = "runs", !.asyncRef = @ + 1]
    <3>1. CommandShape'
      BY <2>a, <2>1 DEF StartWorkOnThread
    <3>2. ReaderHolds'
      BY <2>a, <2>1 DEF ReaderHolds, StartWorkOnThread
    <3>3. LogHolds'
      BY <2>a, <2>1 DEF LogHolds, StartWorkOnThread
    <3>4. OutputKept'
      BY <2>a, <2>1 DEF OutputKept, ReaderHolds, StartWorkOnThread
    <3>5. QED
      BY <3>1, <3>2, <3>3, <3>4 DEF CommandInv
  <2>2. CASE cmd' = [cmd EXCEPT !.task = "starting", !.failed = TRUE]
    <3>1. CommandShape'
      BY <2>a, <2>2 
    <3>2. ReaderHolds'
      BY <2>a, <2>2 DEF ReaderHolds
    <3>3. LogHolds'
      BY <2>a, <2>2 DEF LogHolds
    <3>4. OutputKept'
      BY <2>a, <2>2 DEF OutputKept, ReaderHolds
    <3>5. QED
      BY <3>1, <3>2, <3>3, <3>4 DEF CommandInv
  <2>3. QED
    BY <1>3, <2>1, <2>2 DEF DaemonExecuteCommand
<1>4. CASE ExecuteShell
  <2>1. CommandShape'
    BY <1>4 DEF ExecuteShell
  <2>2. ReaderHolds'
    BY <1>4 DEF ExecuteShell, ReaderHolds
  <2>3. LogHolds'
    BY <1>4 DEF ExecuteShell, LogHolds
  <2>4. OutputKept'
    BY <1>4 DEF ExecuteShell, OutputKept, ReaderHolds
  <2>5. QED
    BY <2>1, <2>2, <2>3, <2>4 DEF CommandInv
<1>5. CASE ChildPrints
  <2>1. CommandShape'
    BY <1>5 DEF ChildPrints
  <2>2. ReaderHolds'
    BY <1>5 DEF ChildPrints, ReaderHolds
  <2>3. LogHolds'
    BY <1>5 DEF ChildPrints, LogHolds
  <2>4. OutputKept'
    BY <1>5 DEF ChildPrints, OutputKept, ReaderHolds
  <2>5. QED
    BY <2>1, <2>2, <2>3, <2>4 DEF CommandInv
<1>6. CASE ChildExits
  <2>1. CommandShape'
    BY <1>6 DEF ChildExits
  <2>2. ReaderHolds'
    BY <1>6 DEF ChildExits, ReaderHolds
  <2>3. LogHolds'
    BY <1>6 DEF ChildExits, LogHolds
  <2>4. OutputKept'
    BY <1>6 DEF ChildExits, OutputKept, ReaderHolds
  <2>5. QED
    BY <2>1, <2>2, <2>3, <2>4 DEF CommandInv
<1>7. CASE ReadData
  <2>a. cmd.io = "read" /\ UNCHANGED <<ckind, hlog>>
    BY <1>7 DEF ReadData, ReadToldToStop, ReadHungUp, ReadOutput
  <2>1. CASE ReadToldToStop
    <3>1. CommandShape'
      BY <2>a, <2>1 DEF ReadToldToStop
    <3>2. ReaderHolds'
      BY <2>a, <2>1 DEF ReaderHolds, ReadToldToStop
    <3>3. LogHolds'
      BY <2>a, <2>1 DEF LogHolds, ReadToldToStop
    <3>4. OutputKept'
      BY <2>a, <2>1 DEF OutputKept, ReaderHolds, ReadToldToStop
    <3>5. QED
      BY <3>1, <3>2, <3>3, <3>4 DEF CommandInv
  <2>2. ASSUME NEW n \in ReadSizes, NEW y \in SendOutcomes(cmd, n), cmd.child = "exited",
               cmd' = [y EXCEPT !.io = "ends", !.cut = @ \/ y.unread > 0]
        PROVE  CommandInv'
    <3>a. n \in 0 .. cmd.unread
      BY DEF ReadSizes
    <3>b. CASE y = [cmd EXCEPT !.unread = @ - n, !.sent = @ + n]
      <4>1. CommandShape'
        BY <2>a, <2>2, <3>a, <3>b 
      <4>2. ReaderHolds'
        BY <2>a, <2>2, <3>a, <3>b DEF ReaderHolds
      <4>3. LogHolds'
        BY <2>a, <2>2, <3>a, <3>b DEF LogHolds
      <4>4. OutputKept'
        <5>1. ~cmd'.cut => ~cmd.cut /\ ~(y.unread > 0)
          BY <2>2, <3>b
        <5>2. /\ y.unread = cmd.unread - n /\ cmd'.unread = cmd.unread - n /\ cmd'.sent = cmd.sent + n
              /\ cmd'.io = "ends" /\ cmd'.child = "exited" /\ cmd'.printed = cmd.printed
              /\ cmd'.closes = cmd.closes /\ cmd'.task = cmd.task
          BY <2>2, <3>b
        <5>3. QED
          BY <2>a, <3>a, <5>1, <5>2 DEF OutputKept, ReaderHolds
      <4>5. QED
        BY <4>1, <4>2, <4>3, <4>4 DEF CommandInv
    <3>c. CASE y = [cmd EXCEPT !.unread = @ - n, !.io = "ends", !.cut = TRUE]
      <4>1. CommandShape'
        BY <2>a, <2>2, <3>a, <3>c 
      <4>2. ReaderHolds'
        BY <2>a, <2>2, <3>a, <3>c DEF ReaderHolds
      <4>3. LogHolds'
        BY <2>a, <2>2, <3>a, <3>c DEF LogHolds
      <4>4. OutputKept'
        BY <2>a, <2>2, <3>a, <3>c DEF OutputKept, ReaderHolds
      <4>5. QED
        BY <4>1, <4>2, <4>3, <4>4 DEF CommandInv
    <3>d. QED
      BY <3>b, <3>c DEF SendOutcomes
  <2>3. ASSUME NEW n \in ReadSizes, cmd' \in SendOutcomes(cmd, n)
        PROVE  CommandInv'
    <3>a. n \in 0 .. cmd.unread
      BY DEF ReadSizes
    <3>b. CASE cmd' = [cmd EXCEPT !.unread = @ - n, !.sent = @ + n]
      <4>1. CommandShape'
        BY <2>a, <3>a, <3>b 
      <4>2. ReaderHolds'
        BY <2>a, <3>a, <3>b DEF ReaderHolds
      <4>3. LogHolds'
        BY <2>a, <3>a, <3>b DEF LogHolds
      <4>4. OutputKept'
        BY <2>a, <3>a, <3>b DEF OutputKept, ReaderHolds
      <4>5. QED
        BY <4>1, <4>2, <4>3, <4>4 DEF CommandInv
    <3>c. CASE cmd' = [cmd EXCEPT !.unread = @ - n, !.io = "ends", !.cut = TRUE]
      <4>1. CommandShape'
        BY <2>a, <3>a, <3>c 
      <4>2. ReaderHolds'
        BY <2>a, <3>a, <3>c DEF ReaderHolds
      <4>3. LogHolds'
        BY <2>a, <3>a, <3>c DEF LogHolds
      <4>4. OutputKept'
        BY <2>a, <3>a, <3>c DEF OutputKept, ReaderHolds
      <4>5. QED
        BY <4>1, <4>2, <4>3, <4>4 DEF CommandInv
    <3>d. QED
      BY <2>3, <3>b, <3>c DEF SendOutcomes
  <2>4. QED
    BY <1>7, <2>1, <2>2, <2>3 DEF ReadData, ReadHungUp, ReadOutput
<1>8. CASE MallocFails
  <2>1. CommandShape'
    BY <1>8 DEF MallocFails
  <2>2. ReaderHolds'
    BY <1>8 DEF MallocFails, ReaderHolds
  <2>3. LogHolds'
    BY <1>8 DEF MallocFails, LogHolds
  <2>4. OutputKept'
    BY <1>8 DEF MallocFails, OutputKept, ReaderHolds
  <2>5. QED
    BY <2>1, <2>2, <2>3, <2>4 DEF CommandInv
<1>9. CASE Run
  <2>1. CommandShape'
    BY <1>9 DEF Run
  <2>2. ReaderHolds'
    BY <1>9 DEF Run, ReaderHolds
  <2>3. LogHolds'
    BY <1>9 DEF Run, LogHolds
  <2>4. OutputKept'
    BY <1>9 DEF Run, OutputKept, ReaderHolds
  <2>5. QED
    BY <2>1, <2>2, <2>3, <2>4 DEF CommandInv
<1>10. CASE FinishShellProc
  <2>1. CommandShape'
    BY <1>10 DEF FinishShellProc, FinishCommand
  <2>2. ReaderHolds'
    BY <1>10 DEF FinishShellProc, FinishCommand, ReaderHolds
  <2>3. LogHolds'
    BY <1>10 DEF FinishShellProc, FinishCommand, LogHolds
  <2>4. OutputKept'
    BY <1>10 DEF FinishShellProc, FinishCommand, OutputKept, ReaderHolds
  <2>5. QED
    BY <2>1, <2>2, <2>3, <2>4 DEF CommandInv
<1>11. CASE ShellProcDone
  <2>1. CommandShape'
    BY <1>11 DEF ShellProcDone
  <2>2. ReaderHolds'
    BY <1>11 DEF ShellProcDone, ReaderHolds
  <2>3. LogHolds'
    BY <1>11 DEF ShellProcDone, LogHolds
  <2>4. OutputKept'
    BY <1>11 DEF ShellProcDone, OutputKept, ReaderHolds
  <2>5. QED
    BY <2>1, <2>2, <2>3, <2>4 DEF CommandInv
<1>12. CASE ShellData
  <2>1. CommandShape'
    BY <1>12 DEF ShellData
  <2>2. ReaderHolds'
    BY <1>12 DEF ShellData, ReaderHolds
  <2>3. LogHolds'
    BY <1>12 DEF ShellData, LogHolds
  <2>4. OutputKept'
    BY <1>12 DEF ShellData, OutputKept, ReaderHolds
  <2>5. QED
    BY <2>1, <2>2, <2>3, <2>4 DEF CommandInv
<1>13. CASE IOWriteThread
  <2>1. CommandShape'
    BY <1>13 DEF IOWriteThread
  <2>2. ReaderHolds'
    BY <1>13 DEF IOWriteThread, ReaderHolds
  <2>3. LogHolds'
    BY <1>13 DEF IOWriteThread, LogHolds
  <2>4. OutputKept'
    BY <1>13 DEF IOWriteThread, OutputKept, ReaderHolds
  <2>5. QED
    BY <2>1, <2>2, <2>3, <2>4 DEF CommandInv
<1>14. CASE CtxFileIOWrite
  <2>1. CommandShape'
    BY <1>14 DEF CtxFileIOWrite
  <2>2. ReaderHolds'
    BY <1>14 DEF CtxFileIOWrite, ReaderHolds
  <2>3. LogHolds'
    BY <1>14 DEF CtxFileIOWrite, LogHolds
  <2>4. OutputKept'
    BY <1>14 DEF CtxFileIOWrite, OutputKept, ReaderHolds
  <2>5. QED
    BY <2>1, <2>2, <2>3, <2>4 DEF CommandInv
<1>15. CASE StopShell
  <2>1. CommandShape'
    BY <1>15 DEF StopShell
  <2>2. ReaderHolds'
    BY <1>15 DEF StopShell, ReaderHolds
  <2>3. LogHolds'
    BY <1>15 DEF StopShell, LogHolds
  <2>4. OutputKept'
    BY <1>15 DEF StopShell, OutputKept, ReaderHolds
  <2>5. QED
    BY <2>1, <2>2, <2>3, <2>4 DEF CommandInv
<1>16. CASE DoRelease
  <2>1. CommandShape'
    BY <1>16 DEF DoRelease
  <2>2. ReaderHolds'
    BY <1>16 DEF DoRelease, ReaderHolds
  <2>3. LogHolds'
    BY <1>16 DEF DoRelease, LogHolds
  <2>4. OutputKept'
    BY <1>16 DEF DoRelease, OutputKept, ReaderHolds
  <2>5. QED
    BY <2>1, <2>2, <2>3, <2>4 DEF CommandInv
<1>17. CASE ReleaseCommand
  <2>1. CommandShape'
    BY <1>17 DEF ReleaseCommand
  <2>2. ReaderHolds'
    BY <1>17 DEF ReleaseCommand, ReaderHolds
  <2>3. LogHolds'
    BY <1>17 DEF ReleaseCommand, LogHolds
  <2>4. OutputKept'
    BY <1>17 DEF ReleaseCommand, OutputKept, ReaderHolds
  <2>5. QED
    BY <2>1, <2>2, <2>3, <2>4 DEF CommandInv
<1>18. CASE AppendLocalLog
  <2>1. CommandShape'
    BY <1>18 DEF AppendLocalLog, HostStep
  <2>2. ReaderHolds'
    BY <1>18 DEF AppendLocalLog, HostStep, ReaderHolds
  <2>3. LogHolds'
    BY <1>18 DEF AppendLocalLog, HostStep, LogHolds
  <2>4. OutputKept'
    BY <1>18 DEF AppendLocalLog, HostStep, OutputKept, ReaderHolds
  <2>5. QED
    BY <2>1, <2>2, <2>3, <2>4 DEF CommandInv
<1>19. CASE OnFileIO
  <2>1. CommandShape'
    BY <1>19 DEF OnFileIO, HostStep
  <2>2. ReaderHolds'
    BY <1>19 DEF OnFileIO, HostStep, ReaderHolds
  <2>3. LogHolds'
    BY <1>19 DEF OnFileIO, HostStep, LogHolds
  <2>4. OutputKept'
    BY <1>19 DEF OnFileIO, HostStep, OutputKept, ReaderHolds
  <2>5. QED
    BY <2>1, <2>2, <2>3, <2>4 DEF CommandInv
<1>20. CASE HostStopTask
  <2>1. CommandShape'
    BY <1>20 DEF HostStopTask, HostStep
  <2>2. ReaderHolds'
    BY <1>20 DEF HostStopTask, HostStep, ReaderHolds
  <2>3. LogHolds'
    BY <1>20 DEF HostStopTask, HostStep, LogHolds
  <2>4. OutputKept'
    BY <1>20 DEF HostStopTask, HostStep, OutputKept, ReaderHolds
  <2>5. QED
    BY <2>1, <2>2, <2>3, <2>4 DEF CommandInv
<1>21. CASE OnFileClose
  <2>1. CommandShape'
    BY <1>21 DEF OnFileClose, HostStep
  <2>2. ReaderHolds'
    BY <1>21 DEF OnFileClose, HostStep, ReaderHolds
  <2>3. LogHolds'
    BY <1>21 DEF OnFileClose, HostStep, LogHolds
  <2>4. OutputKept'
    BY <1>21 DEF OnFileClose, HostStep, OutputKept, ReaderHolds
  <2>5. QED
    BY <2>1, <2>2, <2>3, <2>4 DEF CommandInv
<1>22. CASE ReleaseHost
  <2>1. CommandShape'
    BY <1>22 DEF ReleaseHost, HostStep
  <2>2. ReaderHolds'
    BY <1>22 DEF ReleaseHost, HostStep, ReaderHolds
  <2>3. LogHolds'
    BY <1>22 DEF ReleaseHost, HostStep, LogHolds
  <2>4. OutputKept'
    BY <1>22 DEF ReleaseHost, HostStep, OutputKept, ReaderHolds
  <2>5. QED
    BY <2>1, <2>2, <2>3, <2>4 DEF CommandInv
<1>23. CASE UNCHANGED cmdVars
  BY <1>23 DEF cmdVars, CommandInv, ReaderHolds, LogHolds, OutputKept
<1>24. QED
  BY <1>1, <1>2, <1>3, <1>4, <1>5, <1>6, <1>7, <1>8, <1>9, <1>10, <1>11, <1>12, <1>13, <1>14, <1>15, <1>16, <1>17, <1>18, <1>19, <1>20, <1>21, <1>22, <1>23 DEF CommandNext, IoThread, StopCommand

\* CommandSafe for every behaviour of HdcShell, AsyncCmd and the bug report: no thread
\* and no write outlives its task, and the channel is closed after the output.
THEOREM CommandsSafe == CommandSpec => []CommandSafe
<1>1. CommandInv => CommandSafe
  BY DEF CommandInv, CommandShape, CommandSafe, ThreadsEndFirst, OutputBeforeClose, ReaderHolds, LogHolds, OutputKept
<1>2. QED
  BY <1>1, CommandInitInv, CommandStepInv, PTL DEF CommandSpec

-----------------------------------------------------------------------------
(* The pid file                                                            *)

\* The pids: clients first, then the servers they pull up.
LEMMA InstancePids ==
    /\ 0 \notin ProcIds /\ FirstServer \in ProcIds /\ FirstServer \notin 1..InstanceClients
    /\ \A p \in 1..InstanceClients :
         /\ p \in ProcIds /\ FirstServer + p \in ProcIds /\ FirstServer + p \notin 1..InstanceClients
         /\ FirstServer + p # FirstServer
         /\ \A q \in 1..InstanceClients : FirstServer + p = FirstServer + q => p = q
  BY InstanceBounds DEF ProcIds, FirstServer

\* A call that fails changes nothing else of what happened.
LEMMA FailedKeeps ==
    ASSUME InstanceShape
    PROVE  /\ DOMAIN Failed(ihist) = DOMAIN ihist /\ Failed(ihist).unnoted = ihist.unnoted
           /\ Failed(ihist).wrong = ihist.wrong /\ Failed(ihist).misled = ihist.misled
           /\ \A S : LET h == [Failed(ihist) EXCEPT !.unnoted = S]
                   IN DOMAIN h = DOMAIN ihist /\ h.unnoted = S /\ h.wrong = ihist.wrong /\ h.misled = ihist.misled
  BY DEF Failed, InstanceShape

\* The first states of the processes satisfy the inductive invariant of InstanceSafe.
LEMMA InstanceInitInv == InstanceInit => InstanceInv
<1> SUFFICES ASSUME NEW s \in InstanceScenarios, InstanceStart(s) PROVE InstanceInv
  BY DEF InstanceInit
<1> USE InstancePids, ScenarioTypes DEF InstanceStart, Process, Free, NoInfo
<1>1. InstanceTypeOK
  BY DEF InstanceTypeOK
<1>2. InstanceShape
  BY DEF InstanceShape
<1>3. InstanceRoles /\ NotPulledUp
  BY DEF InstanceRoles, NotPulledUp
<1>4. LockInv
  BY DEF LockInv, PastMutex
<1>5. FoundInv
  BY DEF FoundInv
<1>6. InfoFits(ifile.info) /\ \A p \in ProcIds : InfoFits(iproc[p].seen)
  BY DEF InfoFits, PastMutex
<1>7. FoundServerIsMeant
  BY DEF FoundServerIsMeant
<1>8. QED
  BY <1>1, <1>2, <1>3, <1>4, <1>5, <1>6, <1>7 DEF InstanceInv

\* Every step of a client or a server process, its death included, keeps the
\* inductive invariant: who holds the lock file, and whose pid is in it.
LEMMA InstanceStepInv == InstanceInv /\ [InstanceNext]_instanceVars => InstanceInv'
<1> SUFFICES ASSUME InstanceInv, [InstanceNext]_instanceVars PROVE InstanceInv'
  OBVIOUS
<1>0. /\ InstanceTypeOK /\ InstanceShape /\ InstanceRoles /\ NotPulledUp /\ LockInv /\ FoundInv
      /\ InfoFits(ifile.info) /\ \A p \in ProcIds : InfoFits(iproc[p].seen)
      /\ FoundServerIsMeant
  BY DEF InstanceInv
<1> USE <1>0, InstancePids DEF At, Lives, InstanceShape
<1>1. ASSUME NEW p \in ProcIds, FoundLocked(p) PROVE InstanceInv'
  <2>1. InstanceTypeOK'
    BY <1>1 DEF FoundLocked, InstanceTypeOK
  <2>2. InstanceShape'
    BY <1>1 DEF FoundLocked, InstanceTypeOK
  <2>3. InstanceRoles'
    BY <1>1 DEF FoundLocked, InstanceRoles, NotPulledUp
  <2>4. NotPulledUp'
    BY <1>1 DEF FoundLocked, InstanceRoles, NotPulledUp
  <2>5. LockInv'
    BY <1>1 DEF FoundLocked, LockInv, InstanceRoles, NotPulledUp, PastMutex
  <2>6. FoundInv'
    BY <1>1 DEF FoundLocked, LockInv, InstanceRoles, NotPulledUp, FoundInv, PastMutex
  <2>7. InfoFits(ifile.info)' /\ \A q \in ProcIds : InfoFits(iproc[q].seen)'
    BY <1>1 DEF FoundLocked, InstanceTypeOK, InstanceRoles, NotPulledUp, LockInv, InfoFits, PastMutex
  <2>8. FoundServerIsMeant'
    BY <1>1 DEF FoundLocked, FoundServerIsMeant
  <2>9. QED
    BY <2>1, <2>2, <2>3, <2>4, <2>5, <2>6, <2>7, <2>8 DEF InstanceInv
<1>2. ASSUME NEW p \in ProcIds, MutexLock(p) PROVE InstanceInv'
  <2>1. InstanceTypeOK'
    BY <1>2 DEF MutexLock, InstanceTypeOK
  <2>2. InstanceShape'
    BY <1>2 DEF MutexLock, InstanceTypeOK
  <2>3. InstanceRoles'
    BY <1>2 DEF MutexLock, InstanceRoles, NotPulledUp
  <2>4. NotPulledUp'
    BY <1>2 DEF MutexLock, InstanceRoles, NotPulledUp
  <2>5. LockInv'
    BY <1>2 DEF MutexLock, LockInv, InstanceRoles, NotPulledUp, PastMutex
  <2>6. FoundInv'
    BY <1>2 DEF MutexLock, LockInv, InstanceRoles, NotPulledUp, FoundInv, PastMutex
  <2>7. InfoFits(ifile.info)' /\ \A q \in ProcIds : InfoFits(iproc[q].seen)'
    BY <1>2 DEF MutexLock, InstanceTypeOK, InstanceRoles, NotPulledUp, LockInv, InfoFits, PastMutex
  <2>8. FoundServerIsMeant'
    BY <1>2 DEF MutexLock, FoundServerIsMeant
  <2>9. QED
    BY <2>1, <2>2, <2>3, <2>4, <2>5, <2>6, <2>7, <2>8 DEF InstanceInv
<1>3. ASSUME NEW p \in ProcIds, MutexTruncate(p) PROVE InstanceInv'
  <2>1. InstanceTypeOK'
    BY <1>3 DEF MutexTruncate, InstanceTypeOK
  <2>2. InstanceShape'
    BY <1>3 DEF MutexTruncate, InstanceTypeOK
  <2>3. InstanceRoles'
    BY <1>3 DEF MutexTruncate, InstanceRoles, NotPulledUp
  <2>4. NotPulledUp'
    BY <1>3 DEF MutexTruncate, InstanceRoles, NotPulledUp
  <2>5. LockInv'
    BY <1>3 DEF MutexTruncate, LockInv, InstanceRoles, NotPulledUp, PastMutex
  <2>6. FoundInv'
    BY <1>3 DEF MutexTruncate, LockInv, InstanceRoles, NotPulledUp, FoundInv, PastMutex
  <2>7. InfoFits(ifile.info)' /\ \A q \in ProcIds : InfoFits(iproc[q].seen)'
    BY <1>3 DEF MutexTruncate, InstanceTypeOK, InstanceRoles, NotPulledUp, LockInv, InfoFits, PastMutex
  <2>8. FoundServerIsMeant'
    BY <1>3 DEF MutexTruncate, FoundServerIsMeant
  <2>9. QED
    BY <2>1, <2>2, <2>3, <2>4, <2>5, <2>6, <2>7, <2>8 DEF InstanceInv
<1>4. ASSUME NEW p \in ProcIds, MutexWrite(p) \/ (MutexFails(p) /\ At(p, "write")) PROVE InstanceInv'
  <2>a. PICK pid \in {0, p, ifile.pid} :
          /\ At(p, "write") /\ MutexEnds(p, pid)
          /\ pid = p \/ p \in ihist'.unnoted
    <3>1. CASE MutexWrite(p)
      BY <3>1 DEF MutexWrite
    <3>2. CASE MutexFails(p) /\ At(p, "write")
      <4>1. At(p, "write") /\ MutexEnds(p, ifile.pid) /\ ihist' = [Failed(ihist) EXCEPT !.unnoted = ihist.unnoted \cup {p}]
        BY <3>2, FailedKeeps DEF MutexFails
      <4>2. ihist'.unnoted = ihist.unnoted \cup {p}
        BY <4>1, FailedKeeps
      <4>3. QED
        BY <4>1, <4>2
    <3>3. QED
      BY <1>4, <3>1, <3>2
  <2>b. /\ DOMAIN ihist' = DOMAIN ihist /\ ihist.unnoted \subseteq ihist'.unnoted
        /\ ihist'.wrong = ihist.wrong /\ ihist'.misled = ihist.misled
    <3>1. CASE MutexWrite(p)
      BY <3>1 DEF MutexWrite
    <3>2. CASE MutexFails(p) /\ At(p, "write")
      <4>1. ihist' = [Failed(ihist) EXCEPT !.unnoted = ihist.unnoted \cup {p}]
        BY <3>2, FailedKeeps DEF MutexFails
      <4>2. QED
        BY <4>1, FailedKeeps
    <3>3. QED
      BY <1>4, <3>1, <3>2
  <2>c. /\ DOMAIN ifile' = DOMAIN ifile /\ ifile'.info = ifile.info /\ ifile'.pid = pid
        /\ ifile'.lock = IF ClosesFile(p) /\ ifile.lock = p THEN 0 ELSE ifile.lock
        /\ iproc' = [iproc EXCEPT ![p].pc = "mutexed", ![p].status = "none"]
    BY <2>a DEF MutexEnds, Released
  <2>d. ifile.lock = p /\ \A q \in ProcIds \ {p} : ~PastMutex(q)
    BY <2>a DEF LockInv
  <2>e. pid = 0 \/ pid = p \/ iproc[pid].role \notin {"free", "server"}
    BY <2>a, <2>d DEF LockInv, InstanceTypeOK, PastMutex
  <2>1. InstanceTypeOK'
    BY <2>a, <2>b, <2>c, <2>d, <2>e DEF InstanceTypeOK
  <2>2. InstanceShape'
    BY <2>a, <2>b, <2>c, <2>d, <2>e DEF InstanceTypeOK
  <2>3. InstanceRoles'
    BY <2>a, <2>b, <2>c, <2>d, <2>e DEF InstanceRoles, NotPulledUp
  <2>4. NotPulledUp'
    BY <2>a, <2>b, <2>c, <2>d, <2>e DEF InstanceRoles, NotPulledUp
  <2>5. LockInv'
    BY <2>a, <2>b, <2>c, <2>d, <2>e DEF LockInv, InstanceRoles, NotPulledUp, PastMutex, ClosesFile
  <2>6. FoundInv'
    BY <2>a, <2>b, <2>c, <2>d, <2>e DEF LockInv, InstanceRoles, NotPulledUp, FoundInv, PastMutex
  <2>7. InfoFits(ifile.info)' /\ \A q \in ProcIds : InfoFits(iproc[q].seen)'
    BY <2>a, <2>b, <2>c, <2>d, <2>e DEF InstanceTypeOK, InstanceRoles, NotPulledUp, LockInv, InfoFits, PastMutex
  <2>8. FoundServerIsMeant'
    BY <2>a, <2>b, <2>c, <2>d, <2>e DEF FoundServerIsMeant
  <2>9. QED
    BY <2>1, <2>2, <2>3, <2>4, <2>5, <2>6, <2>7, <2>8 DEF InstanceInv
<1>5. ASSUME NEW p \in ProcIds, RunClientMode(p) PROVE InstanceInv'
  <2>a. PICK pc \in {"end", "pullup", "getpid", "connect"} : iproc' = [iproc EXCEPT ![p].pc = pc]
    <3>1. {ChannelCtrlServer(p), KillServer(p)} \subseteq {"end", "pullup", "getpid"}
      BY DEF ChannelCtrlServer, KillServer
    <3>2. QED
      BY <1>5, <3>1 DEF RunClientMode
  <2>b. At(p, "mutexed") /\ iproc[p].role = "client" /\ iproc[p].goal = "start" /\ UNCHANGED <<ifile, ihist>>
    BY <1>5 DEF RunClientMode
  <2>1. InstanceTypeOK'
    BY <2>a, <2>b DEF InstanceTypeOK
  <2>2. InstanceShape'
    BY <2>a, <2>b DEF InstanceTypeOK
  <2>3. InstanceRoles'
    BY <2>a, <2>b DEF InstanceRoles, NotPulledUp
  <2>4. NotPulledUp'
    BY <2>a, <2>b DEF InstanceRoles, NotPulledUp
  <2>5. LockInv'
    BY <2>a, <2>b DEF LockInv, InstanceRoles, NotPulledUp, PastMutex
  <2>6. FoundInv'
    BY <2>a, <2>b DEF LockInv, InstanceRoles, NotPulledUp, FoundInv, PastMutex
  <2>7. InfoFits(ifile.info)' /\ \A q \in ProcIds : InfoFits(iproc[q].seen)'
    BY <2>a, <2>b DEF InstanceTypeOK, InstanceRoles, NotPulledUp, LockInv, InfoFits, PastMutex
  <2>8. FoundServerIsMeant'
    BY <2>b DEF FoundServerIsMeant
  <2>9. QED
    BY <2>1, <2>2, <2>3, <2>4, <2>5, <2>6, <2>7, <2>8 DEF InstanceInv
<1>6. ASSUME NEW p \in ProcIds, GetLastPID(p) PROVE InstanceInv'
  <2>1. InstanceTypeOK'
    BY <1>6 DEF GetLastPID, InstanceTypeOK
  <2>2. InstanceShape'
    BY <1>6 DEF GetLastPID, InstanceTypeOK
  <2>3. InstanceRoles'
    BY <1>6 DEF GetLastPID, InstanceRoles, NotPulledUp
  <2>4. NotPulledUp'
    BY <1>6 DEF GetLastPID, InstanceRoles, NotPulledUp
  <2>5. LockInv'
    BY <1>6 DEF GetLastPID, LockInv, InstanceRoles, NotPulledUp, PastMutex
  <2>6. FoundInv'
    BY <1>6 DEF GetLastPID, LockInv, InstanceRoles, NotPulledUp, FoundInv, PastMutex
  <2>7. InfoFits(ifile.info)' /\ \A q \in ProcIds : InfoFits(iproc[q].seen)'
    BY <1>6 DEF GetLastPID, InstanceTypeOK, InstanceRoles, NotPulledUp, LockInv, InfoFits, PastMutex
  <2>8. FoundServerIsMeant'
    BY <1>6 DEF GetLastPID, FoundServerIsMeant
  <2>9. QED
    BY <2>1, <2>2, <2>3, <2>4, <2>5, <2>6, <2>7, <2>8 DEF InstanceInv
<1>7. ASSUME NEW p \in ProcIds, KillMethodByUv(p) PROVE InstanceInv'
  <2> DEFINE v == iproc[p].victim
             h == iproc[p].holder
  <2>a. v \in ProcIds /\ iproc[p].pc = "kill" /\ ~iproc[p].dying /\ UNCHANGED ifile
    BY <1>7 DEF KillMethodByUv
  <2>b. /\ DOMAIN iproc' = ProcIds
        /\ \A q \in ProcIds :
             /\ DOMAIN iproc'[q] = DOMAIN iproc[q]
             /\ iproc'[q].role = iproc[q].role /\ iproc'[q].ep = iproc[q].ep
             /\ iproc'[q].goal = iproc[q].goal /\ iproc'[q].status = iproc[q].status
             /\ iproc'[q].victim = iproc[q].victim /\ iproc'[q].holder = iproc[q].holder
             /\ iproc'[q].seen = iproc[q].seen
             /\ q # p => iproc'[q].pc = iproc[q].pc
             /\ iproc[q].role = "free" /\ iproc'[q].dying => iproc[q].dying
        /\ iproc'[p].pc \in {"pullup", "end"}
    <3> DEFINE b == iproc[v].dying \/ iproc[v].role \in {"client", "server"}
    <3>1. PICK pc \in {"pullup", "end"} : iproc' = [iproc EXCEPT ![v].dying = b, ![p].pc = pc]
      BY <1>7 DEF KillMethodByUv
    <3>2. iproc[v].role = "free" => (b <=> iproc[v].dying)
      OBVIOUS
    <3> HIDE DEF b
    <3>3. QED
      BY <3>1, <3>2, <2>a
  <2>c. DOMAIN ihist' = DOMAIN ihist /\ ihist'.unnoted = ihist.unnoted
    BY <1>7 DEF KillMethodByUv
  <2>1. InstanceTypeOK'
    BY <2>a, <2>b, <2>c DEF InstanceTypeOK
  <2>2. InstanceShape'
    BY <2>a, <2>b, <2>c DEF InstanceTypeOK
  <2>3. InstanceRoles'
    BY <2>a, <2>b, <2>c DEF InstanceRoles, NotPulledUp
  <2>4. NotPulledUp'
    BY <2>a, <2>b, <2>c DEF InstanceRoles, NotPulledUp
  <2>5. LockInv'
    BY <2>a, <2>b, <2>c DEF LockInv, InstanceRoles, NotPulledUp, PastMutex
  <2>6. FoundInv'
    BY <2>a, <2>b, <2>c DEF LockInv, InstanceRoles, NotPulledUp, FoundInv, PastMutex
  <2>7. InfoFits(ifile.info)' /\ \A q \in ProcIds : InfoFits(iproc[q].seen)'
    BY <2>a, <2>b, <2>c DEF InstanceTypeOK, InstanceRoles, NotPulledUp, LockInv, InfoFits, PastMutex
  <2>8. FoundServerIsMeant'
    <3>1. ~(h # 0 /\ Lives(h) /\ v # h)
      BY <2>a DEF FoundInv
    <3>2. ~ihist'.wrong /\ ~ihist'.misled
      BY <1>7, <3>1 DEF KillMethodByUv, FoundServerIsMeant
    <3>3. QED
      BY <3>2 DEF FoundServerIsMeant
  <2>9. QED
    BY <2>1, <2>2, <2>3, <2>4, <2>5, <2>6, <2>7, <2>8 DEF InstanceInv
<1>8. ASSUME NEW p \in ProcIds, PullupServer(p) PROVE InstanceInv'
  <2>a. p \in 1..InstanceClients /\ iproc[p].pc = "pullup" /\ ~iproc[p].dying /\ UNCHANGED ifile
    BY <1>8 DEF PullupServer, InstanceRoles
  <2>b. iproc[FirstServer + p].role = "free" /\ FirstServer + p # p
    <3>1. FirstServer + p # p
      BY <2>a
    <3>2. QED
      BY <2>a, <3>1 DEF NotPulledUp
  <2>8. FoundServerIsMeant' /\ DOMAIN ihist' = DOMAIN ihist /\ ihist'.unnoted = ihist.unnoted
    BY <1>8, FailedKeeps DEF PullupServer, FoundServerIsMeant
  <2>c. PICK pc \in {"connect", "end"} :
          \/ iproc' = [iproc EXCEPT ![p].pc = pc, ![FirstServer + p] = Process("server", "none", iproc[p].ep, "mutex")]
          \/ iproc' = [iproc EXCEPT ![p].pc = pc]
    BY <1>8 DEF PullupServer
  <2>d. CASE iproc' = [iproc EXCEPT ![p].pc = pc]
    <3>1. InstanceTypeOK'
      BY <2>a, <2>8, <2>d DEF InstanceTypeOK
    <3>2. InstanceShape'
      BY <2>a, <2>8, <2>d DEF InstanceTypeOK
    <3>3. InstanceRoles'
      BY <2>a, <2>8, <2>d DEF InstanceRoles, NotPulledUp
    <3>4. NotPulledUp'
      BY <2>a, <2>8, <2>d DEF InstanceRoles, NotPulledUp
    <3>5. LockInv'
      BY <2>a, <2>8, <2>d DEF LockInv, InstanceRoles, NotPulledUp, PastMutex
    <3>6. FoundInv'
      BY <2>a, <2>8, <2>d DEF LockInv, InstanceRoles, NotPulledUp, FoundInv, PastMutex
    <3>7. InfoFits(ifile.info)' /\ \A q \in ProcIds : InfoFits(iproc[q].seen)'
      BY <2>a, <2>8, <2>d DEF InstanceTypeOK, InstanceRoles, NotPulledUp, LockInv, InfoFits, PastMutex
    <3>9. QED
      BY <3>1, <3>2, <3>3, <3>4, <3>5, <3>6, <3>7, <2>8 DEF InstanceInv
  <2>e. CASE iproc' = [iproc EXCEPT ![p].pc = pc, ![FirstServer + p] = Process("server", "none", iproc[p].ep, "mutex")]
    <3> DEFINE n == FirstServer + p
    <3>a. /\ DOMAIN iproc' = ProcIds /\ n \in ProcIds /\ n \notin 1..InstanceClients
          /\ \A q \in ProcIds \ {p, n} : iproc'[q] = iproc[q]
          /\ iproc'[p] = [iproc[p] EXCEPT !.pc = pc]
          /\ iproc'[n] = Process("server", "none", iproc[p].ep, "mutex")
      BY <2>a, <2>b, <2>e
    <3>b. /\ DOMAIN iproc'[n] = DOMAIN iproc[p] /\ iproc'[n].role = "server" /\ iproc'[n].pc = "mutex"
          /\ iproc'[n].ep = iproc[p].ep /\ iproc'[n].holder = 0 /\ iproc'[n].victim = 0
          /\ iproc'[n].seen = NoInfo /\ iproc'[n].status = "none"
      BY <3>a DEF Process, Free
    <3>c. NoInfo.pid = 0 /\ NoInfo \in [pid : {0} \cup ProcIds, ep : Endpoints \cup {NoInfo.ep}]
      BY DEF NoInfo
    <3>d. \A q \in 1..InstanceClients : q # p => FirstServer + q # n /\ FirstServer + q # p
      BY <2>a
    <3>e. iproc[n].role = "free"
      BY <2>b
    <3> HIDE DEF n
    <3>1. InstanceTypeOK'
      BY <2>a, <2>8, <3>a, <3>b, <3>c, <3>d, <3>e DEF InstanceTypeOK
    <3>2. InstanceShape'
      BY <2>a, <2>8, <3>a, <3>b, <3>c, <3>d, <3>e DEF InstanceTypeOK
    <3>3. InstanceRoles'
      BY <2>a, <2>8, <3>a, <3>b, <3>c, <3>d, <3>e DEF InstanceRoles, NotPulledUp
    <3>4. NotPulledUp'
      BY <2>a, <2>8, <3>a, <3>b, <3>c, <3>d, <3>e DEF InstanceRoles, NotPulledUp
    <3>5. LockInv'
      BY <2>a, <2>8, <3>a, <3>b, <3>c, <3>d, <3>e DEF LockInv, InstanceRoles, NotPulledUp, PastMutex
    <3>6. FoundInv'
      BY <2>a, <2>8, <3>a, <3>b, <3>c, <3>d, <3>e DEF LockInv, InstanceRoles, NotPulledUp, FoundInv, PastMutex
    <3>7. InfoFits(ifile.info)' /\ \A q \in ProcIds : InfoFits(iproc[q].seen)'
      BY <2>a, <2>8, <3>a, <3>b, <3>c, <3>d, <3>e DEF InstanceTypeOK, InstanceRoles, NotPulledUp, LockInv, InfoFits, PastMutex
    <3>9. QED
      BY <3>1, <3>2, <3>3, <3>4, <3>5, <3>6, <3>7, <2>8 DEF InstanceInv
  <2>9. QED
    BY <2>c, <2>d, <2>e
<1>9. ASSUME NEW p \in ProcIds, ConnectServer(p) PROVE InstanceInv'
  <2>1. InstanceTypeOK'
    BY <1>9 DEF ConnectServer, InstanceTypeOK
  <2>2. InstanceShape'
    BY <1>9 DEF ConnectServer, InstanceTypeOK
  <2>3. InstanceRoles'
    BY <1>9 DEF ConnectServer, InstanceRoles, NotPulledUp
  <2>4. NotPulledUp'
    BY <1>9 DEF ConnectServer, InstanceRoles, NotPulledUp
  <2>5. LockInv'
    BY <1>9 DEF ConnectServer, LockInv, InstanceRoles, NotPulledUp, PastMutex
  <2>6. FoundInv'
    BY <1>9 DEF ConnectServer, LockInv, InstanceRoles, NotPulledUp, FoundInv, PastMutex
  <2>7. InfoFits(ifile.info)' /\ \A q \in ProcIds : InfoFits(iproc[q].seen)'
    BY <1>9 DEF ConnectServer, InstanceTypeOK, InstanceRoles, NotPulledUp, LockInv, InfoFits, PastMutex
  <2>8. FoundServerIsMeant'
    BY <1>9 DEF ConnectServer, FoundServerIsMeant
  <2>9. QED
    BY <2>1, <2>2, <2>3, <2>4, <2>5, <2>6, <2>7, <2>8 DEF InstanceInv
<1>10. ASSUME NEW p \in ProcIds, PrintConnectionError(p) PROVE InstanceInv'
  <2>1. InstanceTypeOK'
    BY <1>10 DEF PrintConnectionError, InstanceTypeOK
  <2>2. InstanceShape'
    BY <1>10 DEF PrintConnectionError, InstanceTypeOK
  <2>3. InstanceRoles'
    BY <1>10 DEF PrintConnectionError, InstanceRoles, NotPulledUp
  <2>4. NotPulledUp'
    BY <1>10 DEF PrintConnectionError, InstanceRoles, NotPulledUp
  <2>5. LockInv'
    BY <1>10 DEF PrintConnectionError, LockInv, InstanceRoles, NotPulledUp, PastMutex
  <2>6. FoundInv'
    BY <1>10 DEF PrintConnectionError, LockInv, InstanceRoles, NotPulledUp, FoundInv, PastMutex
  <2>7. InfoFits(ifile.info)' /\ \A q \in ProcIds : InfoFits(iproc[q].seen)'
    BY <1>10 DEF PrintConnectionError, InstanceTypeOK, InstanceRoles, NotPulledUp, LockInv, InfoFits, PastMutex
  <2>8. FoundServerIsMeant'
    BY <1>10 DEF PrintConnectionError, FoundServerIsMeant
  <2>9. QED
    BY <2>1, <2>2, <2>3, <2>4, <2>5, <2>6, <2>7, <2>8 DEF InstanceInv
<1>11. ASSUME NEW p \in ProcIds, InspectInfo(p) PROVE InstanceInv'
  <2>1. InstanceTypeOK'
    BY <1>11 DEF InspectInfo, InstanceTypeOK
  <2>2. InstanceShape'
    BY <1>11 DEF InspectInfo, InstanceTypeOK
  <2>3. InstanceRoles'
    BY <1>11 DEF InspectInfo, InstanceRoles, NotPulledUp
  <2>4. NotPulledUp'
    BY <1>11 DEF InspectInfo, InstanceRoles, NotPulledUp
  <2>5. LockInv'
    BY <1>11 DEF InspectInfo, LockInv, InstanceRoles, NotPulledUp, PastMutex
  <2>6. FoundInv'
    BY <1>11 DEF InspectInfo, LockInv, InstanceRoles, NotPulledUp, FoundInv, PastMutex
  <2>7. InfoFits(ifile.info)' /\ \A q \in ProcIds : InfoFits(iproc[q].seen)'
    BY <1>11 DEF InspectInfo, InstanceTypeOK, InstanceRoles, NotPulledUp, LockInv, InfoFits, PastMutex
  <2>8. FoundServerIsMeant'
    BY <1>11 DEF InspectInfo, FoundServerIsMeant
  <2>9. QED
    BY <2>1, <2>2, <2>3, <2>4, <2>5, <2>6, <2>7, <2>8 DEF InstanceInv
<1>12. ASSUME NEW p \in ProcIds, InspectServerInstance(p) PROVE InstanceInv'
  <2>1. InstanceTypeOK'
    BY <1>12 DEF InspectServerInstance, InfoIsCurrent, InstanceTypeOK
  <2>2. InstanceShape'
    BY <1>12 DEF InspectServerInstance, InfoIsCurrent, InstanceTypeOK
  <2>3. InstanceRoles'
    BY <1>12 DEF InspectServerInstance, InfoIsCurrent, InstanceRoles, NotPulledUp
  <2>4. NotPulledUp'
    BY <1>12 DEF InspectServerInstance, InfoIsCurrent, InstanceRoles, NotPulledUp
  <2>5. LockInv'
    BY <1>12 DEF InspectServerInstance, InfoIsCurrent, LockInv, InstanceRoles, NotPulledUp, PastMutex
  <2>6. FoundInv'
    BY <1>12 DEF InspectServerInstance, InfoIsCurrent, LockInv, InstanceRoles, NotPulledUp, FoundInv, PastMutex
  <2>7. InfoFits(ifile.info)' /\ \A q \in ProcIds : InfoFits(iproc[q].seen)'
    BY <1>12 DEF InspectServerInstance, InfoIsCurrent, InstanceTypeOK, InstanceRoles, NotPulledUp, LockInv, InfoFits, PastMutex
  <2>8. FoundServerIsMeant'
    <3> DEFINE h == iproc[p].holder
               i == iproc[p].seen
    <3>1. ~(InfoIsCurrent(i) /\ h # 0 /\ Lives(h) /\ iproc[h].ep # i.ep)
      BY <1>12 DEF InspectServerInstance, InfoIsCurrent, FoundInv, LockInv, InfoFits, PastMutex
    <3>2. ~ihist'.wrong /\ ~ihist'.misled
      BY <1>12, <3>1 DEF InspectServerInstance, FoundServerIsMeant
    <3>3. QED
      BY <3>2 DEF FoundServerIsMeant
  <2>9. QED
    BY <2>1, <2>2, <2>3, <2>4, <2>5, <2>6, <2>7, <2>8 DEF InstanceInv
<1>13. ASSUME NEW p \in ProcIds, InitialServer(p) PROVE InstanceInv'
  <2>a. /\ DOMAIN ihist' = DOMAIN ihist /\ ihist'.unnoted = ihist.unnoted
        /\ ihist'.wrong = ihist.wrong /\ ihist'.misled = ihist.misled
    BY <1>13, FailedKeeps DEF InitialServer
  <2>1. InstanceTypeOK'
    BY <1>13 DEF InitialServer, InstanceTypeOK
  <2>2. InstanceShape'
    BY <1>13, <2>a DEF InitialServer
  <2>3. InstanceRoles'
    BY <1>13 DEF InitialServer, InstanceRoles, NotPulledUp
  <2>4. NotPulledUp'
    BY <1>13 DEF InitialServer, InstanceRoles, NotPulledUp
  <2>5. LockInv'
    BY <1>13, <2>a DEF InitialServer, LockInv, InstanceRoles, NotPulledUp, PastMutex
  <2>6. FoundInv'
    BY <1>13, <2>a DEF InitialServer, LockInv, InstanceRoles, NotPulledUp, FoundInv, PastMutex
  <2>7. InfoFits(ifile.info)' /\ \A q \in ProcIds : InfoFits(iproc[q].seen)'
    BY <1>13 DEF InitialServer, InstanceTypeOK, InstanceRoles, NotPulledUp, LockInv, InfoFits, PastMutex
  <2>8. FoundServerIsMeant'
    BY <2>a DEF FoundServerIsMeant
  <2>9. QED
    BY <2>1, <2>2, <2>3, <2>4, <2>5, <2>6, <2>7, <2>8 DEF InstanceInv
<1>14. ASSUME NEW p \in ProcIds, RunServerMode(p) PROVE InstanceInv'
  <2>1. InstanceTypeOK'
    BY <1>14 DEF RunServerMode, WriteServerInstanceInfo, InstanceTypeOK
  <2>2. InstanceShape'
    BY <1>14 DEF RunServerMode, WriteServerInstanceInfo, InstanceTypeOK
  <2>3. InstanceRoles'
    BY <1>14 DEF RunServerMode, WriteServerInstanceInfo, InstanceRoles, NotPulledUp
  <2>4. NotPulledUp'
    BY <1>14 DEF RunServerMode, WriteServerInstanceInfo, InstanceRoles, NotPulledUp
  <2>5. LockInv'
    BY <1>14 DEF RunServerMode, WriteServerInstanceInfo, LockInv, InstanceRoles, NotPulledUp, PastMutex
  <2>6. FoundInv'
    BY <1>14 DEF RunServerMode, WriteServerInstanceInfo, LockInv, InstanceRoles, NotPulledUp, FoundInv, PastMutex
  <2>7. InfoFits(ifile.info)' /\ \A q \in ProcIds : InfoFits(iproc[q].seen)'
    BY <1>14 DEF RunServerMode, WriteServerInstanceInfo, InstanceTypeOK, InstanceRoles, NotPulledUp, LockInv, InfoFits, PastMutex
  <2>8. FoundServerIsMeant'
    BY <1>14 DEF RunServerMode, WriteServerInstanceInfo, FoundServerIsMeant
  <2>9. QED
    BY <2>1, <2>2, <2>3, <2>4, <2>5, <2>6, <2>7, <2>8 DEF InstanceInv
<1>15. ASSUME NEW p \in ProcIds, ProcessEnds(p) PROVE InstanceInv'
  <2>1. InstanceTypeOK'
    BY <1>15 DEF ProcessEnds, Free, NoInfo, Released, InstanceTypeOK
  <2>2. InstanceShape'
    BY <1>15 DEF ProcessEnds, Free, NoInfo, Released, InstanceTypeOK
  <2>3. InstanceRoles'
    BY <1>15 DEF ProcessEnds, Free, NoInfo, Released, InstanceRoles, NotPulledUp
  <2>4. NotPulledUp'
    BY <1>15 DEF ProcessEnds, Free, NoInfo, Released, InstanceRoles, NotPulledUp
  <2>5. LockInv'
    BY <1>15 DEF ProcessEnds, Free, NoInfo, Released, LockInv, InstanceRoles, NotPulledUp, PastMutex
  <2>6. FoundInv'
    BY <1>15 DEF ProcessEnds, Free, NoInfo, Released, LockInv, InstanceRoles, NotPulledUp, FoundInv, PastMutex
  <2>7. InfoFits(ifile.info)' /\ \A q \in ProcIds : InfoFits(iproc[q].seen)'
    BY <1>15 DEF ProcessEnds, Free, NoInfo, Released, InstanceTypeOK, InstanceRoles, NotPulledUp, LockInv, InfoFits, PastMutex
  <2>8. FoundServerIsMeant'
    BY <1>15 DEF ProcessEnds, Free, NoInfo, Released, FoundServerIsMeant
  <2>9. QED
    BY <2>1, <2>2, <2>3, <2>4, <2>5, <2>6, <2>7, <2>8 DEF InstanceInv
<1>16. ASSUME NEW p \in ProcIds, ClientFinishes(p) PROVE InstanceInv'
  <2>1. InstanceTypeOK'
    BY <1>16 DEF ClientFinishes, InstanceTypeOK
  <2>2. InstanceShape'
    BY <1>16 DEF ClientFinishes, InstanceTypeOK
  <2>3. InstanceRoles'
    BY <1>16 DEF ClientFinishes, InstanceRoles, NotPulledUp
  <2>4. NotPulledUp'
    BY <1>16 DEF ClientFinishes, InstanceRoles, NotPulledUp
  <2>5. LockInv'
    BY <1>16 DEF ClientFinishes, LockInv, InstanceRoles, NotPulledUp, PastMutex
  <2>6. FoundInv'
    BY <1>16 DEF ClientFinishes, LockInv, InstanceRoles, NotPulledUp, FoundInv, PastMutex
  <2>7. InfoFits(ifile.info)' /\ \A q \in ProcIds : InfoFits(iproc[q].seen)'
    BY <1>16 DEF ClientFinishes, InstanceTypeOK, InstanceRoles, NotPulledUp, LockInv, InfoFits, PastMutex
  <2>8. FoundServerIsMeant'
    BY <1>16 DEF ClientFinishes, FoundServerIsMeant
  <2>9. QED
    BY <2>1, <2>2, <2>3, <2>4, <2>5, <2>6, <2>7, <2>8 DEF InstanceInv
<1>17. ASSUME NEW p \in ProcIds, MutexFails(p), ~At(p, "write") PROVE InstanceInv'
  <2>a. /\ DOMAIN ihist' = DOMAIN ihist /\ ihist'.unnoted = ihist.unnoted
        /\ ihist'.wrong = ihist.wrong /\ ihist'.misled = ihist.misled
    BY <1>17, FailedKeeps DEF MutexFails
  <2>b. /\ UNCHANGED ifile
        /\ \/ At(p, "mutex") /\ \E s \in {"error", "exists"} : iproc' = [iproc EXCEPT ![p].pc = "mutexed", ![p].status = s]
           \/ At(p, "truncate") /\ iproc' = [iproc EXCEPT ![p].pc = "write"]
    BY <1>17 DEF MutexFails
  <2>1. InstanceTypeOK'
    BY <2>a, <2>b DEF InstanceTypeOK
  <2>2. InstanceShape'
    BY <2>a, <2>b DEF InstanceTypeOK
  <2>3. InstanceRoles'
    BY <2>a, <2>b DEF InstanceRoles, NotPulledUp
  <2>4. NotPulledUp'
    BY <2>a, <2>b DEF InstanceRoles, NotPulledUp
  <2>5. LockInv'
    BY <2>a, <2>b DEF LockInv, InstanceRoles, NotPulledUp, PastMutex
  <2>6. FoundInv'
    BY <2>a, <2>b DEF LockInv, InstanceRoles, NotPulledUp, FoundInv, PastMutex
  <2>7. InfoFits(ifile.info)' /\ \A q \in ProcIds : InfoFits(iproc[q].seen)'
    BY <2>a, <2>b DEF InstanceTypeOK, InstanceRoles, NotPulledUp, LockInv, InfoFits, PastMutex
  <2>8. FoundServerIsMeant'
    BY <2>a, <2>b DEF FoundServerIsMeant
  <2>9. QED
    BY <2>1, <2>2, <2>3, <2>4, <2>5, <2>6, <2>7, <2>8 DEF InstanceInv
<1>18. ASSUME NEW p \in ProcIds, UserKills(p) PROVE InstanceInv'
  <2>1. InstanceTypeOK'
    BY <1>18 DEF UserKills, InstanceTypeOK
  <2>2. InstanceShape'
    BY <1>18 DEF UserKills, InstanceTypeOK
  <2>3. InstanceRoles'
    BY <1>18 DEF UserKills, InstanceRoles, NotPulledUp
  <2>4. NotPulledUp'
    BY <1>18 DEF UserKills, InstanceRoles, NotPulledUp
  <2>5. LockInv'
    BY <1>18 DEF UserKills, LockInv, InstanceRoles, NotPulledUp, PastMutex
  <2>6. FoundInv'
    BY <1>18 DEF UserKills, LockInv, InstanceRoles, NotPulledUp, FoundInv, PastMutex
  <2>7. InfoFits(ifile.info)' /\ \A q \in ProcIds : InfoFits(iproc[q].seen)'
    BY <1>18 DEF UserKills, InstanceTypeOK, InstanceRoles, NotPulledUp, LockInv, InfoFits, PastMutex
  <2>8. FoundServerIsMeant'
    BY <1>18 DEF UserKills, FoundServerIsMeant
  <2>9. QED
    BY <2>1, <2>2, <2>3, <2>4, <2>5, <2>6, <2>7, <2>8 DEF InstanceInv
<1>19. CASE UNCHANGED instanceVars
  BY <1>19 DEF instanceVars, InstanceInv, InstanceTypeOK, InstanceRoles, NotPulledUp, LockInv, FoundInv, InfoFits, PastMutex, FoundServerIsMeant
<1>20. QED
  BY <1>1, <1>2, <1>3, <1>4, <1>5, <1>6, <1>7, <1>8, <1>9, <1>10, <1>11, <1>12, <1>13, <1>14, <1>15, <1>16, <1>17, <1>18, <1>19
     DEF InstanceNext, InstanceStep

\* InstanceSafe for any number of clients: one server at a time, and a command that
\* means it meets it, however clients start, restart and kill servers.
THEOREM InstancesSafe == InstanceSpec => []InstanceSafe
<1>1. InstanceInv => InstanceSafe
  BY DEF InstanceInv, InstanceSafe, OneServer, LockInv, InstanceRoles, PastMutex
<1>2. QED
  BY <1>1, InstanceInitInv, InstanceStepInv, PTL DEF InstanceSpec

-----------------------------------------------------------------------------
(* The key files                                                           *)

USE DEF KeyContent, KeyActors, KeyGenerating, KeyFile, NoFile, KeyIdle

\* The order in which the actors write the files.
LEMMA GenerateKeyPairOrder ==
    /\ GenerateKeyPair("keygen", "begin") = "priv"
    /\ GenerateKeyPair("keygen", "private") = "pub" /\ GenerateKeyPair("keygen", "public") = "done"
    /\ GenerateKeyPair("main", "private") = "up" /\ GenerateKeyPair("main", "public") = "priv"
    /\ \A w \in KeyWorkers : /\ GenerateKeyPair(w, "begin") = "pub" /\ GenerateKeyPair(w, "private") = "load"
                             /\ GenerateKeyPair(w, "public") = "priv" /\ KeyGivesUp(w) = "failed"
    /\ KeyGivesUp("main") = "start" /\ KeyGivesUp("keygen") = "done"
  BY KeyNames DEF GenerateKeyPair, KeyGivesUp

\* The first states of the key files satisfy the inductive invariant.
LEMMA KeyInitInv == KeyInit => KeyInv
<1> SUFFICES ASSUME KeyInit PROVE KeyInv
  OBVIOUS
<1>1. KeyTypeOK
  BY KeyBounds, KeyNames DEF KeyInit, KeyTypeOK
<1>2. KeyOneWriter
  BY KeyNames DEF KeyInit, KeyOneWriter
<1>3. KeyFilesFit
  BY KeyNames DEF KeyInit, KeyFilesFit, DecryptPwd
<1>4. \A w \in KeyWorkers : KeyHalfWritten(w) /\ KeyWorkerSent(w)
  BY KeyNames DEF KeyInit, KeyHalfWritten, KeyWorkerSent
<1>5. QED
  BY <1>1, <1>2, <1>3, <1>4 DEF KeyInv

\* Types are kept by every step.
LEMMA KeyTypeStep == KeyTypeOK /\ [KeyNext]_keyVars => KeyTypeOK'
<1> SUFFICES ASSUME KeyTypeOK, [KeyNext]_keyVars PROVE KeyTypeOK'
  OBVIOUS
<1> USE KeyBounds, KeyNames, GenerateKeyPairOrder DEF KeyTypeOK, KeyAt
<1>1. CASE CheckPrivateKeyFile
  <2>1. CASE UNCHANGED khist
    BY <1>1, <2>1 DEF CheckPrivateKeyFile, GenerateNewKey
  <2>2. CASE khist' = [khist EXCEPT !.keys = @ + 1, !.reencrypted = TRUE]
    BY <1>1, <2>2 DEF CheckPrivateKeyFile, GenerateNewKey
  <2>3. QED
    BY <1>1, <2>1, <2>2 DEF CheckPrivateKeyFile
<1>2. CASE KeygenStarts
  BY <1>2 DEF KeygenStarts, GenerateNewKey
<1>3. CASE KeyServerDies
  BY <1>3 DEF KeyServerDies, KeyFault
<1>4. ASSUME NEW a \in KeyActors, KeyCallFails(a) PROVE KeyTypeOK'
  BY <1>4 DEF KeyCallFails, KeyFault
<1>4a. ASSUME NEW a \in KeyActors, KeyWriteLost(a) PROVE KeyTypeOK'
  BY <1>4a DEF KeyWriteLost, KeyFault, AfterPrivate
<1>5. ASSUME NEW a \in KeyActors, OpenPublicFile(a) \/ OpenPrivateFile(a) PROVE KeyTypeOK'
  BY <1>5 DEF OpenPublicFile, OpenPrivateFile
<1>6. ASSUME NEW a \in KeyActors, WritePublicFile(a) \/ WritePrivateFile(a) \/ WritePrivatePwdFile(a)
      PROVE  KeyTypeOK'
  BY <1>6 DEF WritePublicFile, WritePrivateFile, AfterPrivate, WritePrivatePwdFile
<1>7. ASSUME NEW w \in KeyWorkers, TryLoadPublicKey(w) PROVE KeyTypeOK'
  <2>1. CASE UNCHANGED khist
    BY <1>7, <2>1 DEF TryLoadPublicKey, GenerateNewKey
  <2>2. CASE khist' = [khist EXCEPT !.keys = @ + 1, !.overlapped = @ \/ Others(w)]
    BY <1>7, <2>2 DEF TryLoadPublicKey, GenerateNewKey
  <2>3. QED
    BY <1>7, <2>1, <2>2 DEF TryLoadPublicKey
<1>8. ASSUME NEW w \in KeyWorkers, LoadPublicKey(w) \/ LoadPrivateKey(w) PROVE KeyTypeOK'
  BY <1>8 DEF LoadPublicKey, LoadPrivateKey
<1>9. ASSUME NEW w \in KeyWorkers, AuthAgain(w) PROVE KeyTypeOK'
  BY <1>9 DEF AuthAgain
<1>10. CASE UNCHANGED keyVars
  BY <1>10 DEF keyVars
<1>11. QED
  BY <1>1, <1>2, <1>3, <1>4, <1>4a, <1>5, <1>6, <1>7, <1>8, <1>9, <1>10 DEF KeyNext

\* While nothing disturbs the keys, every step keeps the files and the workers
\* in line.
LEMMA KeyFitStep == KeyInv /\ [KeyNext]_keyVars => KeyInv'
<1> SUFFICES ASSUME KeyInv, [KeyNext]_keyVars, KeysOrdered'
             PROVE  /\ KeyOneWriter' /\ KeyFilesFit'
                    /\ \A w \in KeyWorkers : KeyHalfWritten(w)' /\ KeyWorkerSent(w)'
  BY KeyTypeStep DEF KeyInv
<1> DEFINE KeyInvNext == /\ KeyOneWriter' /\ KeyFilesFit'
                         /\ \A w \in KeyWorkers : KeyHalfWritten(w)' /\ KeyWorkerSent(w)'
           Undisturbed == KeyOneWriter /\ KeyFilesFit /\ \A w \in KeyWorkers : KeyHalfWritten(w) /\ KeyWorkerSent(w)
<1>0. KeyTypeOK /\ KeyTypeOK' /\ (KeysOrdered => Undisturbed)
  BY KeyTypeStep DEF KeyInv
<1>h. khist' = khist => Undisturbed
  BY <1>0 DEF KeysOrdered
<1> USE KeyNames, <1>0, GenerateKeyPairOrder DEF KeyTypeOK, KeyOneWriter, KeyFilesFit, KeyHalfWritten, KeyWorkerSent, DecryptPwd, KeyAt
<1>1. CASE CheckPrivateKeyFile
  <2>1. CASE ~kcfg.encrypt \/ kfile.priv.is # "plain"
    BY <1>1, <1>h, <2>1 DEF CheckPrivateKeyFile, IsEncryptedPEM
  <2>2. CASE kcfg.encrypt /\ kfile.priv.is = "plain"
    <3>1. khist' = [khist EXCEPT !.keys = @ + 1, !.reencrypted = TRUE]
      BY <1>1, <2>2 DEF CheckPrivateKeyFile, IsEncryptedPEM
    <3>2. QED
      BY <3>1 DEF KeysOrdered
  <2>3. QED
    BY <2>1, <2>2
<1>2. CASE KeygenStarts
  BY <1>2 DEF KeygenStarts, KeysOrdered
<1>3. CASE KeyServerDies
  <2>1. /\ KeysOrdered /\ (khist.torn => khist'.torn)
        /\ khist'.torn \/ \A a \in KeyActors \ {"keygen"} : kact[a].pc \notin {"privw", "pwd"}
    BY <1>3 DEF KeyServerDies, KeysOrdered
  <2>2. Undisturbed
    BY <2>1
  <2>3. /\ kact'["main"].pc = "start" /\ kact'["keygen"] = kact["keygen"]
        /\ \A w \in KeyWorkers : kact'[w].pc = "stat" /\ kact'[w].signed = 0
        /\ UNCHANGED <<kfile, kcfg>>
    BY <1>3 DEF KeyServerDies
  <2>4. ~khist'.torn => kfile.priv.is # "empty" /\ (kfile.priv.is = "enc" => kfile.pwd.key = kfile.priv.key)
    BY <2>1, <2>2
  <2>5. QED
    BY <2>2, <2>3, <2>1, <2>4
<1>4. ASSUME NEW a \in KeyActors, KeyCallFails(a) PROVE KeyInvNext
  <2>1. /\ KeysOrdered /\ (khist.torn => khist'.torn)
        /\ khist'.torn \/ kact[a].pc \notin {"privw", "pwd"}
    BY <1>4 DEF KeyCallFails, KeysOrdered
  <2>2. Undisturbed
    BY <2>1
  <2>3. QED
    BY <1>4, <2>1, <2>2 DEF KeyCallFails
<1>4a. ASSUME NEW a \in KeyActors, KeyWriteLost(a) PROVE KeyInvNext
  <2>1. KeysOrdered /\ khist'.torn /\ UNCHANGED kcfg
    BY <1>4a DEF KeyWriteLost, KeysOrdered
  <2>2. Undisturbed
    BY <2>1
  <2>3. a \in KeyWorkers
    BY <1>4a, <2>2 DEF KeyWriteLost
  <2>4. CASE KeyAt(a, "pubw")
    BY <1>4a, <2>1, <2>2, <2>3, <2>4 DEF KeyWriteLost
  <2>5. CASE KeyAt(a, "privw")
    BY <1>4a, <2>1, <2>2, <2>3, <2>5 DEF KeyWriteLost, AfterPrivate
  <2>6. CASE KeyAt(a, "pwd")
    BY <1>4a, <2>1, <2>2, <2>3, <2>6 DEF KeyWriteLost
  <2>7. QED
    BY <1>4a, <2>4, <2>5, <2>6 DEF KeyWriteLost
<1>5. ASSUME NEW a \in KeyActors, OpenPublicFile(a) \/ OpenPrivateFile(a) PROVE KeyInvNext
  BY <1>5, <1>h DEF OpenPublicFile, OpenPrivateFile
<1>6. ASSUME NEW a \in KeyActors, WritePublicFile(a) PROVE KeyInvNext
  BY <1>6, <1>h DEF WritePublicFile
<1>7. ASSUME NEW a \in KeyActors, WritePrivateFile(a) PROVE KeyInvNext
  BY <1>7, <1>h DEF WritePrivateFile, AfterPrivate
<1>8. ASSUME NEW a \in KeyActors, WritePrivatePwdFile(a) PROVE KeyInvNext
  BY <1>8, <1>h DEF WritePrivatePwdFile
<1>9. ASSUME NEW v \in KeyWorkers, TryLoadPublicKey(v) PROVE KeyInvNext
  <2>1. CASE kfile.priv.is # "none"
    BY <1>9, <1>h, <2>1 DEF TryLoadPublicKey
  <2>2. CASE kfile.priv.is = "none"
    <3>1. khist' = [khist EXCEPT !.keys = @ + 1, !.overlapped = @ \/ Others(v)]
      BY <1>9, <2>2 DEF TryLoadPublicKey
    <3>2. KeysOrdered /\ ~Others(v) /\ khist'.torn = khist.torn
      BY <3>1 DEF KeysOrdered
    <3>3. Undisturbed
      BY <3>2
    <3>4. QED
      BY <1>9, <2>2, <3>2, <3>3 DEF TryLoadPublicKey, Others
  <2>3. QED
    BY <2>1, <2>2
<1>10. ASSUME NEW v \in KeyWorkers, LoadPublicKey(v) PROVE KeyInvNext
  BY <1>10, <1>h DEF LoadPublicKey
<1>11. ASSUME NEW v \in KeyWorkers, LoadPrivateKey(v) PROVE KeyInvNext
  BY <1>11, <1>h DEF LoadPrivateKey, PrivateReadable
<1>12. ASSUME NEW v \in KeyWorkers, AuthAgain(v) PROVE KeyInvNext
  BY <1>12, <1>h DEF AuthAgain
<1>13. CASE UNCHANGED keyVars
  BY <1>13, <1>h DEF keyVars
<1>14. QED
  BY <1>1, <1>2, <1>3, <1>4, <1>4a, <1>5, <1>6, <1>7, <1>8, <1>9, <1>10, <1>11, <1>12, <1>13 DEF KeyNext

\* What a session sends and signs with fits, whatever the number of workers and
\* whichever call fails, noticed or not.
THEOREM KeysSafe == KeySpec => []KeySafe
<1>1. KeyInv => KeySafe
  BY KeyNames DEF KeyInv, KeySafe, KeyPairMatches, KeyOneWriter, KeyFilesFit, KeyWorkerSent, Others, PrivateReadable, KeyTypeOK, DecryptPwd
<1>2. QED
  BY <1>1, KeyInitInv, KeyFitStep, PTL DEF KeySpec

-----------------------------------------------------------------------------
(* The tasks of the sessions                                               *)

\* Sets of tasks are small enough for the counter.
LEMMA TaskSets ==
    ASSUME NEW T \in SUBSET Task
    PROVE  IsFiniteSet(T) /\ Cardinality(T) \in Nat /\ Cardinality(T) < CountMod
<1>1. IsFiniteSet(T) /\ Cardinality(T) <= Cardinality(Task)
  BY TaskAssumption, FS_Subset
<1>2. Cardinality(T) \in Nat /\ Cardinality(Task) \in Nat
  BY <1>1, TaskAssumption, FS_CardinalityType
<1>3. QED
  BY <1>1, <1>2, TaskAssumption

\* The counter arithmetic.
LEMMA Modulo ==
    ASSUME NEW n \in 0 .. CountMod - 1
    PROVE  /\ n % CountMod = n
           /\ Decremented(n) \in 0 .. CountMod - 1
           /\ n > 0 => Decremented(n) = n - 1
<1>1. CountMod \in Nat /\ CountMod > 0
  BY TaskAssumption, TaskSets, FS_CardinalityType
<1>2. n % CountMod = n
  BY <1>1
<1>3. n > 0 => (n + CountMod - 1) % CountMod = n - 1
  BY <1>1
<1>4. n = 0 => (n + CountMod - 1) % CountMod = CountMod - 1
  BY <1>1
<1>5. QED
  BY <1>1, <1>2, <1>3, <1>4 DEF Decremented

\* Counted is the number of tasks in the map.
LEMMA CountedIs ==
    ASSUME NEW s \in Session
    PROVE  Counted(s) = Cardinality(Tasks(s)) /\ Counted(s) \in 0 .. CountMod - 1
<1>1. Tasks(s) \in SUBSET Task
  BY DEF Tasks
<1>2. Cardinality(Tasks(s)) \in 0 .. CountMod - 1
  BY <1>1, TaskSets, TaskAssumption
<1>3. QED
  BY <1>2, Modulo DEF Counted

\* The initial states.
LEMMA InitTaskInv == Init => TaskInv
<1> SUFFICES ASSUME Init PROVE TaskInv
  OBVIOUS
<1> USE TaskAssumption
<1>1. CountMod > 0
  BY FS_CardinalityType
<1>2. TypeOK
  BY <1>1 DEF Init, TypeOK
<1>3. OneOwner /\ Created /\ StopBeforeRelease
  BY DEF Init, OneOwner, MapOwned, TimerOwned, OneChannel, Created,
         StopBeforeRelease
<1>4. LoneInv
  BY DEF Init, LoneInv, LoneOf
<1>5. QED
  BY <1>2, <1>3, <1>4 DEF TaskInv

\* What ClearOwnTasks does: it moves tasks from the map to the timers.
LEMMA ClearEffect ==
    ASSUME TypeOK, OneOwner, NEW s \in Session, NEW cs \in SUBSET Channel,
           ClearOwnTasks(s, cs), UNCHANGED <<info, owner>>
    PROVE  /\ mapTask' \in [Session -> [Channel -> Task \cup {NoTask}]]
           /\ timer' \in [Task -> BOOLEAN]
           /\ taskCount' \in 0 .. CountMod - 1
           /\ OneOwner'
           /\ \A c \in Channel : c \in cs => mapTask'[s][c] = NoTask
           /\ \A q \in Session : Tasks(q)' \subseteq Tasks(q)
<1> DEFINE out == {t \in Task : \E c \in cs : mapTask[s][c] = t}
<1>1. PICK lost \in SUBSET (out \cap TimerFails) :
        timer' = [t \in Task |-> timer[t] \/ t \in out \ lost]
  BY DEF ClearOwnTasks
<1>2. /\ mapTask' = [mapTask EXCEPT ![s] = [c \in Channel |->
                        IF c \in cs THEN NoTask ELSE mapTask[s][c]]]
      /\ taskCount' = Counted(s)
  BY DEF ClearOwnTasks, Erased
<1>3. /\ mapTask' \in [Session -> [Channel -> Task \cup {NoTask}]]
      /\ \A q \in Session, c \in Channel :
           mapTask'[q][c] = IF q = s /\ c \in cs THEN NoTask ELSE mapTask[q][c]
  BY <1>2 DEF TypeOK
<1>4. timer' \in [Task -> BOOLEAN] /\ \A t \in Task : timer'[t] => timer[t] \/ t \in out
  BY <1>1 DEF TypeOK
<1>5. taskCount' \in 0 .. CountMod - 1
  BY <1>2, CountedIs
<1>6. MapOwned'
  <2> SUFFICES ASSUME NEW q \in Session, NEW c \in Channel, mapTask'[q][c] # NoTask
               PROVE  LET t == mapTask'[q][c]
                      IN  info'[t] = "live" /\ owner'[t] = q /\ ~timer'[t]
    BY DEF MapOwned
  <2> DEFINE t == mapTask[q][c]
  <2>1. mapTask'[q][c] = t /\ t # NoTask /\ t \in Task /\ ~(q = s /\ c \in cs)
    BY <1>3 DEF TypeOK
  <2>2. info[t] = "live" /\ owner[t] = q /\ ~timer[t]
    BY <2>1 DEF OneOwner, MapOwned
  <2>3. t \notin out
    <3> SUFFICES ASSUME NEW d \in cs, mapTask[s][d] = t PROVE FALSE
      OBVIOUS
    <3>1. owner[t] = s
      BY <2>1 DEF OneOwner, MapOwned
    <3>2. q = s
      BY <2>2, <3>1
    <3>3. c = d
      BY <2>1, <3>2 DEF OneOwner, OneChannel
    <3>4. QED
      BY <2>1, <3>2, <3>3
  <2>4. ~timer'[t]
    BY <1>4, <2>1, <2>2, <2>3
  <2>5. QED
    BY <2>1, <2>2, <2>4
<1>7. TimerOwned'
  <2> SUFFICES ASSUME NEW t \in Task, timer'[t] PROVE info'[t] = "live"
    BY DEF TimerOwned
  <2>1. CASE timer[t]
    BY <2>1 DEF OneOwner, TimerOwned
  <2>2. CASE t \in out
    BY <2>2, TaskAssumption DEF OneOwner, MapOwned
  <2>3. QED
    BY <1>4, <2>1, <2>2
<1>8. OneChannel'
  BY <1>3 DEF OneOwner, OneChannel
<1>9. \A q \in Session : Tasks(q)' \subseteq Tasks(q)
  BY <1>3, TaskAssumption DEF Tasks
<1>10. QED
  BY <1>3, <1>4, <1>5, <1>6, <1>7, <1>8, <1>9 DEF OneOwner

\* What a tick of the clearing loop does.
LEMMA TickEffect ==
    ASSUME TypeOK, NEW s \in Session, ClearTick(s)
    PROVE  /\ UNCHANGED <<mapTask, info, obj, owner, busy, isCleared, taskCount,
                          disturbed>>
           /\ clearTaskTimes' \in [Session -> 0 .. ClearTimes]
           /\ \A q \in Session : clearTaskTimes'[q] =
                IF q = s THEN clearTaskTimes[s] + 1 ELSE clearTaskTimes[q]
           /\ loop[s] = "clear"
           /\ loop' \in [Session -> {"run", "clear", "closed"}]
           /\ \A q \in Session : q # s => loop'[q] = loop[q]
           /\ loop'[s] = "clear" \/ loop'[s] = "closed"
           /\ loop'[s] = "closed" => taskCount = 0 \/ clearTaskTimes'[s] >= ClearTimes
           /\ timer' \in [Task -> BOOLEAN]
           /\ \A t \in Task : timer'[t] => timer[t]
<1>1. /\ UNCHANGED <<mapTask, info, obj, owner, busy, isCleared, taskCount,
                     disturbed>>
      /\ loop[s] = "clear"
  BY DEF ClearTick
<1>2. /\ clearTaskTimes[s] < ClearTimes
      /\ clearTaskTimes' = [clearTaskTimes EXCEPT ![s] = clearTaskTimes[s] + 1]
  BY DEF ClearTick
<1>3. clearTaskTimes[s] \in 0 .. ClearTimes /\ ClearTimes \in Nat
  BY TaskAssumption DEF TypeOK
<1>4. clearTaskTimes[s] + 1 \in 0 .. ClearTimes
  BY <1>2, <1>3
<1>5. /\ clearTaskTimes' \in [Session -> 0 .. ClearTimes]
      /\ \A q \in Session : clearTaskTimes'[q] =
           IF q = s THEN clearTaskTimes[s] + 1 ELSE clearTaskTimes[q]
  BY <1>2, <1>4 DEF TypeOK
<1>6. CASE LetsGo(clearTaskTimes[s] + 1)
  <2>1. /\ loop' = [loop EXCEPT ![s] = "closed"]
        /\ timer' = [t \in Task |-> timer[t] /\ owner[t] # s]
    BY <1>6 DEF ClearTick
  <2>2. taskCount = 0 \/ clearTaskTimes'[s] >= ClearTimes
    BY <1>5, <1>6 DEF LetsGo
  <2>3. /\ loop' \in [Session -> {"run", "clear", "closed"}]
        /\ \A q \in Session : q # s => loop'[q] = loop[q]
        /\ loop'[s] = "closed"
    BY <2>1 DEF TypeOK
  <2>4. timer' \in [Task -> BOOLEAN]
    BY <2>1
  <2>5. \A t \in Task : timer'[t] => timer[t]
    BY <2>1
  <2>6. QED
    BY <1>1, <1>5, <2>2, <2>3, <2>4, <2>5
<1>7. CASE ~LetsGo(clearTaskTimes[s] + 1)
  <2>1. UNCHANGED <<loop, timer>>
    BY <1>7 DEF ClearTick
  <2>2. QED
    BY <1>1, <1>5, <2>1 DEF TypeOK
<1>8. QED
  BY <1>6, <1>7

\* The part of TaskInv that does not speak of the counter.
LEMMA OwnerStep ==
    TaskInv /\ [Next]_vars => TypeOK' /\ OneOwner' /\ Created' /\ StopBeforeRelease'
<1> SUFFICES ASSUME TaskInv, [Next]_vars
             PROVE  TypeOK' /\ OneOwner' /\ Created' /\ StopBeforeRelease'
  OBVIOUS
<1>0. TypeOK /\ OneOwner /\ Created /\ StopBeforeRelease
  BY DEF TaskInv
<1> USE TaskAssumption
<1>1. ASSUME NEW s \in Session, NEW c \in Channel, NEW t \in Task,
             NEW o \in {"none", "live"}, DispatchNewTask(s, c, t, o)
      PROVE  TypeOK' /\ OneOwner' /\ Created' /\ StopBeforeRelease'
  <2> DEFINE old == mapTask[s][c]
  <2>1. /\ info[t] = "none" /\ owner[t] = NoSession /\ ~timer[t]
        /\ \A q \in Session, d \in Channel : mapTask[q][d] # t
    <3>1. info[t] = "none" /\ owner[t] = NoSession
      BY <1>0, <1>1 DEF DispatchNewTask, Created
    <3>2. ~timer[t]
      BY <1>0, <3>1 DEF OneOwner, TimerOwned
    <3>3. ASSUME NEW q \in Session, NEW d \in Channel, mapTask[q][d] = t
          PROVE  FALSE
      <4>1. mapTask[q][d] # NoTask
        BY <3>3
      <4>2. info[t] = "live"
        BY <1>0, <3>3, <4>1 DEF OneOwner, MapOwned
      <4>3. QED
        BY <3>1, <4>2
    <3>4. QED
      BY <3>1, <3>2, <3>3
  <2>2. /\ info' = [u \in Task |-> IF u = t THEN "live"
                                   ELSE IF u = old THEN "freed" ELSE info[u]]
        /\ mapTask' = [mapTask EXCEPT ![s][c] = t]
        /\ owner' = [owner EXCEPT ![t] = s]
        /\ UNCHANGED <<busy, isCleared, timer, taskCount, loop, clearTaskTimes,
                       disturbed>>
    BY <1>1 DEF DispatchNewTask
  <2>3. obj' = [u \in Task |-> IF u = t THEN o
                               ELSE IF u = old /\ obj[u] = "live" THEN "orphan"
                               ELSE obj[u]]
    BY <1>1 DEF DispatchNewTask
  <2>4. /\ mapTask' \in [Session -> [Channel -> Task \cup {NoTask}]]
        /\ \A q \in Session, d \in Channel :
             mapTask'[q][d] = IF q = s /\ d = c THEN t ELSE mapTask[q][d]
    BY <1>0, <2>2 DEF TypeOK
  <2>5. TypeOK'
    BY <1>0, <2>2, <2>3, <2>4 DEF TypeOK
  <2>6. MapOwned'
    <3> SUFFICES ASSUME NEW q \in Session, NEW d \in Channel, mapTask'[q][d] # NoTask
                 PROVE  LET u == mapTask'[q][d]
                        IN  info'[u] = "live" /\ owner'[u] = q /\ ~timer'[u]
      BY DEF MapOwned
    <3>1. CASE q = s /\ d = c
      BY <1>0, <2>1, <2>2, <2>4, <3>1 DEF TypeOK
    <3>2. CASE ~(q = s /\ d = c)
      <4> DEFINE u == mapTask[q][d]
      <4>1. mapTask'[q][d] = u /\ u # NoTask /\ u \in Task /\ u # t
        BY <1>0, <2>1, <2>4, <3>2 DEF TypeOK
      <4>2. info[u] = "live" /\ owner[u] = q /\ ~timer[u]
        BY <1>0, <4>1 DEF OneOwner, MapOwned
      <4>3. u # old
        BY <1>0, <3>2, <4>1, <4>2 DEF OneOwner, MapOwned, OneChannel
      <4>4. info'[u] = "live" /\ owner'[u] = q /\ ~timer'[u]
        BY <1>0, <2>2, <4>1, <4>2, <4>3 DEF TypeOK
      <4>5. QED
        BY <4>1, <4>4
    <3>3. QED
      BY <3>1, <3>2
  <2>7. TimerOwned'
    <3> SUFFICES ASSUME NEW u \in Task, timer'[u] PROVE info'[u] = "live"
      BY DEF TimerOwned
    <3>1. timer[u] /\ info[u] = "live"
      BY <1>0, <2>2 DEF OneOwner, TimerOwned
    <3>2. u # old
      BY <1>0, <3>1 DEF OneOwner, MapOwned
    <3>3. QED
      BY <2>2, <3>1, <3>2
  <2>8. OneChannel'
    BY <1>0, <2>1, <2>4 DEF OneOwner, OneChannel
  <2>9. Created'
    <3> SUFFICES ASSUME NEW u \in Task PROVE info'[u] = "none" <=> owner'[u] = NoSession
      BY DEF Created
    <3>1. CASE u = t
      BY <1>0, <2>2, <3>1 DEF TypeOK
    <3>2. CASE u # t /\ u = old
      <4>1. owner[u] = s
        BY <1>0, <3>2 DEF OneOwner, MapOwned
      <4>2. QED
        BY <1>0, <2>2, <3>2, <4>1 DEF TypeOK
    <3>3. CASE u # t /\ u # old
      BY <1>0, <2>2, <3>3 DEF TypeOK, Created
    <3>4. QED
      BY <3>1, <3>2, <3>3
  <2>10. StopBeforeRelease'
    BY <1>0, <2>2, <2>3 DEF StopBeforeRelease
  <2>11. QED
    BY <2>5, <2>6, <2>7, <2>8, <2>9, <2>10 DEF OneOwner
<1>2. ASSUME NEW t \in Task, BeginOperation(t) \/ EndOperation(t)
      PROVE  TypeOK' /\ OneOwner' /\ Created' /\ StopBeforeRelease'
  <2>1. /\ busy' \in [Task -> BOOLEAN]
        /\ UNCHANGED <<mapTask, info, obj, owner, isCleared, timer, taskCount,
                       loop, clearTaskTimes, disturbed>>
    BY <1>0, <1>2 DEF BeginOperation, EndOperation, TypeOK
  <2>2. QED
    BY <1>0, <2>1 DEF TypeOK, OneOwner, MapOwned, TimerOwned, OneChannel,
           Created, StopBeforeRelease
<1>3. ASSUME NEW t \in Task, RetryLater(t)
      PROVE  TypeOK' /\ OneOwner' /\ Created' /\ StopBeforeRelease'
  <2>1. /\ isCleared' = [isCleared EXCEPT ![t] = TRUE]
        /\ UNCHANGED <<mapTask, info, obj, owner, busy, timer, taskCount,
                       loop, clearTaskTimes, disturbed>>
    BY <1>3 DEF RetryLater, StopTask
  <2>2. StopBeforeRelease'
    BY <1>0, <2>1 DEF TypeOK, StopBeforeRelease
  <2>3. OneOwner' /\ Created'
    BY <1>0, <2>1 DEF OneOwner, MapOwned, TimerOwned, OneChannel, Created
  <2>4. QED
    BY <1>0, <2>1, <2>2, <2>3 DEF TypeOK
<1>4. ASSUME NEW t \in Task, TaskClassDelete(t)
      PROVE  TypeOK' /\ OneOwner' /\ Created' /\ StopBeforeRelease'
  <2>1. /\ timer[t] /\ isCleared' = [isCleared EXCEPT ![t] = TRUE]
        /\ obj' = [obj EXCEPT ![t] = IF @ = "none" THEN @ ELSE "freed"]
        /\ info' = [info EXCEPT ![t] = "freed"]
        /\ timer' = [timer EXCEPT ![t] = FALSE]
        /\ taskCount' = Decremented(taskCount)
        /\ disturbed' = Disturb(owner[t])
        /\ UNCHANGED <<mapTask, owner, busy, loop, clearTaskTimes>>
    BY <1>4 DEF TaskClassDelete, StopTask
  <2>2. taskCount' \in 0 .. CountMod - 1
    BY <1>0, <2>1, Modulo DEF TypeOK
  <2>3. disturbed' \in [Session -> BOOLEAN]
    BY <1>0, <2>1 DEF TypeOK, Disturb
  <2>4. TypeOK'
    BY <1>0, <2>1, <2>2, <2>3 DEF TypeOK
  <2>5. info[t] = "live" /\ \A q \in Session, c \in Channel : mapTask[q][c] # t
    BY <1>0, <2>1 DEF OneOwner, MapOwned, TimerOwned
  <2>6. OneOwner'
    BY <1>0, <2>1, <2>5 DEF TypeOK, OneOwner, MapOwned, TimerOwned, OneChannel
  <2>7. Created'
    BY <1>0, <2>1, <2>5 DEF TypeOK, Created
  <2>8. StopBeforeRelease'
    BY <1>0, <2>1 DEF TypeOK, StopBeforeRelease
  <2>9. QED
    BY <2>4, <2>6, <2>7, <2>8
<1>5. ASSUME NEW s \in Session, NEW c \in Channel, ClearChannel(s, c)
      PROVE  TypeOK' /\ OneOwner' /\ Created' /\ StopBeforeRelease'
  <2>1. /\ ClearOwnTasks(s, {c}) /\ {c} \in SUBSET Channel
        /\ UNCHANGED <<info, obj, owner, busy, isCleared, loop, clearTaskTimes>>
    BY <1>5 DEF ClearChannel
  <2>2. disturbed' \in [Session -> BOOLEAN]
    BY <1>0, <1>5 DEF ClearChannel, Disturb, TypeOK
  <2>3. QED
    BY <1>0, <2>1, <2>2, ClearEffect DEF TypeOK, Created, StopBeforeRelease
<1>6. ASSUME NEW s \in Session, BeginClear(s)
      PROVE  TypeOK' /\ OneOwner' /\ Created' /\ StopBeforeRelease'
  <2>1. /\ ClearOwnTasks(s, Channel) /\ Channel \in SUBSET Channel
        /\ loop' = [loop EXCEPT ![s] = "clear"]
        /\ UNCHANGED <<info, obj, owner, busy, isCleared, clearTaskTimes>>
    BY <1>6 DEF BeginClear
  <2>2. disturbed' \in [Session -> BOOLEAN]
    BY <1>0, <1>6 DEF BeginClear, Disturb, Outstanding, TypeOK
  <2>3. QED
    BY <1>0, <2>1, <2>2, ClearEffect DEF TypeOK, Created, StopBeforeRelease
<1>7. ASSUME NEW s \in Session, ClearTick(s)
      PROVE  TypeOK' /\ OneOwner' /\ Created' /\ StopBeforeRelease'
  <2>1. /\ UNCHANGED <<mapTask, info, obj, owner, busy, isCleared, taskCount,
                       disturbed>>
        /\ clearTaskTimes' \in [Session -> 0 .. ClearTimes]
        /\ loop' \in [Session -> {"run", "clear", "closed"}]
        /\ timer' \in [Task -> BOOLEAN]
        /\ \A t \in Task : timer'[t] => timer[t]
    BY <1>0, <1>7, TickEffect
  <2>2. TypeOK'
    BY <1>0, <2>1 DEF TypeOK
  <2>3. OneOwner'
    BY <1>0, <2>1 DEF TypeOK, OneOwner, MapOwned, TimerOwned, OneChannel
  <2>4. QED
    BY <1>0, <2>1, <2>2, <2>3 DEF Created, StopBeforeRelease
<1>8. CASE UNCHANGED vars
  BY <1>0, <1>8 DEF vars, TypeOK, OneOwner, MapOwned, TimerOwned, OneChannel,
         Created, StopBeforeRelease
<1>9. QED
  BY <1>1, <1>2, <1>3, <1>4, <1>5, <1>6, <1>7, <1>8
     DEF Next, TaskStep, SessionStep

\* The sets of LoneOf when none of their variables changes.
LEMMA SameSets ==
    ASSUME NEW q \in Session, UNCHANGED <<mapTask, info, owner>>
    PROVE  Tasks(q)' = Tasks(q) /\ Left(q)' = Left(q)
BY DEF Tasks, Left

\* LoneOf of a session whose clearing another session has disturbed, or that
\* is not clearing.
LEMMA OtherLone ==
    ASSUME NEW q \in Session, LoneOf(q), loop'[q] = loop[q],
           clearTaskTimes'[q] = clearTaskTimes[q],
           loop[q] = "clear" => disturbed'[q], disturbed[q] => disturbed'[q],
           Tasks(q)' \subseteq Tasks(q), loop[q] = "closed" => Left(q)' = Left(q)
    PROVE  LoneOf(q)'
BY DEF LoneOf

\* The part of TaskInv about the counter: every step keeps the count of a
\* session that has taskCount for itself, or makes it known as disturbed.
LEMMA LoneStep == TaskInv /\ [Next]_vars => LoneInv'
<1> SUFFICES ASSUME TaskInv, [Next]_vars, NEW q \in Session
             PROVE  LoneOf(q)'
  BY DEF LoneInv
<1>0. TypeOK /\ OneOwner /\ Created /\ LoneOf(q)
  BY DEF TaskInv, LoneInv
<1>1. ASSUME NEW s \in Session, NEW c \in Channel, NEW t \in Task,
             NEW o \in {"none", "live"}, DispatchNewTask(s, c, t, o)
      PROVE  LoneOf(q)'
  <2> DEFINE old == mapTask[s][c]
  <2>1. /\ loop[s] = "run" /\ info[t] = "none"
        /\ info' = [u \in Task |-> IF u = t THEN "live"
                                   ELSE IF u = old THEN "freed" ELSE info[u]]
        /\ mapTask' = [mapTask EXCEPT ![s][c] = t]
        /\ owner' = [owner EXCEPT ![t] = s]
        /\ UNCHANGED <<taskCount, loop, clearTaskTimes, disturbed>>
    BY <1>1 DEF DispatchNewTask
  <2>2. CASE q = s
    BY <2>1, <2>2 DEF LoneOf
  <2>3. CASE q # s
    <3>1. Tasks(q)' = Tasks(q)
      BY <1>0, <2>1, <2>3 DEF Tasks, TypeOK
    <3>2. owner[t] = NoSession
      BY <1>0, <2>1 DEF Created
    <3>3. old \in Task => owner[old] = s
      BY <1>0, TaskAssumption DEF OneOwner, MapOwned
    <3>4. \A u \in Task : owner'[u] = q /\ info'[u] = "live"
                            <=> owner[u] = q /\ info[u] = "live"
      BY <1>0, <2>1, <2>3, <3>2, <3>3, TaskAssumption DEF TypeOK
    <3>5. Left(q)' = Left(q)
      BY <3>4 DEF Left
    <3>6. QED
      BY <1>0, <2>1, <3>1, <3>5 DEF LoneOf
  <2>4. QED
    BY <2>2, <2>3
<1>2. ASSUME NEW t \in Task, BeginOperation(t) \/ EndOperation(t) \/ RetryLater(t)
      PROVE  LoneOf(q)'
  <2>1. UNCHANGED <<mapTask, info, owner, taskCount, loop, clearTaskTimes, disturbed>>
    BY <1>2 DEF BeginOperation, EndOperation, RetryLater
  <2>2. QED
    BY <1>0, <2>1, SameSets DEF LoneOf
<1>3. ASSUME NEW t \in Task, TaskClassDelete(t) PROVE LoneOf(q)'
  <2> DEFINE s == owner[t]
  <2>1. /\ timer[t] /\ info' = [info EXCEPT ![t] = "freed"]
        /\ loop[s] # "closed"
        /\ taskCount' = Decremented(taskCount)
        /\ disturbed' = [r \in Session |-> disturbed[r] \/ (r # s /\ loop[r] = "clear")]
        /\ UNCHANGED <<mapTask, owner, loop, clearTaskTimes>>
    BY <1>3 DEF TaskClassDelete, Disturb
  <2>2. Tasks(q)' = Tasks(q)
    BY <2>1 DEF Tasks
  <2>3. CASE q # s
    <3>1. Left(q)' = Left(q)
      BY <1>0, <2>1, <2>3 DEF Left, TypeOK
    <3>2. QED
      BY <1>0, <2>1, <2>2, <2>3, <3>1, OtherLone
  <2>4. CASE q = s
    <3>1. Left(q)' = Left(q) \ {t}
      BY <1>0, <2>1 DEF Left, TypeOK
    <3>2. t \in Left(q) /\ Left(q) \in SUBSET Task
      BY <1>0, <2>1, <2>4 DEF OneOwner, TimerOwned, Left
    <3>3. /\ Cardinality(Left(q) \ {t}) = Cardinality(Left(q)) - 1
          /\ Cardinality(Left(q)) \in Nat
      BY <3>2, TaskSets, FS_RemoveElement
    <3>4. Cardinality(Left(q)) # 0
      BY <3>2, TaskSets, FS_EmptySet
    <3>5. ASSUME loop'[q] = "clear", ~disturbed'[q]
          PROVE  taskCount' = Cardinality(Left(q))'
      <4>1. taskCount = Cardinality(Left(q))
        BY <1>0, <2>1, <3>5 DEF LoneOf
      <4>2. taskCount' = taskCount - 1
        BY <1>0, <2>1, <3>3, <3>4, <4>1, Modulo DEF TypeOK
      <4>3. QED
        BY <3>1, <3>3, <4>1, <4>2
    <3>6. QED
      BY <1>0, <2>1, <2>2, <2>4, <3>5 DEF LoneOf
  <2>5. QED
    BY <2>3, <2>4
<1>4. ASSUME NEW s \in Session, NEW c \in Channel, ClearChannel(s, c)
      PROVE  LoneOf(q)'
  <2>1. /\ ClearOwnTasks(s, {c}) /\ {c} \in SUBSET Channel
        /\ loop[s] # "closed"
        /\ UNCHANGED <<info, obj, owner, busy, isCleared, loop, clearTaskTimes>>
    BY <1>4 DEF ClearChannel
  <2>2. disturbed'[q] <=> disturbed[q] \/ loop[q] = "clear"
    <3>1. disturbed' = [Disturb(s) EXCEPT ![s] = Disturb(s)[s] \/ loop[s] = "clear"]
      BY <1>4 DEF ClearChannel
    <3>2. QED
      BY <3>1 DEF Disturb
  <2>3. Tasks(q)' \subseteq Tasks(q)
    BY <1>0, <2>1, ClearEffect
  <2>4. Left(q)' = Left(q)
    BY <2>1 DEF Left
  <2>5. QED
    BY <1>0, <2>1, <2>2, <2>3, <2>4, OtherLone
<1>5. ASSUME NEW s \in Session, BeginClear(s) PROVE LoneOf(q)'
  <2>1. /\ ClearOwnTasks(s, Channel) /\ Channel \in SUBSET Channel
        /\ loop[s] = "run"
        /\ loop' = [loop EXCEPT ![s] = "clear"]
        /\ UNCHANGED <<info, obj, owner, busy, isCleared, clearTaskTimes>>
        /\ disturbed' = [Disturb(s) EXCEPT ![s] = Outstanding(s)]
    BY <1>5 DEF BeginClear
  <2>2. /\ Tasks(q)' \subseteq Tasks(q)
        /\ \A c \in Channel : mapTask'[s][c] = NoTask
    BY <1>0, <2>1, ClearEffect
  <2>3. Left(q)' = Left(q)
    BY <2>1 DEF Left
  <2>4. CASE q # s
    <3>1. loop'[q] = loop[q] /\ (disturbed'[q] <=> disturbed[q] \/ loop[q] = "clear")
      BY <1>0, <2>1, <2>4 DEF TypeOK, Disturb
    <3>2. QED
      BY <1>0, <2>1, <2>2, <2>3, <3>1, OtherLone
  <2>5. CASE q = s
    <3>1. loop'[q] = "clear" /\ (disturbed'[q] <=> Outstanding(s))
      BY <1>0, <2>1, <2>5 DEF TypeOK, Disturb
    <3>2. Tasks(q)' = {}
      BY <2>2, <2>5, TaskAssumption DEF Tasks
    <3>3. Tasks(q) \subseteq Left(q)
      BY <1>0, TaskAssumption DEF Tasks, Left, OneOwner, MapOwned
    <3>4. ~Outstanding(s) => Left(q) \subseteq Tasks(q)
      BY <2>5 DEF Outstanding, Left
    <3>5. taskCount' = Cardinality(Tasks(q))
      BY <2>1, <2>5, CountedIs DEF ClearOwnTasks
    <3>6. ~Outstanding(s) => taskCount' = Cardinality(Left(q))
      <4>1. ~Outstanding(s) => Left(q) = Tasks(q)
        BY <3>3, <3>4
      <4>2. QED
        BY <3>5, <4>1
    <3>7. QED
      BY <2>3, <3>1, <3>2, <3>6 DEF LoneOf
  <2>6. QED
    BY <2>4, <2>5
<1>6. ASSUME NEW s \in Session, ClearTick(s) PROVE LoneOf(q)'
  <2>1. Tasks(q)' = Tasks(q) /\ Left(q)' = Left(q)
    BY <1>0, <1>6, TickEffect, SameSets
  <2>2. CASE q # s
    BY <1>0, <1>6, <2>1, <2>2, TickEffect DEF LoneOf
  <2>3. CASE q = s
    <3>1. /\ loop[q] = "clear" /\ taskCount' = taskCount /\ disturbed' = disturbed
          /\ loop'[q] = "closed" => taskCount = 0 \/ clearTaskTimes'[q] >= ClearTimes
          /\ clearTaskTimes'[q] \in Nat
      BY <1>0, <1>6, <2>3, TickEffect
    <3>2. taskCount = 0 /\ ~disturbed[q] => Left(q) = {}
      <4>1. Left(q) \in SUBSET Task
        BY DEF Left
      <4>2. QED
        BY <1>0, <3>1, <4>1, TaskSets, FS_EmptySet DEF LoneOf
    <3>3. QED
      BY <1>0, <2>1, <3>1, <3>2, TaskAssumption DEF LoneOf
  <2>4. QED
    BY <2>2, <2>3
<1>7. CASE UNCHANGED vars
  BY <1>0, <1>7, SameSets DEF vars, LoneOf
<1>8. QED
  BY <1>1, <1>2, <1>3, <1>4, <1>5, <1>6, <1>7 DEF Next, TaskStep, SessionStep

\* TaskInv is an inductive invariant of the task registry.
THEOREM TaskInvariance == Spec => []TaskInv
<1>1. TaskInv /\ [Next]_vars => TaskInv'
  BY OwnerStep, LoneStep DEF TaskInv
<1>2. QED
  BY <1>1, InitTaskInv, PTL DEF Spec

\* Type correctness; in particular taskCount stays a uint32_t when TaskClassDeleteRetry
\* decrements it more often than ClearOwnTasks counted.
THEOREM TaskTypeCorrect == Spec => []TypeOK
<1>1. TaskInv => TypeOK
  BY DEF TaskInv
<1>2. QED
  BY <1>1, TaskInvariance, PTL

\* Map and timers never hold a TaskInformation that is gone, nor share one
\* (AdminTask, BeginRemoveTask, TaskClassDeleteRetry).
THEOREM TaskOneOwner == Spec => []OneOwner
<1>1. TaskInv => OneOwner
  BY DEF TaskInv
<1>2. QED
  BY <1>1, TaskInvariance, PTL

\* StopTask comes before the delete of every task object (DoTaskRemove).
THEOREM TaskStopped == Spec => []StopBeforeRelease
<1>1. TaskInv => StopBeforeRelease
  BY DEF TaskInv
<1>2. QED
  BY <1>1, TaskInvariance, PTL

\* A clearing loop that had taskCount for itself and ends before its limit
\* has seen every task of its session deleted (ReChildLoopForSessionClear).
THEOREM TaskLoneClear == Spec => []LoneClearComplete
<1>1. TaskInv => LoneClearComplete
  <2> SUFFICES ASSUME TaskInv, NEW s \in Session, loop[s] = "closed", ~disturbed[s],
                      clearTaskTimes[s] < ClearTimes, NEW t \in Task, owner[t] = s
               PROVE  info[t] = "freed"
    BY DEF LoneClearComplete
  <2>1. Left(s) = {}
    BY DEF TaskInv, LoneInv, LoneOf
  <2>2. info[t] # "live"
    BY <2>1 DEF Left
  <2>3. info[t] # "none"
    BY TaskAssumption DEF TaskInv, Created
  <2>4. QED
    BY <2>2, <2>3 DEF TaskInv, TypeOK
<1>2. QED
  BY <1>1, TaskInvariance, PTL

\* What the run of the task registry checks (BeginRemoveTask, ClearOwnTasks).
THEOREM TaskRegistrySafe == Spec => []TasksSafe
<1>1. TypeOK /\ OneOwner /\ StopBeforeRelease /\ LoneClearComplete => TasksSafe
  BY DEF TasksSafe
<1>2. QED
  BY <1>1, TaskTypeCorrect, TaskOneOwner, TaskStopped, TaskLoneClear, PTL
=============================================================================
