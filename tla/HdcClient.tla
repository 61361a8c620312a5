------------------------------ MODULE HdcClient ------------------------------
(***************************************************************************)
(* The client program: it connects to the server, retries, answers the     *)
(* handshake of its channel, sends its command from a timer and passes the *)
(* answers on until the server closes the channel.  The terminal is in raw *)
(* mode while an interactive shell runs.                                   *)
(***************************************************************************)
EXTENDS Naturals, FiniteSets

CONSTANTS MaxRetry,   \* TCP_CONNECT_MAX_RETRY_COUNT
          MaxWait,    \* maxWaitRetry of CommandWorker
          MaxSpawn,   \* WAIT_FOR_SPAWN_MAX_TIMES
          MaxInput    \* packets of answers and of input that are modelled

ASSUME ClientBounds == {MaxRetry, MaxWait, MaxSpawn, MaxInput} \subseteq Nat

VARIABLES cli,     \* the HdcClient object and its channel
          handles  \* hWorkTCP, stdinTty and stdoutTty: their state

clientVars == <<cli, handles>>

Handles == {"work", "stdin", "stdout"}
\* plain: any command that only waits for answers; confirm: one that asks the
\* user first (HostUpdater::ConfirmCommand).
ClientCommands == {"plain", "shell", "wait for", "spawn", "confirm"}

ClientInit ==
  /\ cli \in [cmd : ClientCommands, conn : {"no"}, retry : {0}, ticks : {0},
              worker : {FALSE}, handshakeOK : {FALSE}, id : {"client"}, key : {"client"},
              ref : {0}, uvHandleRef : {1}, isDead : {FALSE}, free : {"no"},
              raw : {FALSE}, spawned : {0}, sent : {0}, input : {0}, exit : {"no"}]
  /\ handles = [h \in Handles |-> IF h = "work" THEN "open" ELSE "null"]

Runs == cli.exit = "no"

\* FreeChannel: found under its id, and only once.
ClientFree(r) == IF r.isDead \/ r.key # r.id THEN r
                 ELSE [r EXCEPT !.isDead = TRUE, !.free = "operate"]

\* Send: a reference until the write is done; nothing through a closed stream.
ClientSend(r) == IF r.isDead \/ handles["work"] # "open" THEN r
                 ELSE [r EXCEPT !.ref = @ + 1, !.sent = @ + 1]
-----------------------------------------------------------------------------
\* ExecuteCommand: the endpoint is wrong, or the connection is started (which
\* may fail at once) and the timer of the command with it.
ExecuteCommand ==
  /\ Runs /\ cli.conn = "no" /\ ~cli.worker
  /\ \/ cli' = [cli EXCEPT !.exit = "error"]
     \/ \E c \in {"connecting", "none"} : cli' = [cli EXCEPT !.conn = c, !.worker = TRUE]
  /\ UNCHANGED handles

\* BindLocalStd for an interactive shell: both terminals or none; the first
\* is closed again when the second one fails.
BindLocalStd ==
  \/ cli.cmd = "shell" /\ cli' = [cli EXCEPT !.conn = "up", !.uvHandleRef = @ + 2, !.raw = TRUE]
     /\ handles' = [handles EXCEPT !["stdin"] = "open", !["stdout"] = "open"]
  \/ cli.cmd = "shell" /\ cli' = [cli EXCEPT !.conn = "up"]
     /\ handles' = [handles EXCEPT !["stdout"] = "uncounted"]
  \/ cli' = [cli EXCEPT !.conn = "up"] /\ UNCHANGED handles

\* Connect: success, a retry, or the end after the last retry.
RetryLeft(r) == r.retry < MaxRetry
Connect ==
  /\ Runs /\ cli.conn = "connecting"
  /\ \/ handles["work"] = "open" /\ BindLocalStd
     \/ /\ cli' = IF handles["work"] # "open" \/ ~RetryLeft(cli)
                  THEN ClientFree([cli EXCEPT !.conn = "none"])
                  ELSE [cli EXCEPT !.conn = "retry",
                                   !.retry = IF @ <= MaxRetry THEN @ + 1 ELSE @]
        /\ UNCHANGED handles

\* RetryTcpConnectWorker: no memory ends the client; a connection that cannot
\* be started is left to the time-out of CommandWorker.
RetryTcpConnectWorker ==
  /\ Runs /\ cli.conn = "retry"
  /\ \/ \E c \in {"connecting", "none"} : cli' = [cli EXCEPT !.conn = c]
     \/ cli' = ClientFree([cli EXCEPT !.conn = "none"])
  /\ UNCHANGED handles

\* PreHandshake: banner, the id the server gave the channel (in the record and
\* in the map), the answer and, with another version, the end.
SyncChannelId(r) == [r EXCEPT !.id = "server", !.key = "server"]
PreHandshake ==
  /\ Runs /\ cli.conn = "up" /\ ~cli.handshakeOK /\ handles["work"] = "open"
  /\ \/ cli' = ClientFree(cli)
     \/ cli' = ClientFree(SyncChannelId(cli))
     \/ cli' = [ClientSend(SyncChannelId(cli)) EXCEPT !.handshakeOK = TRUE, !.sent = 0]
  /\ UNCHANGED handles

\* CommandWorker: gives up after its time, waits for the handshake, then
\* sends the command once, unless the user does not confirm it.
NeverOver(r) == FALSE
WaitOver(r) == r.ticks >= MaxWait
CommandWorker ==
  /\ Runs /\ cli.worker
  /\ IF WaitOver(cli) THEN cli' = [cli EXCEPT !.worker = FALSE, !.exit = "timeout"]
     ELSE IF ~cli.handshakeOK THEN cli' = [cli EXCEPT !.ticks = IF @ < MaxWait THEN @ + 1 ELSE @]
     ELSE \/ cli' = ClientSend([cli EXCEPT !.worker = FALSE])
          \/ cli.cmd = "confirm" /\ cli' = [cli EXCEPT !.worker = FALSE, !.exit = "cancel"]
  /\ UNCHANGED handles

\* ReadChannel: waiting commands are sent again or leave; other answers are
\* written out, and an output that fails ends the channel.
WaitFor(r) == {ClientSend(r), [r EXCEPT !.exit = "done"]}
WaitForSpawn(r) == IF r.spawned <= MaxSpawn
                   THEN {ClientSend([r EXCEPT !.spawned = @ + 1]), [r EXCEPT !.exit = "done"]}
                   ELSE {[r EXCEPT !.exit = "done"]}
WriteShellOutput(r) == {r, ClientFree(r)}
ReadAnswer ==
  /\ Runs /\ cli.conn = "up" /\ cli.handshakeOK /\ handles["work"] = "open"
  /\ cli.input < MaxInput
  /\ \E r \in CASE cli.cmd = "wait for" -> WaitFor(cli)
                [] cli.cmd = "spawn"    -> WaitForSpawn(cli)
                [] OTHER                -> WriteShellOutput(cli) :
       cli' = [r EXCEPT !.input = @ + 1]
  /\ UNCHANGED handles

\* ReadStd and ForwardStdin: input of the terminal is sent after the handshake.
ReadStd ==
  /\ Runs /\ handles["stdin"] = "open" /\ cli.handshakeOK /\ cli.input < MaxInput
  /\ cli' = [ClientSend(cli) EXCEPT !.input = @ + 1]
  /\ UNCHANGED handles

\* ReadStream: the server has closed the channel, before or after the handshake.
ServerCloses ==
  /\ Runs /\ cli.conn = "up" /\ handles["work"] = "open"
  /\ handles' = [handles EXCEPT !["work"] = "closed"]
  /\ cli' = ClientFree(cli)

\* WriteCallback of the client's channel.
ClientWriteDone ==
  /\ Runs /\ cli.ref > 0
  /\ cli' = [cli EXCEPT !.ref = @ - 1]
  /\ UNCHANGED handles
-----------------------------------------------------------------------------
(* Freeing the channel ends the program                                    *)

\* FreeChannelContinue: the terminals that are open, and the stream, are
\* closed; a stream closed before gives its handle reference back at once.
ClientFreeContinue ==
  /\ Runs /\ cli.free = "operate" /\ cli.ref = 0
  /\ handles' = [h \in Handles |-> IF handles[h] = "open" THEN "closing" ELSE handles[h]]
  /\ cli' = [cli EXCEPT !.free = "finally",
                        !.uvHandleRef = IF handles["work"] = "closed" THEN @ - 1 ELSE @]

HandleClosed(h) ==
  /\ Runs /\ handles[h] = "closing"
  /\ handles' = [handles EXCEPT ![h] = "closed"]
  /\ cli' = [cli EXCEPT !.uvHandleRef = @ - 1]

\* NotifyInstanceChannelFree: the terminal of an interactive shell is restored.
RestoreTty(r) == IF r.cmd = "shell" THEN [r EXCEPT !.raw = FALSE] ELSE r

\* FreeChannelFinally of the client: the record is deleted, the loop stops.
AnyHandleRef(r) == TRUE
NoHandleRef(r) == r.uvHandleRef = 0
ClientFreeFinally ==
  /\ Runs /\ cli.free = "finally" /\ NoHandleRef(cli)
  /\ cli' = [RestoreTty(cli) EXCEPT !.free = "done", !.key = "none", !.exit = "freed"]
  /\ UNCHANGED handles

ClientNext ==
  \/ ExecuteCommand \/ Connect \/ RetryTcpConnectWorker \/ PreHandshake \/ CommandWorker
  \/ ReadAnswer \/ ReadStd \/ ServerCloses \/ ClientWriteDone
  \/ ClientFreeContinue \/ ClientFreeFinally
  \/ \E h \in Handles : HandleClosed(h)

ClientSpec == ClientInit /\ [][ClientNext]_clientVars
-----------------------------------------------------------------------------
(* Properties                                                              *)

\* The handle references of the channel count the handles whose close is
\* still to come, and the record is only deleted when there is none: no close
\* callback finds a deleted channel.
ClientHandleRefs ==
  /\ cli.free # "done" /\ handles["work"] # "closed" =>
       cli.uvHandleRef = Cardinality({h \in Handles : handles[h] \in {"open", "closing"}})
  /\ cli.free = "done" => \A h \in Handles : handles[h] \notin {"open", "closing"}

\* The channel can be found under its id as long as it is not deleted, so that
\* every end of the connection frees it; and a client that ends leaves the
\* terminal as it found it, with one exception: CommandWorker, which gives up after
\* its time, stops the loop with the terminal of a shell still raw
\* (client.cpp:731; the destructor restores only what CommandWorker has changed).
ClientEndsClean ==
  /\ cli.free # "done" => cli.key = cli.id
  /\ cli.exit \notin {"no", "timeout"} => ~cli.raw

\* The client does not hang: it has met a server or has given up, and a channel
\* marked dead has ended it.
ClientGoesOn ==
  /\ cli.handshakeOK \/ cli.exit # "no"
  /\ cli.isDead => cli.exit # "no"

\* The client's record outlives its handles, and the client ends with its terminal
\* restored (a time-out excepted), whichever of the callbacks, timers and failures
\* comes first (HdcClient, FreeChannel).
ClientSafe == ClientHandleRefs /\ ClientEndsClean
-----------------------------------------------------------------------------
(* The inductive invariant: what each stage of freeing means for the handles. *)

ClientShape ==
  /\ DOMAIN cli = {"cmd", "conn", "retry", "ticks", "worker", "handshakeOK", "id", "key", "ref",
                   "uvHandleRef", "isDead", "free", "raw", "spawned", "sent", "input", "exit"}
  /\ cli.free \in {"no", "operate", "finally", "done"} /\ (cli.free # "no" => cli.isDead)
  /\ cli.exit = "freed" <=> cli.free = "done"
  /\ DOMAIN handles = Handles
  /\ \A h \in Handles : handles[h] \in {"null", "open", "uncounted", "closing", "closed"}

\* Handles are closed by ClientFreeContinue only, but for the stream the server closes.
HandleStages ==
  /\ cli.free \in {"no", "operate"} =>
       handles["work"] \in {"open", "closed"} /\ \A h \in {"stdin", "stdout"} : handles[h] \notin {"closing", "closed"}
  /\ cli.free \in {"finally", "done"} => \A h \in Handles : handles[h] # "open"
  /\ cli.conn # "up" => handles["stdin"] = "null" /\ handles["stdout"] = "null"

HandleCount(h) == IF handles[h] \in {"open", "closing"} THEN 1 ELSE 0
\* The reference of a stream the server closed is given back by ClientFreeContinue.
RefsKept ==
  cli.uvHandleRef = HandleCount("work") + HandleCount("stdin") + HandleCount("stdout")
                    + IF cli.free \in {"no", "operate"} /\ handles["work"] = "closed" THEN 1 ELSE 0

ClientInv ==
  /\ ClientShape /\ HandleStages /\ RefsKept
  /\ cli.free # "done" => cli.key = cli.id
  /\ cli.free = "done" => cli.uvHandleRef = 0 /\ ~cli.raw
  /\ cli.raw => cli.cmd = "shell" /\ cli.conn = "up" /\ cli.exit \in {"no", "timeout"}
=============================================================================
