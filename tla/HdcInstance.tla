---------------------------- MODULE HdcInstance ----------------------------
(***************************************************************************)
(* The one server of a host: ProgramMutex (the pid file and its lock, Unix *)
(* build), the clients that look for a server, pull one up, restart it or  *)
(* kill it (RunClientMode, ChannelCtrlServer, KillServer), the start of a  *)
(* server (HdcServer::Initial, RunServerMode) and the endpoint information *)
(* it leaves for clients that cannot connect (server_instance.cpp).        *)
(* Every system call on the two files is a step: a client's check holds    *)
(* the lock for a while and writes its own pid into the file.              *)
(***************************************************************************)
EXTENDS Integers, FiniteSets

CONSTANTS InstanceClients,   \* number of clients
          InstanceScenarios, \* what they are asked to do: [cmds, eps, running, ep]
          Endpoints,         \* where a server may listen: [ip, port]
          MaxMishaps         \* calls that fail and processes a user ends

ASSUME InstanceBounds == {InstanceClients, MaxMishaps} \subseteq Nat
ASSUME ScenarioTypes ==
  \A s \in InstanceScenarios : s.ep \in Endpoints /\ \A p \in 1..InstanceClients : s.eps[p] \in Endpoints

VARIABLES iproc,   \* the processes, by pid; the clients come first
          ifile,   \* .HDCServer.pid: its lock and content; .HDCServer.info
          ihist    \* what happened

instanceVars == <<iproc, ifile, ihist>>

\* Each client pulls up at most one server, and one may run from the start.
ProcIds == 1..(2 * InstanceClients + 1)
FirstServer == InstanceClients + 1
NoInfo == [pid |-> 0, ep |-> [ip |-> "uds", port |-> 0]]
Free == [role |-> "free", cmd |-> "none", ep |-> NoInfo.ep, pc |-> "none", goal |-> "start",
         status |-> "none", victim |-> 0, holder |-> 0, seen |-> NoInfo, dying |-> FALSE]
Process(role, cmd, ep, pc) == [Free EXCEPT !.role = role, !.cmd = cmd, !.ep = ep, !.pc = pc]

InstanceStart(s) ==
  /\ iproc = [p \in ProcIds |->
       IF p \in 1..InstanceClients THEN Process("client", s.cmds[p], s.eps[p], "mutex")
       ELSE IF s.running /\ p = FirstServer THEN Process("server", "none", s.ep, "serving")
       ELSE Free]
  /\ ifile = IF s.running THEN [lock |-> FirstServer, pid |-> FirstServer,
                              info |-> [pid |-> FirstServer, ep |-> s.ep]]
             ELSE [lock |-> 0, pid |-> 0, info |-> NoInfo]
  /\ ihist = [mishaps |-> 0, failed |-> FALSE, collided |-> FALSE, killed |-> FALSE,
              pulled |-> FALSE, served |-> s.running, wrong |-> FALSE, misled |-> FALSE, unnoted |-> {}]
InstanceInit == \E s \in InstanceScenarios : InstanceStart(s)

Lives(p) == iproc[p].role \in {"client", "server"} /\ ~iproc[p].dying
At(p, pc) == Lives(p) /\ iproc[p].pc = pc
\* Closing any descriptor of the file gives the process's lock back.
Released(f, p) == [f EXCEPT !.lock = IF @ = p THEN 0 ELSE @]
Mishap == ihist.mishaps < MaxMishaps
Failed(h) == [h EXCEPT !.failed = TRUE, !.mishaps = @ + 1]
-----------------------------------------------------------------------------
(* ProgramMutex: a client only checks (checkOrNew), a server stays. *)

\* The lock is held: a server exists, so the code concludes.
FoundLocked(p) ==
  /\ At(p, "mutex") /\ ifile.lock \notin {0, p}
  /\ LET q == ifile.lock
         inCheck == iproc[q].role = "client" /\ iproc[q].pc \in {"truncate", "write"}
     IN /\ iproc' = [iproc EXCEPT ![p].status = "exists", ![p].pc = "mutexed",
                         ![p].holder = IF iproc[q].role = "server" /\ ifile.pid = q THEN q ELSE 0]
        /\ ihist' = [ihist EXCEPT !.collided = @ \/ inCheck]
  /\ UNCHANGED ifile

MutexLock(p) ==
  /\ At(p, "mutex") /\ ifile.lock \in {0, p}
  /\ ifile' = [ifile EXCEPT !.lock = p]
  /\ iproc' = [iproc EXCEPT ![p].pc = "truncate"]
  /\ UNCHANGED ihist

MutexTruncate(p) ==
  /\ At(p, "truncate")
  /\ ifile' = [ifile EXCEPT !.pid = 0]
  /\ iproc' = [iproc EXCEPT ![p].pc = "write"]
  /\ UNCHANGED ihist

\* Mutants: a server closes the file as a check does; a check keeps it open.
ClosesAlways(p) == TRUE
KeepsOpen(p) == FALSE
ClosesFile(p) == iproc[p].role = "client"

\* The end of the mutex with pid in the file: a check closes it, a server does not.
MutexEnds(p, pid) ==
  /\ ifile' = LET f == [ifile EXCEPT !.pid = pid] IN IF ClosesFile(p) THEN Released(f, p) ELSE f
  /\ iproc' = [iproc EXCEPT ![p].pc = "mutexed", ![p].status = "none"]

\* Over a pid that was not truncated, a shorter one leaves digits behind it: a number
\* that names nobody, which counts as none.
MutexWrite(p) ==
  /\ At(p, "write")
  /\ \E pid \in {p} \cup (IF ifile.pid = 0 THEN {} ELSE {0}) :
       /\ MutexEnds(p, pid)
       /\ ihist' = IF pid = p THEN ihist ELSE [ihist EXCEPT !.unnoted = @ \cup {p}]

\* A call on the file fails. An open that fails is an error, any failure of fcntl
\* means that the lock is held; what truncating and writing return is compared with
\* -1, which libuv does not return, so their failures go unnoticed.
MutexFails(p) ==
  /\ Mishap
  /\ \/ /\ At(p, "mutex")
        /\ \E s \in {"error", "exists"} : iproc' = [iproc EXCEPT ![p].pc = "mutexed", ![p].status = s]
        /\ ihist' = Failed(ihist) /\ UNCHANGED ifile
     \/ /\ At(p, "truncate")
        /\ iproc' = [iproc EXCEPT ![p].pc = "write"]
        /\ ihist' = Failed(ihist) /\ UNCHANGED ifile
     \/ /\ At(p, "write")
        /\ MutexEnds(p, ifile.pid)
        /\ ihist' = [Failed(ihist) EXCEPT !.unnoted = @ \cup {p}]
-----------------------------------------------------------------------------
(* Clients. *)

\* ChannelCtrlServer: "start" pulls a server up where there is none, "start -r"
\* replaces the one there is.
ChannelCtrlServer(p) ==
  CASE iproc[p].status = "error" -> "end"
    [] iproc[p].status = "none" -> "pullup"
    [] iproc[p].status = "exists" /\ iproc[p].cmd = "start -r" -> "getpid"
    [] OTHER -> "end"

\* KillServer.
KillServer(p) ==
  CASE iproc[p].status = "error" -> "end"
    [] iproc[p].status = "exists" -> "getpid"
    [] iproc[p].status = "none" /\ iproc[p].cmd = "kill -r" -> "pullup"
    [] OTHER -> "end"

\* RunClientMode: any other command pulls a server up and goes on.
RunClientMode(p) ==
  /\ At(p, "mutexed") /\ iproc[p].role = "client" /\ iproc[p].goal = "start"
  /\ iproc' = [iproc EXCEPT ![p].pc =
       CASE iproc[p].cmd \in {"start", "start -r"} -> ChannelCtrlServer(p)
         [] iproc[p].cmd \in {"kill", "kill -r"} -> KillServer(p)
         [] OTHER -> IF iproc[p].status = "none" THEN "pullup" ELSE "connect"]
  /\ UNCHANGED <<ifile, ihist>>

\* GetLastPID: the file is read without its lock and may be empty.
GetLastPID(p) ==
  /\ At(p, "getpid")
  /\ iproc' = [iproc EXCEPT ![p].victim = ifile.pid, ![p].pc = IF ifile.pid = 0 THEN "end" ELSE "kill"]
  /\ UNCHANGED <<ifile, ihist>>

\* KillMethodByUv: the process found may be gone; one that is killed ends later.
KillMethodByUv(p) ==
  /\ At(p, "kill")
  /\ LET v == iproc[p].victim
         h == iproc[p].holder
         again == iproc[p].cmd \in {"start -r", "kill -r"}
         exists == iproc[v].role \in {"client", "server"}
     IN /\ iproc' = [iproc EXCEPT
             ![v].dying = @ \/ exists,
             ![p].pc = IF exists /\ again THEN "pullup" ELSE "end"]
        /\ ihist' = [ihist EXCEPT !.killed = @ \/ exists,
                         !.wrong = @ \/ (exists /\ h # 0 /\ Lives(h) /\ v # h)]
  /\ UNCHANGED ifile

\* PullupServer: fork and exec of the server, for the client's endpoint. Nobody
\* looks at the result.
PullupServer(p) ==
  /\ At(p, "pullup")
  /\ LET next == IF iproc[p].cmd = "run" THEN "connect" ELSE "end"
     IN \/ /\ iproc' = [iproc EXCEPT ![p].pc = next,
                            ![FirstServer + p] = Process("server", "none", iproc[p].ep, "mutex")]
           /\ ihist' = [ihist EXCEPT !.pulled = TRUE]
        \/ /\ Mishap
           /\ iproc' = [iproc EXCEPT ![p].pc = next]
           /\ ihist' = Failed(ihist)
  /\ UNCHANGED ifile

\* ExecuteCommand: HdcClient has the tries and the time-outs of the connection.
ConnectServer(p) ==
  /\ At(p, "connect")
  /\ \E q \in ProcIds : At(q, "serving") /\ iproc[q].role = "server" /\ iproc[q].ep = iproc[p].ep
  /\ iproc' = [iproc EXCEPT ![p].pc = "end"]
  /\ UNCHANGED <<ifile, ihist>>

\* PrintConnectionError asks InspectServerInstance, which checks the mutex again.
PrintConnectionError(p) ==
  /\ At(p, "connect")
  /\ ~\E q \in ProcIds : At(q, "serving") /\ iproc[q].ep = iproc[p].ep
  /\ iproc' = [iproc EXCEPT ![p].pc = "mutex", ![p].goal = "inspect"]
  /\ UNCHANGED <<ifile, ihist>>

Loopback(e) == e.ip = "local"
IsEndpointConflict(requested, active) ==
  /\ requested # active
  /\ \/ requested.ip = "uds"
     \/ active.ip = "uds" /\ Loopback(requested)
     \/ /\ active.ip # "uds" /\ requested.port # active.port
        /\ Loopback(requested) \/ requested.ip = active.ip

\* InspectServerInstance reads the information first, then the pid file.
InspectInfo(p) ==
  /\ At(p, "mutexed") /\ iproc[p].role = "client" /\ iproc[p].goal = "inspect"
  /\ iproc' = [iproc EXCEPT ![p].seen = ifile.info,
                            ![p].pc = IF iproc[p].status = "exists" THEN "inspect" ELSE "end"]
  /\ UNCHANGED <<ifile, ihist>>

InfoIsCurrent(info) == info.pid # 0 /\ info.pid = ifile.pid

InspectServerInstance(p) ==
  /\ At(p, "inspect")
  /\ LET h == iproc[p].holder
         told == InfoIsCurrent(iproc[p].seen) /\ IsEndpointConflict(iproc[p].ep, iproc[p].seen.ep)
     IN ihist' = [ihist EXCEPT !.misled = @ \/ (told /\ h # 0 /\ Lives(h) /\ iproc[h].ep # iproc[p].seen.ep)]
  /\ iproc' = [iproc EXCEPT ![p].pc = "end"]
  /\ UNCHANGED ifile
-----------------------------------------------------------------------------
(* The server, and the end of a process. *)

\* HdcServer::Initial gives up when the mutex is taken or something fails.
InitialServer(p) ==
  /\ At(p, "mutexed") /\ iproc[p].role = "server"
  /\ \/ /\ iproc[p].status = "none"
        /\ iproc' = [iproc EXCEPT ![p].pc = "info"]
        /\ UNCHANGED ihist
     \/ /\ iproc[p].status # "none"
        /\ iproc' = [iproc EXCEPT ![p].dying = TRUE]
        /\ UNCHANGED ihist
     \/ /\ iproc[p].status = "none" /\ Mishap
        /\ iproc' = [iproc EXCEPT ![p].dying = TRUE]
        /\ ihist' = Failed(ihist)
  /\ UNCHANGED ifile

\* A temporary file, then a rename: readers see the old or the new information.
WriteServerInstanceInfo(p) ==
  \/ ifile' = [ifile EXCEPT !.info = [pid |-> p, ep |-> iproc[p].ep]]
  \/ UNCHANGED ifile

\* RunServerMode leaves the endpoint and runs the loop; a failure is only logged.
RunServerMode(p) ==
  /\ At(p, "info")
  /\ WriteServerInstanceInfo(p)
  /\ iproc' = [iproc EXCEPT ![p].pc = "serving"]
  /\ ihist' = [ihist EXCEPT !.served = TRUE]

ProcessEnds(p) ==
  /\ iproc[p].dying
  /\ ifile' = Released(ifile, p)
  /\ iproc' = [iproc EXCEPT ![p] = [Free EXCEPT !.role = "gone"]]
  /\ UNCHANGED ihist

\* The user ends a process at any of its steps; a client may also just finish.
UserKills(p) ==
  /\ Lives(p) /\ Mishap
  /\ iproc' = [iproc EXCEPT ![p].dying = TRUE]
  /\ ihist' = [ihist EXCEPT !.mishaps = @ + 1, !.killed = TRUE]
  /\ UNCHANGED ifile

ClientFinishes(p) ==
  /\ At(p, "end")
  /\ iproc' = [iproc EXCEPT ![p].dying = TRUE]
  /\ UNCHANGED <<ifile, ihist>>
-----------------------------------------------------------------------------
InstanceStep(p) ==
  \/ FoundLocked(p) \/ MutexLock(p) \/ MutexTruncate(p) \/ MutexWrite(p)
  \/ RunClientMode(p) \/ GetLastPID(p) \/ KillMethodByUv(p) \/ PullupServer(p)
  \/ ConnectServer(p) \/ PrintConnectionError(p) \/ InspectInfo(p) \/ InspectServerInstance(p)
  \/ InitialServer(p) \/ RunServerMode(p) \/ ProcessEnds(p) \/ ClientFinishes(p)

InstanceNext == \E p \in ProcIds : InstanceStep(p) \/ MutexFails(p) \/ UserKills(p)

InstanceSpec == InstanceInit /\ [][InstanceNext]_instanceVars
-----------------------------------------------------------------------------
InstanceTypeOK ==
  /\ ifile.lock \in {0} \cup ProcIds /\ ifile.pid \in {0} \cup ProcIds
  /\ ifile.info \in [pid : {0} \cup ProcIds, ep : Endpoints \cup {NoInfo.ep}]
  /\ \A p \in ProcIds : iproc[p].pc \in {"none", "mutex", "truncate", "write", "mutexed", "getpid",
        "kill", "pullup", "connect", "inspect", "info", "serving", "end"}

\* A server has the host to itself (ProgramMutex in HdcServer::Initial): while one
\* is past the mutex no other is, whatever checks, restarts and kills go on around
\* it, and the pid file names it, so that "hdc kill" can find it. Not so when
\* writing the pid failed: ProgramMutex does not notice (base.cpp:1727, 1742), and
\* the server serves with an empty or foreign pid in the file.
OneServer ==
  \A p, q \in ProcIds :
    (/\ iproc[p].role = "server" /\ iproc[p].status = "none"
     /\ iproc[p].pc \in {"mutexed", "info", "serving"})
      => /\ ifile.lock = p /\ (ifile.pid = p \/ p \in ihist.unnoted)
         /\ (iproc[q].role = "server" /\ iproc[q].pc \in {"info", "serving"}) => q = p

\* "kill", "kill -r" and "start -r" end the server they found and nobody else
\* (GetLastPID, KillMethodByUv), and a client that cannot connect is not sent to
\* an endpoint the server it found does not have (InspectServerInstance). Found
\* means: the lock was held by a server that had written its pid, and that server
\* still runs. A lock held by another client's check, or by a server that has not
\* yet written its pid, is taken for a server too, and then the pid in the file is
\* a client's.
FoundServerIsMeant == ~ihist.wrong /\ ~ihist.misled

\* A client that pulls up a server gets one: some server comes to serve, unless a
\* call failed, a process was killed, or the check of another client held the lock
\* just when somebody looked at it (the new server then takes the client for a
\* server and exits).
PulledUpServes ==
  []<>(ihist.pulled => ihist.served \/ ihist.failed \/ ihist.killed \/ ihist.collided)

\* One server, and commands that mean it meet it.
InstanceSafe == InstanceTypeOK /\ OneServer /\ FoundServerIsMeant
-----------------------------------------------------------------------------
(* The inductive invariant: who holds the lock, what the pid in the file and the
   endpoint information mean, and what a client remembers of the server it found. *)

InstanceShape ==
  /\ DOMAIN iproc = ProcIds /\ DOMAIN ifile = {"lock", "pid", "info"}
  /\ DOMAIN ihist = {"mishaps", "failed", "collided", "killed", "pulled", "served", "wrong", "misled", "unnoted"}
  /\ \A p \in ProcIds :
       /\ DOMAIN iproc[p] = {"role", "cmd", "ep", "pc", "goal", "status", "victim", "holder", "seen", "dying"}
       /\ iproc[p].ep \in Endpoints \cup {NoInfo.ep}
       /\ {iproc[p].victim, iproc[p].holder} \subseteq {0} \cup ProcIds
       /\ iproc[p].pc = "kill" => iproc[p].victim # 0
       /\ iproc[p].seen \in [pid : {0} \cup ProcIds, ep : Endpoints \cup {NoInfo.ep}]

\* The first pids are the clients'.
InstanceRoles ==
  \A p \in ProcIds :
    IF p \in 1..InstanceClients
    THEN iproc[p].role \in {"client", "gone"} /\ iproc[p].pc \notin {"info", "serving"}
    ELSE /\ iproc[p].role \in {"free", "server", "gone"}
         /\ iproc[p].role = "free" => ~iproc[p].dying
         /\ iproc[p].role = "server" <=> iproc[p].pc # "none"
         /\ iproc[p].pc \in {"none", "mutex", "truncate", "write", "mutexed", "info", "serving"}

\* A client that may still pull up a server has not done so.
NotPulledUp ==
  \A p \in 1..InstanceClients :
    (\/ iproc[p].pc \in {"getpid", "kill", "pullup"}
     \/ iproc[p].pc \in {"mutex", "truncate", "write", "mutexed"} /\ iproc[p].goal = "start")
      => iproc[FirstServer + p].role = "free"

\* A server that has the mutex and was not turned away.
PastMutex(p) ==
  /\ iproc[p].role = "server" /\ iproc[p].status = "none"
  /\ iproc[p].pc \in {"mutexed", "info", "serving"}

LockInv ==
  \A p \in ProcIds :
    /\ iproc[p].pc \in {"truncate", "write"} => ifile.lock = p
    /\ PastMutex(p) => ifile.lock = p /\ (ifile.pid = p \/ p \in ihist.unnoted)
    /\ iproc[p].pc \in {"info", "serving"} => iproc[p].status = "none"
    /\ iproc[p].role \in {"free", "server"} /\ ~PastMutex(p) => ifile.pid # p

\* The server a client found is gone, or past the mutex with its pid in the file, and
\* is the one the client kills.
FoundInv ==
  \A p \in ProcIds :
    iproc[p].holder # 0 =>
      LET h == iproc[p].holder
      IN /\ iproc[h].role = "gone" \/ (PastMutex(h) /\ ifile.pid = h)
         /\ iproc[p].pc = "kill" => iproc[h].role = "gone" \/ iproc[p].victim = h

\* Endpoint information is that of the server it names.
InfoFits(info) ==
  info.pid # 0 => iproc[info.pid].role = "gone" \/ (PastMutex(info.pid) /\ iproc[info.pid].ep = info.ep)

InstanceInv ==
  /\ InstanceTypeOK /\ InstanceShape /\ InstanceRoles /\ NotPulledUp /\ LockInv /\ FoundInv
  /\ InfoFits(ifile.info) /\ \A p \in ProcIds : InfoFits(iproc[p].seen)
  /\ FoundServerIsMeant
=============================================================================
