------------------------------ MODULE HdcJdwp ------------------------------
(***************************************************************************)
(* Debuggable processes.  An application keeps a connection to the         *)
(* daemon's socket ohjpid-control and says who it is; the daemon lists the *)
(* connected processes, tells the tasks that track the list and passes on  *)
(* descriptors.  The parameter persist.hdc.jdwp tells the applications     *)
(* that a daemon listens again.                                            *)
(***************************************************************************)
EXTENDS Naturals, Sequences, FiniteSets, SequencesExt

CONSTANTS Pids,       \* processes
          Trackers,   \* tasks of "track-jpid"
          MaxLinks,   \* connections at one time
          MaxList,    \* processes whose lines fit into one message
          Scenarios   \* the packages, maxMapSize (1024) who tracks and how often each side may start

PkgKinds == {"debug", "release", "invalid"}  \* invalid: the message is too long or too short

ASSUME JdwpBounds == /\ MaxLinks \in Nat /\ MaxList \in Nat
                     /\ Scenarios \subseteq [pkg : [Pids -> PkgKinds], maxMapSize : Nat,
                                       daemon : Nat, app : [Pids -> Nat], tracks : SUBSET Trackers]

VARIABLES jd,    \* the daemon's HdcJdwp
          japp,  \* the HdcJdwpSimulator of each process
          jlink, \* the connections: end of the application, HCtxJdwp of the daemon
          jtrack \* jdwpTrackers

jdwpVars == <<jd, japp, jlink, jtrack>>

Links == 1 .. MaxLinks
Ahead(q, a, b) == \E i, j \in 1 .. Len(q) : i < j /\ q[i] = a /\ q[j] = b
NoApp(pkg, starts) == [pc |-> "off", pkg |-> pkg, starts |-> starts, link |-> 0, note |-> FALSE,
                       notified |-> FALSE, disconnectFlag |-> FALSE, gaveUp |-> FALSE]
NoLink == [app |-> "none", pid |-> "none", msg |-> FALSE, fd |-> FALSE,
           ctx |-> "none", known |-> FALSE, finish |-> FALSE]
NoTracker == [st |-> "none", dr |-> 0, last |-> {}, ahead |-> {}, missed |-> FALSE]

JdwpStart(s) ==
  /\ jd = [pc |-> "down", ready |-> <<>>, backlog |-> <<>>, mapCtxJdwp |-> [p \in Pids |-> 0],
           starts |-> s.daemon, tracks |-> s.tracks, maxMapSize |-> s.maxMapSize, turnedAway |-> {}]
  /\ japp = [p \in Pids |-> NoApp(s.pkg[p], s.app[p])]
  /\ jlink = [l \in Links |-> NoLink]
  /\ jtrack = [t \in Trackers |-> NoTracker]
JdwpInit == \E s \in Scenarios : JdwpStart(s)
-----------------------------------------------------------------------------
(* The daemon's list                                                       *)

\* GetProcessList, GetProcessListExtendPkgName: everything (0) or what can
\* be debugged (1).
GetProcessList(map, dr) == {p \in Pids : map[p] # 0 /\ (dr = 1 => japp[p].pkg = "debug")}

\* JdwpProcessListMsg: a list that does not fit is not sent at all (the
\* length it is cut to leaves no room for the header).
JdwpProcessListMsg(tr, map) ==
  LET list == GetProcessList(map, tr.dr)
  IN  IF Cardinality(list) > MaxList THEN tr ELSE [tr EXCEPT !.last = list]

\* A tracker without u ahead of it in the vector jdwpTrackers.
NotBehind(tr, u) == [tr EXCEPT !.ahead = @ \ u]

\* The stopped tracker the loop of ProcessListUpdated meets first.
FirstStopped == {t \in Trackers : jtrack[t].st = "stopped" /\ \A u \in jtrack[t].ahead : jtrack[u].st # "stopped"}

\* ProcessListUpdated: from the front of the vector, up to the first tracker that
\* has stopped. It leaves the vector, and the iterator erase returns is the end of
\* it: who is behind is not told (missed, history).
ProcessListUpdated(map) ==
  [t \in Trackers |->
     CASE t \in FirstStopped -> [jtrack[t] EXCEPT !.st = "removed", !.ahead = {}]
       [] t \notin FirstStopped /\ jtrack[t].ahead \cap FirstStopped # {} ->
            [NotBehind(jtrack[t], FirstStopped) EXCEPT !.missed = TRUE]
       [] t \notin FirstStopped /\ jtrack[t].ahead \cap FirstStopped = {} /\ jtrack[t].st = "tracks" ->
            JdwpProcessListMsg([jtrack[t] EXCEPT !.missed = FALSE], map)
       [] OTHER -> jtrack[t]]

Listed(map) == {p \in Pids : map[p] # 0}

\* AdminContext(OP_ADD): a full list takes nobody; its place is not kept.
AddContext(d, p, l) ==
  IF Cardinality(Listed(d.mapCtxJdwp)) < d.maxMapSize THEN [d EXCEPT !.mapCtxJdwp[p] = l]
  ELSE [d EXCEPT !.turnedAway = @ \cup {l}]

\* Mutant: the end of a connection leaves its entry in the list.
KeepEntry(d, l) == d

\* AdminContext(OP_REMOVE), part of FreeJdwpContext: by pid; not once Stop has run.
FreeJdwpContext(d, l) ==
  IF jlink[l].finish \/ ~jlink[l].known \/ d.pc = "stopping" THEN d
  ELSE [d EXCEPT !.mapCtxJdwp[jlink[l].pid] = 0]

\* The elements of S in the order they have in q, where none is twice.
Keep(q, S) == {s \in [1 .. Cardinality(S) -> S] :
                 /\ ToSet(s) = S
                 /\ \A i, j \in DOMAIN s : i < j => Ahead(q, s[i], s[j])}

\* The pipe of a context has become readable.
Readable(d, l) == IF Contains(d.ready, l) THEN d ELSE [d EXCEPT !.ready = Append(@, l)]

\* MallocContext: contexts are read as soon as they are accepted.
Accepted(links) == [l \in Links |-> IF l \in links THEN [jlink[l] EXCEPT !.ctx = "open"] ELSE jlink[l]]

\* Listen pipe (0): AcceptClient for the whole backlog.
AcceptClient ==
  /\ jd.pc = "up" /\ jd.ready # <<>> /\ Head(jd.ready) = 0
  /\ jlink' = Accepted(ToSet(jd.backlog))
  /\ \E s \in Keep(jd.backlog, {l \in ToSet(jd.backlog) : jlink[l].msg \/ jlink[l].app = "closed"}) :
       jd' = [jd EXCEPT !.backlog = <<>>, !.ready = Tail(@) \o s]
  /\ UNCHANGED <<japp, jtrack>>

\* One read: a message registers its context or, when its size is wrong,
\* ends it; the end of the stream, which libuv reports with the last of the
\* data, ends it too.  The code takes the pid from the message and does not check
\* it; HdcJdwpSimulator puts its own there, as here.  (The first read also sets the
\* parameter to "0", which wakes nobody: see JdwpListen.)
ReadMessage(l) ==
  LET p == jlink[l].pid
      ok == japp[p].pkg # "invalid"
      d == [jd EXCEPT !.ready = IF jlink[l].app = "closed" THEN @ ELSE Tail(@)]
  IN  /\ jlink[l].msg
      /\ jlink' = [jlink EXCEPT ![l].msg = FALSE, ![l].known = ok, ![l].finish = @ \/ ~ok]
      /\ jd' = IF ok THEN AddContext(d, p, l) ELSE d
      /\ jtrack' = ProcessListUpdated(jd'.mapCtxJdwp)

ReadEnd(l) ==
  /\ ~jlink[l].msg
  /\ jlink' = [jlink EXCEPT ![l].finish = TRUE]
  /\ jd' = FreeJdwpContext([jd EXCEPT !.ready = Tail(@)], l)
  /\ jtrack' = IF jd.pc = "stopping" THEN jtrack ELSE ProcessListUpdated(jd'.mapCtxJdwp)

ReadStream ==
  /\ jd.pc \in {"up", "stopping"} /\ jd.ready # <<>> /\ Head(jd.ready) # 0
  /\ LET l == Head(jd.ready) IN
       IF jlink[l].ctx # "open" THEN jd' = [jd EXCEPT !.ready = Tail(@)] /\ UNCHANGED <<jlink, jtrack>>
       ELSE ReadMessage(l) \/ ReadEnd(l)
  /\ UNCHANGED japp

\* funcReqClose on a later turn: the pipe is closed and the context deleted.
ContextDeleted(l) ==
  /\ jlink[l].ctx = "open" /\ jlink[l].finish
  /\ jlink' = [jlink EXCEPT ![l] = IF @.app = "closed" THEN NoLink ELSE [@ EXCEPT !.ctx = "deleted"]]
  /\ \E s \in Keep(jd.ready, ToSet(jd.ready) \ {l}) : jd' = [jd EXCEPT !.turnedAway = @ \ {l}, !.ready = s]
  /\ UNCHANGED <<japp, jtrack>>
-----------------------------------------------------------------------------
(* The daemon's start and end                                              *)

\* Initial: first the socket, then the parameter, to "0" and to "1", so that it
\* changes at every start. (The "0" of the first ReadStream wakes nobody:
\* ParameterChanged returns at once.)
JdwpListen ==
  /\ jd.pc = "down" /\ jd.starts > 0
  /\ jd' = [jd EXCEPT !.pc = "listening", !.starts = @ - 1]
  /\ UNCHANGED <<japp, jlink, jtrack>>

SetDevItem ==
  /\ jd.pc = "listening"
  /\ jd' = [jd EXCEPT !.pc = "up"]
  /\ japp' = [p \in Pids |-> [japp[p] EXCEPT !.note = japp[p].pc # "off" /\ ~japp[p].disconnectFlag]]
  /\ UNCHANGED <<jlink, jtrack>>

\* Stop: the contexts of the list are freed and the list is cleared; the
\* loop goes on for a while.
Stop ==
  /\ jd.pc = "up"
  /\ jlink' = [l \in Links |-> IF \E p \in Pids : jd.mapCtxJdwp[p] = l THEN [jlink[l] EXCEPT !.finish = TRUE]
                               ELSE jlink[l]]
  /\ \E s \in Keep(jd.ready, ToSet(jd.ready) \ {0}) :
       jd' = [jd EXCEPT !.pc = "stopping", !.mapCtxJdwp = [p \in Pids |-> 0], !.ready = s]
  /\ jtrack' = ProcessListUpdated(jd'.mapCtxJdwp)
  /\ UNCHANGED japp

\* The process ends, on its own after Stop or at any time; the kernel closes
\* what it had.
DaemonExits ==
  /\ jd.pc # "down"
  /\ jd' = [jd EXCEPT !.pc = "down", !.ready = <<>>, !.backlog = <<>>, !.turnedAway = {},
                      !.mapCtxJdwp = [p \in Pids |-> 0]]
  /\ jlink' = [l \in Links |-> IF jlink[l].app = "open" THEN [jlink[l] EXCEPT !.ctx = "deleted"] ELSE NoLink]
  /\ jtrack' = [t \in Trackers |-> NoTracker]
  /\ UNCHANGED japp
-----------------------------------------------------------------------------
(* Descriptors and trackers                                                *)

CheckPIDExist(p) == jd.mapCtxJdwp[p] # 0

\* SendJdwpNewFD, SendArkNewFD: through the pipe of the listed context; a
\* failing send closes the descriptor too.
SendNewFD(p) ==
  /\ jd.pc = "up" /\ CheckPIDExist(p)
  /\ jlink' = [jlink EXCEPT ![jd.mapCtxJdwp[p]].fd = jlink[jd.mapCtxJdwp[p]].app = "open"]
  /\ UNCHANGED <<jd, japp, jtrack>>

\* The trackers in the vector.
InVector == {t \in Trackers : jtrack[t].st \in {"tracks", "stopped"}}

\* CreateJdwpTracker: to the end of the vector, with the first list at once.
CreateJdwpTracker(t) ==
  /\ jd.pc = "up" /\ jtrack[t].st = "none" /\ t \in jd.tracks
  /\ \E dr \in {0, 1} :
       jtrack' = [jtrack EXCEPT ![t] =
         JdwpProcessListMsg([NoTracker EXCEPT !.st = "tracks", !.dr = dr, !.ahead = InVector], jd.mapCtxJdwp)]
  /\ UNCHANGED <<jd, japp, jlink>>

\* The task is told to stop (taskStop) and deleted later, with its entry.
TrackerStops(t) ==
  /\ jtrack[t].st = "tracks"
  /\ jtrack' = [jtrack EXCEPT ![t].st = "stopped"]
  /\ UNCHANGED <<jd, japp, jlink>>

RemoveJdwpTracker(t) ==
  /\ jtrack[t].st \in {"stopped", "removed"}
  /\ jtrack' = [u \in Trackers |-> IF u = t THEN NoTracker ELSE NotBehind(jtrack[u], {t})]
  /\ UNCHANGED <<jd, japp, jlink>>
-----------------------------------------------------------------------------
(* The application                                                         *)

SetApp(p, r) == japp' = [japp EXCEPT ![p] = r]

\* The application's end of its link is closed.
CloseCfd(p) ==
  LET l == japp[p].link
      gone == l # 0 /\ jlink[l].ctx = "deleted"
  IN  /\ jlink' = IF l = 0 THEN jlink
                  ELSE [jlink EXCEPT ![l] = IF gone THEN NoLink ELSE [@ EXCEPT !.app = "closed", !.fd = FALSE]]
      /\ jd' = IF l = 0 \/ gone \/ jlink[l].ctx # "open" THEN jd ELSE Readable(jd, l)

\* StartConnect: a new simulator and its thread, as soon as there is none or it has
\* been deleted; a thread left over from before is followed no further.
StartConnect(p) ==
  /\ (japp[p].pc = "off" \/ japp[p].disconnectFlag) /\ japp[p].starts > 0
  /\ SetApp(p, [NoApp(japp[p].pkg, japp[p].starts - 1) EXCEPT !.pc = "connect"])
  /\ UNCHANGED <<jd, jlink, jtrack>>

\* Connect2Jdwp: a socket that listens takes the connection into its backlog. It
\* fails when nobody listens, when there is no descriptor, or when the backlog stays
\* full for the time of three tries (gaveUp, history: while the daemon was up).
Connect2Jdwp(p) ==
  /\ japp[p].pc = "connect" /\ ~japp[p].disconnectFlag /\ UNCHANGED jtrack
  /\ \/ /\ jd.pc \in {"listening", "up"}
        /\ \E l \in Links :
             /\ jlink[l].app = "none" /\ \A k \in Links : k < l => jlink[k].app # "none"
             /\ jlink' = [jlink EXCEPT ![l] = [NoLink EXCEPT !.app = "open", !.pid = p]]
             /\ jd' = Readable([jd EXCEPT !.backlog = Append(@, l)], 0)
             /\ SetApp(p, [japp[p] EXCEPT !.pc = "send", !.link = l])
     \/ /\ SetApp(p, [japp[p] EXCEPT !.pc = "refused", !.gaveUp = jd.pc = "up"])
        /\ UNCHANGED <<jd, jlink>>

\* WaitForJdwp: under mutex_ the condition is looked at ("checked"), then the thread
\* sleeps, which gives the mutex back ("wait"); the flag is cleared without it.
WaitForJdwp(p) ==
  /\ \/ /\ japp[p].pc = "refused"
        /\ SetApp(p, [japp[p] EXCEPT !.pc = IF japp[p].notified \/ japp[p].disconnectFlag THEN "woken" ELSE "checked"])
     \/ japp[p].pc = "checked" /\ SetApp(p, [japp[p] EXCEPT !.pc = "wait"])
     \/ japp[p].pc = "wait" /\ japp[p].notified /\ SetApp(p, [japp[p] EXCEPT !.pc = "woken"])
     \/ japp[p].pc = "woken" /\ SetApp(p, [japp[p] EXCEPT !.pc = "connect", !.notified = FALSE, !.gaveUp = FALSE])
  /\ UNCHANGED <<jd, jlink, jtrack>>

\* Mutant: only a thread that waits is told.
NotifyWaiting(p) ==
  /\ japp[p].note
  /\ SetApp(p, [japp[p] EXCEPT !.note = FALSE, !.notified = japp[p].pc = "wait"])
  /\ UNCHANGED <<jd, jlink, jtrack>>

\* ParameterChanged, called by the parameter service some time after the change;
\* under mutex_.
ParameterChanged(p) ==
  /\ japp[p].note /\ japp[p].pc # "checked"
  /\ SetApp(p, [japp[p] EXCEPT !.note = FALSE, !.notified = TRUE])
  /\ UNCHANGED <<jd, jlink, jtrack>>

\* Send2Jdwp: one write; it fails when the daemon's end is closed.
Send2Jdwp(p) ==
  LET l == japp[p].link IN
  /\ japp[p].pc = "send" /\ ~japp[p].disconnectFlag /\ UNCHANGED jtrack
  /\ IF jlink[l].ctx = "deleted"
     THEN CloseCfd(p) /\ SetApp(p, [japp[p] EXCEPT !.pc = "connect", !.link = 0])
     ELSE /\ jlink' = [jlink EXCEPT ![l].msg = TRUE]
          /\ jd' = IF jlink[l].ctx = "open" THEN Readable(jd, l) ELSE jd
          /\ SetApp(p, [japp[p] EXCEPT !.pc = "read"])

\* ReadFromJdwp: a descriptor goes to the callback; the peer's end or an
\* error ends it, and Connect starts again.
ReadFromJdwp(p) ==
  LET l == japp[p].link IN
  /\ japp[p].pc = "read" /\ ~japp[p].disconnectFlag /\ UNCHANGED jtrack
  /\ \/ jlink[l].fd /\ jlink' = [jlink EXCEPT ![l].fd = FALSE] /\ UNCHANGED <<jd, japp>>
     \/ /\ jlink[l].ctx = "deleted" /\ ~jlink[l].fd
        /\ CloseCfd(p) /\ SetApp(p, [japp[p] EXCEPT !.pc = "connect", !.link = 0])

\* Disconnect, from StopConnect, and the destructor: the flag, a notification and the
\* end of the descriptor and of the watch, without mutex_: a thread that has looked at
\* the condition and does not sleep yet misses the notification and sleeps on. The
\* simulator is deleted under its thread, which is followed to its end only.
Disconnect(p) ==
  /\ japp[p].pc \notin {"off", "ended"} /\ ~japp[p].disconnectFlag
  /\ CloseCfd(p)
  /\ SetApp(p, [japp[p] EXCEPT !.disconnectFlag = TRUE, !.link = 0, !.note = FALSE,
                               !.pc = IF @ = "wait" THEN "woken" ELSE @])
  /\ UNCHANGED jtrack

\* Connect returns.
ConnectReturns(p) ==
  /\ japp[p].disconnectFlag /\ japp[p].pc \in {"connect", "send", "read"}
  /\ SetApp(p, [japp[p] EXCEPT !.pc = "ended", !.note = FALSE])
  /\ UNCHANGED <<jd, jlink, jtrack>>

\* The process is killed; its pid may be used again.
AppDies(p) ==
  /\ japp[p].pc # "off"
  /\ CloseCfd(p)
  /\ SetApp(p, NoApp(japp[p].pkg, japp[p].starts))
  /\ UNCHANGED jtrack
-----------------------------------------------------------------------------
DaemonStep == AcceptClient \/ ReadStream \/ \E l \in Links : ContextDeleted(l)

SimulatorStep(p) == \/ Connect2Jdwp(p) \/ WaitForJdwp(p) \/ ParameterChanged(p) \/ Send2Jdwp(p)
                    \/ ReadFromJdwp(p) \/ ConnectReturns(p)

JdwpNext ==
  \/ DaemonStep \/ JdwpListen \/ SetDevItem \/ Stop \/ DaemonExits
  \/ \E p \in Pids : SendNewFD(p) \/ StartConnect(p) \/ SimulatorStep(p) \/ Disconnect(p) \/ AppDies(p)
  \/ \E t \in Trackers : CreateJdwpTracker(t) \/ TrackerStops(t) \/ RemoveJdwpTracker(t)

JdwpSpec == JdwpInit /\ [][JdwpNext]_jdwpVars
-----------------------------------------------------------------------------
(* Properties                                                              *)

\* The list never leads to a context that is being deleted, and a context in
\* it belongs to that process: a descriptor for one process never goes to
\* another (SendJdwpNewFD, SendArkNewFD, GetProcessListExtendPkgName).
ListLeadsToContext ==
  jd.pc = "up" => \A p \in Pids : LET l == jd.mapCtxJdwp[p] IN
    l # 0 => jlink[l].ctx = "open" /\ ~jlink[l].finish /\ jlink[l].pid = p

\* Once the loop has served what was ready, the list is the set of connected
\* processes: none that has gone stays, and none that has reconnected is
\* removed by the end of its old connection; only a full list leaves one out.
ListIsConnected ==
  (jd.pc = "up" /\ jd.ready = <<>>) =>
    \A l \in Links : /\ (jlink[l].ctx = "open" /\ jlink[l].known /\ jlink[l].app = "open")
                          => jd.mapCtxJdwp[jlink[l].pid] = l \/ l \in jd.turnedAway
                     /\ jlink[l].app = "closed" => \A p \in Pids : jd.mapCtxJdwp[p] # l

\* A tracker that has not been stopped has been sent the list as it is now.
\* Exceptions, where the code does not tell it: the list does not fit into a message
\* (jdwp.cpp:551), or at the last change the loop ended at a stopped tracker ahead of
\* this one (jdwp.cpp:611); the next change then reaches it, or ends at another.
TrackersCurrent ==
  \A t \in Trackers : jtrack[t].st = "tracks" /\ ~jtrack[t].missed =>
    LET list == GetProcessList(jd.mapCtxJdwp, jtrack[t].dr)
    IN  Cardinality(list) > MaxList \/ jtrack[t].last = list

\* An application that wants to be debugged is listed again after every
\* restart of the daemon: no notification is lost between a failed connect,
\* the wait and the new socket. Exceptions: a list that is full, and a connection
\* given up while the daemon was up (no descriptor, or a full backlog,
\* hdc_jdwp.cpp:91-117), after which WaitForJdwp waits for the daemon's next start.
Wants(p) == /\ jd.pc = "up" /\ japp[p].pc \notin {"off", "ended"} /\ ~japp[p].disconnectFlag
            /\ japp[p].pkg # "invalid" /\ ~japp[p].gaveUp
AppIsListed == \A p \in Pids :
  []<>(Wants(p) => CheckPIDExist(p) \/ japp[p].link \in jd.turnedAway)

\* The list of debuggable processes is the set of connected ones, leads to live
\* contexts, and is what the trackers have been told (but for those TrackersCurrent
\* excepts).
JdwpSafe == ListLeadsToContext /\ ListIsConnected /\ TrackersCurrent
-----------------------------------------------------------------------------
(* The inductive invariant                                                 *)

JdwpShape ==
  /\ DOMAIN jd = {"pc", "ready", "backlog", "mapCtxJdwp", "starts", "tracks", "maxMapSize", "turnedAway"}
  /\ jd.pc \in {"down", "listening", "up", "stopping"}
  /\ jd.ready \in Seq(Links \cup {0}) /\ jd.backlog \in Seq(Links)
  /\ DOMAIN jd.mapCtxJdwp = Pids
  /\ DOMAIN japp = Pids /\ \A p \in Pids : DOMAIN japp[p] = DOMAIN NoApp(0, 0)
  /\ DOMAIN jlink = Links /\ \A l \in Links : DOMAIN jlink[l] = DOMAIN NoLink
  /\ DOMAIN jtrack = Trackers /\ \A t \in Trackers : DOMAIN jtrack[t] = DOMAIN NoTracker

\* A process has at most one open connection, and that is its descriptor.
AppFits(p) ==
  /\ japp[p].link # 0 => /\ japp[p].link \in Links /\ jlink[japp[p].link].pid = p
                         /\ jlink[japp[p].link].app = "open"
  /\ japp[p].pc \notin {"send", "read"} \/ japp[p].disconnectFlag => japp[p].link = 0
  /\ japp[p].pc \in {"send", "read"} /\ ~japp[p].disconnectFlag => japp[p].link # 0
LinkFits(l) ==
  /\ jlink[l].app \in {"none", "open", "closed"} /\ jlink[l].ctx \in {"none", "open", "deleted"}
  /\ jlink[l].msg \in BOOLEAN /\ jlink[l].known \in BOOLEAN /\ jlink[l].finish \in BOOLEAN
  /\ jlink[l].app = "none" => jlink[l] = NoLink
  /\ jlink[l].app # "none" => jlink[l].pid \in Pids
  /\ jlink[l].app = "open" => japp[jlink[l].pid].link = l
  /\ jlink[l].app = "closed" => jlink[l].ctx # "deleted"
AppsFit == (\A p \in Pids : AppFits(p)) /\ (\A l \in Links : LinkFits(l))

\* What waits in the backlog, what is ready, and a message that has not been read.
Once(q) == \A i, j \in 1 .. Len(q) : q[i] = q[j] => i = j
QueueFits(l) ==
  /\ Contains(jd.backlog, l) <=> jlink[l].ctx = "none" /\ jlink[l].app # "none"
  /\ Contains(jd.ready, l) => jlink[l].ctx = "open" /\ (jlink[l].msg \/ jlink[l].app = "closed")
  /\ jlink[l].ctx = "open" /\ ~jlink[l].finish /\ (jlink[l].msg \/ jlink[l].app = "closed")
       => Contains(jd.ready, l)
  /\ jlink[l].ctx = "none" => ~jlink[l].known /\ ~jlink[l].finish
  /\ jlink[l].ctx # "deleted" /\ jlink[l].msg => ~jlink[l].known /\ ~jlink[l].finish
  /\ jlink[l].ctx # "deleted" /\ jlink[l].finish => jlink[l].app = "closed" \/ ~jlink[l].known
  /\ jlink[l].ctx # "deleted" /\ jlink[l].app = "open" /\ japp[jlink[l].pid].pc = "send"
       => ~jlink[l].known /\ ~jlink[l].finish /\ ~jlink[l].msg
QueuesFit == Once(jd.ready) /\ Once(jd.backlog) /\ \A l \in Links : QueueFits(l)

\* Of two connections of a process the older one is closed, and the end of it is
\* read before anything of the newer one.
Unread(l) == jlink[l].app # "none" /\ jlink[l].ctx # "deleted" /\ ~jlink[l].finish
Before(k, l) ==
  /\ jlink[k].app = "closed" /\ ~jlink[l].known
  /\ \/ Ahead(jd.backlog, k, l)
     \/ Contains(jd.ready, k) /\ (Ahead(jd.ready, k, l) \/ ~Contains(jd.ready, l))
OldestFirst ==
  \A k, l \in Links :
    k # l /\ jlink[k].pid = jlink[l].pid /\ Unread(k) /\ Unread(l) => Before(k, l) \/ Before(l, k)

ListFits ==
  /\ \A p \in Pids : LET l == jd.mapCtxJdwp[p] IN
       l # 0 => l \in Links /\ jlink[l].ctx = "open" /\ jlink[l].known /\ ~jlink[l].finish /\ jlink[l].pid = p
  /\ \A l \in Links : jlink[l].ctx = "open" /\ jlink[l].known /\ ~jlink[l].finish
       => jd.mapCtxJdwp[jlink[l].pid] = l \/ l \in jd.turnedAway

\* While it stops the daemon leaves the list alone; nothing is said of it then.
Serving == QueuesFit /\ OldestFirst /\ ListFits
JdwpInv == JdwpShape /\ AppsFit /\ TrackersCurrent /\ (jd.pc # "stopping" => Serving)
=============================================================================
