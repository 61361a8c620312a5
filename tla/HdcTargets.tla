----------------------------- MODULE HdcTargets -----------------------------
(***************************************************************************)
(* The server's list of targets (HdcServer::mapDaemon) and the operations  *)
(* that keep it: a client's tconn, tconn -remove, reconnect and discover,  *)
(* the detection of USB devices and serial ports, the end of a handshake   *)
(* (on the worker of the session) and FreeSession (on the main thread).    *)
(* An entry is looked up under a lock and then used, copied and written    *)
(* back outside it, so two threads can write over each other.  Entries are *)
(* independent of each other: the module follows one connect key.          *)
(***************************************************************************)
EXTENDS Naturals

CONSTANTS
    MaxTargetSessions,  \* sessions made for the key
    TargetChannels,     \* the clients' channels
    MaxPolls            \* MAX_CONNECT_DEVICE_RETRY_COUNT

ASSUME TargetBounds == MaxTargetSessions \in Nat /\ MaxPolls \in Nat

VARIABLES
    tkind,  \* the kind of the key: "tcp", "local" (127.0.0.1), "usb", "serial"
    tlist,  \* the entry of the key in mapDaemon
    tsess,  \* the sessions of the key
    tchan,  \* the clients' channels
    thist   \* what happened that the code cannot repair

targetVars == <<tkind, tlist, tsess, tchan, thist>>

TargetSessions == 1..MaxTargetSessions
NoSession == 0

\* HdcDaemonInformation; an entry that is not listed is not in mapDaemon.
EntryStatus == {"unknown", "ready", "connected", "offline"}
EntryOK(e) == /\ DOMAIN e = {"listed", "status", "inited", "session"}
              /\ e.status \in EntryStatus
              /\ e.session \in {NoSession} \cup TargetSessions
NotListed == [listed |-> FALSE, status |-> "unknown", inited |-> FALSE, session |-> NoSession]

\* upd: the copy of the entry that UpdateHdiInfo is about to write back.
\* pend: an ASYNC_FREE_SESSION message of this session waits for the main loop.
TargetsTypeOK ==
    /\ tkind \in {"tcp", "local", "usb", "serial"}
    /\ EntryOK(tlist)
    /\ DOMAIN tsess = TargetSessions
    /\ \A s \in TargetSessions :
         /\ DOMAIN tsess[s] = {"state", "run", "shook", "upd", "pend"}
         /\ tsess[s].state \in {"none", "made", "live", "dead", "gone"}
         /\ EntryOK(tsess[s].upd)
    /\ DOMAIN tchan = TargetChannels
    /\ \A c \in TargetChannels : /\ DOMAIN tchan[c] = {"st", "check", "count"}
                                 /\ tchan[c].st \in {"idle", "polling", "done"}
                                 /\ tchan[c].count \in 0..MaxPolls
    /\ DOMAIN thist = {"raced", "gaveUp", "orphaned"}

TargetsInit ==
    /\ tkind \in {"tcp", "local", "usb", "serial"}
    /\ tlist = NotListed
    /\ tsess = [s \in TargetSessions |-> [state |-> "none", run |-> TRUE, shook |-> FALSE,
                                          upd |-> NotListed, pend |-> FALSE]]
    /\ tchan = [c \in TargetChannels |-> [st |-> "idle", check |-> FALSE, count |-> 0]]
    /\ thist = [raced |-> FALSE, gaveUp |-> FALSE, orphaned |-> FALSE]

Usable(s) == tsess[s].state \in {"made", "live"}
Fresh(s) == tsess[s].state = "none" /\ \A t \in TargetSessions : t < s => tsess[t].state # "none"
-----------------------------------------------------------------------------
\* The operations of AdminDaemonMap that write: OP_ADD leaves an entry that is
\* there alone, OP_UPDATE writes only an entry that is there.
AdminDaemonMapAdd(e) == tlist' = IF tlist.listed THEN tlist ELSE e
AdminDaemonMapUpdate(e) == tlist' = IF tlist.listed THEN e ELSE tlist
AdminDaemonMapRemove == tlist' = NotListed

\* What the lists, the wait for a target and the choice of the only target
\* show of an entry: a device that is connected.
Visible(e) == e.listed /\ e.status = "connected"

\* UpdateUSBDaemonInfo, UpdateUARTDaemonInfo: the entry is written as a whole.
Detected(status, s) == [listed |-> TRUE, status |-> status, inited |-> FALSE, session |-> s]

\* NotifyInstanceSessionFree: the entry is found by the key of the session.
NotifyKeepsSession(e) ==
    IF e.listed THEN [e EXCEPT !.inited = FALSE, !.status = "offline"] ELSE e
NotifyInstanceSessionFree(e) ==
    IF e.listed THEN [e EXCEPT !.inited = FALSE, !.status = "offline", !.session = NoSession] ELSE e

\* FreeSession on the main thread, with the sessions and the entry it meets.
MarkDead(ss, s) == IF ss[s].state \in {"made", "live"} THEN [ss EXCEPT ![s].state = "dead"] ELSE ss
Freeing(ss, s, e) ==
    /\ tsess' = MarkDead(ss, s)
    /\ tlist' = IF Usable(s) THEN NotifyInstanceSessionFree(e) ELSE e
    /\ thist' = [thist EXCEPT !.orphaned = @ \/ (/\ Usable(s)
                                                 /\ e.session \notin {NoSession, s})]
-----------------------------------------------------------------------------
\* The device is seen: OrderFindTargets (the broadcast), DetectMyNeed, WatchUartDevPlugin.
OrderFindTargets ==
    /\ tkind \in {"tcp", "local"}
    /\ AdminDaemonMapAdd(Detected("ready", NoSession))
    /\ UNCHANGED <<tkind, tsess, tchan, thist>>

DeviceFound(s) ==
    /\ tkind = "usb" /\ Fresh(s) /\ \A t \in TargetSessions : ~Usable(t)
    /\ tlist' = Detected("ready", NoSession)
    /\ tsess' = [tsess EXCEPT ![s].state = "made"]
    /\ UNCHANGED <<tkind, tchan, thist>>

MayRemovePort(e) == e.listed /\ e.session = NoSession

WatchUartDevPlugin ==
    /\ tkind = "serial"
    /\ \/ ~tlist.listed /\ tlist' = Detected("ready", NoSession)
       \/ MayRemovePort(tlist) /\ AdminDaemonMapRemove
    /\ UNCHANGED <<tkind, tsess, tchan, thist>>
-----------------------------------------------------------------------------
\* CreateConnect: a target that is connected or being connected is refused.
MayConnect(e) == e.status # "connected" /\ ~e.inited

ConnectEntry == IF tlist.listed THEN tlist ELSE [NotListed EXCEPT !.listed = TRUE]
Answered(c) == tchan' = [tchan EXCEPT ![c].st = "done"]

\* HdcHostTCP::ConnectDaemon makes the session; the answer comes from a timer.
ConnectTcp(c, chk) ==
    /\ tkind \in {"tcp", "local"} /\ MayConnect(ConnectEntry)
    /\ \/ \E s \in TargetSessions :
            /\ Fresh(s)
            /\ tsess' = [tsess EXCEPT ![s].state = "made"]
            /\ tlist' = [ConnectEntry EXCEPT !.session = s, !.inited = TRUE]
            /\ tchan' = [tchan EXCEPT ![c] = [st |-> "polling", check |-> chk, count |-> 0]]
       \/ tlist' = ConnectEntry /\ Answered(c) /\ UNCHANGED tsess  \* no session could be made
    /\ UNCHANGED thist

\* HdcHostUART::ConnectDaemon opens the port and always returns null: the
\* client is answered at once, the session is connected by a timer.  An open
\* that fails writes the entry although a session may be listed in it.
ConnectSerial(c) ==
    /\ tkind = "serial" /\ MayConnect(ConnectEntry)
    /\ \/ /\ tlist' = Detected("offline", NoSession)
          /\ UNCHANGED tsess
       \/ \E s \in TargetSessions :
            /\ Fresh(s)
            /\ tlist' = Detected("ready", NoSession)
            /\ tsess' = [tsess EXCEPT ![s].state = "made"]
    /\ Answered(c)
    /\ thist' = [thist EXCEPT !.orphaned = @ \/ \E t \in TargetSessions : Usable(t)]

NewConnectTry(c, chk) ==
    /\ tchan[c].st = "idle"
    /\ \/ ConnectTcp(c, chk)
       \/ ConnectSerial(c)
       \/ /\ tkind = "usb"  \* ERR_NO_SUPPORT
          /\ Answered(c) /\ UNCHANGED <<tlist, tsess, thist>>
       \/ /\ tkind # "usb" /\ ~MayConnect(ConnectEntry)  \* "Target is connected, ..."
          /\ tlist' = ConnectEntry /\ Answered(c) /\ UNCHANGED <<tsess, thist>>
    /\ UNCHANGED tkind

\* HdcHostTCP::Connect, UsbPreConnect, UartPreConnect: the connection stands or
\* the session is freed.  A USB target is CONNECTED before its handshake.
PreConnect(s) ==
    /\ tsess[s].state = "made"
    /\ \/ /\ tkind \in {"tcp", "local"} \/ tlist.listed
          /\ tsess' = [tsess EXCEPT ![s].state = "live"]
          /\ tlist' = CASE tkind = "usb" -> Detected("connected", s)
                        [] tkind = "serial" -> Detected("ready", s)
                        [] OTHER -> tlist
          /\ thist' = [thist EXCEPT !.orphaned = @ \/ (/\ tkind = "serial"
                                                       /\ tlist.session \notin {NoSession, s})]
       \/ Freeing([tsess EXCEPT ![s].run = FALSE], s, tlist)
    /\ UNCHANGED <<tkind, tchan>>
-----------------------------------------------------------------------------
\* HdcServer::UpdateHdiInfo, on the worker of the session: the end of the
\* handshake, in the two steps between which the main thread may run.
UpdateHdiInfoCopy(s) ==
    /\ tsess[s].state = "live" /\ ~tsess[s].shook /\ tlist.listed
    /\ tsess' = [tsess EXCEPT ![s].shook = TRUE,
                    ![s].upd = [tlist EXCEPT !.inited = FALSE, !.status = "connected"]]
    /\ UNCHANGED <<tkind, tlist, tchan, thist>>

UpdateHdiInfoWrite(s) ==
    /\ tsess[s].upd # NotListed
    /\ AdminDaemonMapUpdate(tsess[s].upd)
    /\ tsess' = [tsess EXCEPT ![s].upd = NotListed]
    /\ thist' = [thist EXCEPT !.raced = @ \/ tsess[s].state = "dead"
                                          \/ tlist.session # tsess[s].upd.session]
    /\ UNCHANGED <<tkind, tchan>>

\* The reader finds the connection broken (HdcTCPBase::ReadStream,
\* HdcHostUART::OnTransferErrorInner); the session is freed by a message.
TargetLost(s) ==
    /\ tsess[s].state = "live" \/ (tkind = "serial" /\ tsess[s].state = "dead")
    /\ tsess[s].run
    /\ tsess' = [tsess EXCEPT ![s].run = FALSE, ![s].pend = TRUE]
    /\ tlist' = IF tkind = "serial" THEN Detected("offline", s) ELSE tlist
    /\ thist' = IF tkind = "serial"
                THEN [thist EXCEPT !.raced = @ \/ tsess[s].state = "dead",
                                   !.orphaned = @ \/ tlist.session \notin {NoSession, s}]
                ELSE thist
    /\ UNCHANGED <<tkind, tchan>>

\* FreeSession on the main thread: for a message, or because the handshake
\* failed, the heartbeat stopped or the device is gone.
FreeTarget(s) ==
    /\ tsess[s].pend \/ tsess[s].state = "live"
    /\ Freeing([tsess EXCEPT ![s].pend = FALSE], s, tlist)
    /\ UNCHANGED <<tkind, tchan>>

\* FreeSessionFinally: the worker and the reader have ended.
TargetDeleted(s) ==
    /\ tsess[s].state = "dead" /\ tsess[s].upd = NotListed /\ ~tsess[s].pend
    /\ tsess' = [tsess EXCEPT ![s].state = "gone"]
    /\ UNCHANGED <<tkind, tlist, tchan, thist>>
-----------------------------------------------------------------------------
\* IsDisconnect for an entry that is not connected (a serial one never polls).
OnlyUnlisted(e) == ~e.listed
IsDisconnect(e) == ~e.listed \/ \A s \in TargetSessions : e.session = s => ~tsess[s].run

\* OrderConnecTargetResult: the timer that answers a tconn.
ConnectOk(c) ==
    /\ tlist.listed /\ tlist.status = "connected"
    /\ Answered(c)
    /\ \/ tchan[c].check /\ tlist.session # NoSession /\ Freeing(tsess, tlist.session, tlist)
       \/ (~tchan[c].check \/ tlist.session = NoSession) /\ UNCHANGED <<tlist, tsess, thist>>

ConnectFailed(c) ==
    /\ ~(tlist.listed /\ tlist.status = "connected")
    /\ (tkind = "local" /\ tchan[c].count >= MaxPolls) \/ IsDisconnect(tlist)
    /\ Answered(c)
    /\ AdminDaemonMapUpdate([tlist EXCEPT !.inited = FALSE, !.status = "offline"])
    /\ thist' = [thist EXCEPT !.gaveUp = @ \/ (tlist.listed /\ ~IsDisconnect(tlist))]
    /\ UNCHANGED tsess

PollAgain(c) ==
    /\ ~(tlist.listed /\ tlist.status = "connected") /\ ~IsDisconnect(tlist)
    /\ tkind = "local" /\ tchan[c].count < MaxPolls
    /\ tchan' = [tchan EXCEPT ![c].count = @ + 1]
    /\ UNCHANGED <<tlist, tsess, thist>>

OrderConnecTargetResult(c) ==
    /\ tchan[c].st = "polling"
    /\ ConnectOk(c) \/ ConnectFailed(c) \/ PollAgain(c)
    /\ UNCHANGED tkind

\* tconn -remove, reconnect.
CommandRemoveSession(c) ==
    /\ tchan[c].st = "idle" /\ tlist.listed /\ tlist.session # NoSession
    /\ Freeing(tsess, tlist.session, tlist)
    /\ Answered(c)
    /\ UNCHANGED tkind

CommandReconnectTarget(c) ==
    /\ tchan[c].st = "idle" /\ tkind = "usb" /\ Visible(tlist)
    /\ IF tlist.session # NoSession THEN Freeing(tsess, tlist.session, tlist)
                                    ELSE UNCHANGED <<tlist, tsess, thist>>
    /\ Answered(c)
    /\ UNCHANGED tkind

\* The channel is closed and the client's next command comes on a new one.
ChannelReused(c) ==
    /\ tchan[c].st = "done"
    /\ tchan' = [tchan EXCEPT ![c] = [st |-> "idle", check |-> FALSE, count |-> 0]]
    /\ UNCHANGED <<tkind, tlist, tsess, thist>>

TargetsNext ==
    \/ OrderFindTargets \/ WatchUartDevPlugin
    \/ \E c \in TargetChannels :
         \/ \E chk \in BOOLEAN : NewConnectTry(c, chk)
         \/ OrderConnecTargetResult(c) \/ CommandRemoveSession(c)
         \/ CommandReconnectTarget(c) \/ ChannelReused(c)
    \/ \E s \in TargetSessions :
         \/ DeviceFound(s) \/ PreConnect(s) \/ UpdateHdiInfoCopy(s) \/ UpdateHdiInfoWrite(s)
         \/ TargetLost(s) \/ FreeTarget(s) \/ TargetDeleted(s)

TargetsSpec == TargetsInit /\ [][TargetsNext]_targetVars
-----------------------------------------------------------------------------
\* The session an entry names has not been deleted: tconn -remove, check
\* and the search for a command's session follow the pointer without a lock
\* or a reference.  The exception is a write of the entry that another
\* thread prepared before FreeSession and finished after it.
ListedSessionExists ==
    thist.raced \/ tlist.session = NoSession \/ tsess[tlist.session].state # "gone"

\* No write of the entry has raced, no session that still runs was given up,
\* and the end of no session was written over the entry of another.
WritesOrdered == ~thist.raced /\ ~thist.gaveUp /\ ~thist.orphaned

\* A network target has one working session at a time, however clients
\* repeat tconn while a connection is under way: CreateConnect refuses.  The
\* exceptions are real: a tconn to the local host that gave up on a session
\* that still runs, and an old session whose late end, or late handshake, is
\* written over the entry of the session that has replaced it.
OneSessionPerTarget ==
    tkind \in {"tcp", "local"} /\ WritesOrdered =>
        \A s, t \in TargetSessions :
            Usable(s) /\ tsess[s].run /\ Usable(t) /\ tsess[t].run => s = t

\* A session whose handshake is done can be found: its target is shown as
\* connected and leads to it, however other clients, the watchers of the
\* devices and the ends of other sessions write the entry, with the same
\* exceptions.
ConnectedIsListed ==
    \A s \in TargetSessions :
        /\ tsess[s].state = "live" /\ tsess[s].shook /\ tsess[s].upd = NotListed /\ tsess[s].run
        /\ WritesOrdered
        => Visible(tlist) /\ tlist.session = s

\* The session the entry names is connected and the end of its handshake is not
\* in sight: nothing in the server limits it (HdcHostTCP::Connect).
PeerSilent ==
    \E s \in TargetSessions : /\ tlist.session = s /\ tsess[s].state = "live"
                              /\ tsess[s].run /\ ~tsess[s].shook

\* Every tconn is answered: the target connects, or its end is noticed.  The one
\* that is not waits for a device of the network that is connected and silent; for
\* the local host OrderConnecTargetResult counts.
TconnAnswered ==
    \A c \in TargetChannels : []<>(tchan[c].st = "polling" => tkind = "tcp" /\ PeerSilent)

\* The list of targets is true to the sessions: it leads to none that is deleted,
\* to every one that works, and a network target has only one (AdminDaemonMap).
TargetsListed == TargetsTypeOK /\ ListedSessionExists /\ OneSessionPerTarget /\ ConnectedIsListed
-----------------------------------------------------------------------------
(* The inductive invariant of TargetsListed *)

\* Only what is listed has a session; the copy that UpdateHdiInfo will write is
\* of a listed entry, and its session has not been deleted.
EntriesFit ==
    /\ ~tlist.listed => tlist.session = NoSession
    /\ \A s \in TargetSessions :
         tsess[s].upd # NotListed => /\ tsess[s].upd.listed /\ tsess[s].upd.status = "connected"
                                     /\ tsess[s].state \in {"live", "dead"}
    /\ \A s \in TargetSessions : tsess[s].state \in {"none", "made"} => ~tsess[s].shook
    /\ \A c \in TargetChannels : tchan[c].st = "polling" => tkind \in {"tcp", "local"}

\* FreeSession takes the session out of the entry before it can be deleted.
ListedIsUsable == ~thist.raced /\ tlist.session # NoSession => Usable(tlist.session)

\* A device and a port have one session that is not dead.
OneUsable == tkind \notin {"tcp", "local"} /\ ~thist.orphaned =>
                 \A s, t \in TargetSessions : Usable(s) /\ Usable(t) => s = t

\* A session that works is the one its entry leads to: a network session from
\* the start (with inited, until it is connected, which keeps CreateConnect out).
WorkingIsListed ==
    WritesOrdered =>
        \A s \in TargetSessions :
            /\ tsess[s].run
            /\ tsess[s].state = "live" \/ (tkind \in {"tcp", "local"} /\ tsess[s].state = "made")
            => /\ tlist.listed /\ tlist.session = s
               /\ tkind \in {"tcp", "local"} => tlist.inited \/ tlist.status = "connected"
               /\ tsess[s].shook /\ tsess[s].upd = NotListed => tlist.status = "connected"

TargetsInv == TargetsTypeOK /\ EntriesFit /\ ListedIsUsable /\ OneUsable /\ WorkingIsListed
=============================================================================
