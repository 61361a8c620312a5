------------------------------- MODULE HdcUsb -------------------------------
(***************************************************************************)
(* The USB transport.  The host detects the device, opens it and drains    *)
(* what an old session left; a thread of each host session reads the bulk  *)
(* endpoint.  The daemon reads its FunctionFS endpoints in the main loop   *)
(* and gives what it reads to the worker of the current session.  A packet *)
(* is a header with the session and the size, and then its pieces.         *)
(***************************************************************************)
EXTENDS Naturals, Sequences, SequencesExt

CONSTANTS MaxUsbSessions,  \* sessions the host makes, one after the other
          MaxUsbPackets,   \* packets each end sends, in all its sessions
          MaxEpResets,     \* times the daemon opens its endpoints
          WireSize,        \* transfers under way in one direction
          Pieces,          \* pieces of a packet
          MaxReviews,      \* timers of ReviewUsbNodeLater at a time
          MaxFaults        \* transfers that fail, sessions that are freed and foreign packets

ASSUME UsbBounds == /\ {MaxUsbSessions, MaxUsbPackets, MaxEpResets, MaxReviews, MaxFaults} \subseteq Nat
                    /\ {WireSize, Pieces} \subseteq Nat \ {0}

VARIABLES uhost,  \* sessions of the host, mapIgnoreDevice
          udmn,   \* endpoints, reader and sessions of the daemon
          uwire,  \* the two directions of the cable
          ulog    \* history: pieces sent and given to the workers

usbVars == <<uhost, udmn, uwire, ulog>>

UsbIds == 1 .. MaxUsbSessions

\* Something goes wrong: the environment does it MaxFaults times.
FaultLeft == uwire.faults < MaxFaults
Fault(w) == [w EXCEPT !.faults = @ + 1]

Item(k, s, m, p) == [k |-> k, s |-> s, m |-> m, p |-> p]
Transfer(s, x) == IF x.pc = 0 THEN Item("head", s, x.m + 1, 0) ELSE Item("piece", s, x.m, x.pc)
Piece(s, m, p) == <<s, Pieces * (m - 1) + p>>
Packets(ses) == FoldFunction(LAMBDA x, n : x.m + n, 0, ses)  \* that this end has sent

\* reader: "clear" is the request that drains the cable on the thread pool, "check"
\* to "end" the reading thread, which has a reference, "unref" its last lines.
HostSession == [st |-> "none", dead |-> FALSE, ask |-> FALSE, reader |-> "none", shutIn |-> TRUE, shutOut |-> TRUE,
                cancelled |-> FALSE, late |-> FALSE, payloadSize |-> 0, resetIO |-> FALSE,
                pc |-> 0, m |-> 0, gen |-> 0]
DaemonSession == [st |-> "none", deleted |-> FALSE, ask |-> FALSE, isSoftReset |-> FALSE, payloadSize |-> 0,
                  pc |-> 0, m |-> 0, again |-> FALSE]

UsbInit ==
  /\ uhost = [ses |-> [s \in UsbIds |-> HostSession], next |-> 1, ignore |-> "none", reviews |-> 0, stale |-> FALSE]
  /\ udmn = [isAlive |-> FALSE, atPollQueue |-> FALSE, reading |-> FALSE, ep |-> "closed", gen |-> 0,
             current |-> 0, ses |-> [s \in UsbIds |-> DaemonSession], antique |-> FALSE, unread |-> FALSE]
  /\ uwire = [h2d |-> <<>>, d2h |-> <<>>, faults |-> 0]
  /\ ulog = [sentH |-> [s \in UsbIds |-> <<>>], sentD |-> [s \in UsbIds |-> <<>>],
             recvH |-> [s \in UsbIds |-> <<>>], recvD |-> [s \in UsbIds |-> <<>>]]
-----------------------------------------------------------------------------
(* Host: detection                                                         *)

HasValidDevice == udmn.ep = "open"  \* the list of devices shows an interface of a daemon
DeviceOf(h, s) == HasValidDevice /\ h.ses[s].gen = udmn.gen  \* the device of the handle is still there
Claimed(h) == \E s \in UsbIds : h.ses[s].st \in {"clear", "run"} /\ h.ses[s].gen = udmn.gen

\* FreeSession of the main thread; another thread asks for it.
HostFree(h, s) == [h EXCEPT !.ses[s].dead = TRUE]
HostAsk(h, s) == [h EXCEPT !.ses[s].ask = TRUE]
HostHandleFree(s) ==
  /\ uhost.ses[s].ask
  /\ uhost' = HostFree([uhost EXCEPT !.ses[s].ask = FALSE], s)
  /\ UNCHANGED <<udmn, uwire, ulog>>

StaysIgnored(h) == h
RemoveIgnoreDevice(h) == [h EXCEPT !.ignore = "none", !.stale = FALSE]

\* A timer of ReviewUsbNodeLater takes the device off the list, whatever put it there.
ReviewUsbNodeLater ==
  /\ uhost.reviews > 0
  /\ uhost' = RemoveIgnoreDevice([uhost EXCEPT !.reviews = @ - 1])
  /\ UNCHANGED <<udmn, uwire, ulog>>

\* A session whose device is gone.
KickoutZombie(h) ==
  [h EXCEPT !.ses = [s \in UsbIds |-> IF h.ses[s].st \in {"clear", "run"} /\ ~DeviceOf(h, s)
                                      THEN [h.ses[s] EXCEPT !.dead = TRUE] ELSE h.ses[s]]]

\* A device that cannot be opened, or is claimed, is looked at later.
DetectMyNeed(h) ==
  \/ /\ Claimed(h) \/ FaultLeft
     /\ h.reviews < MaxReviews
     /\ uhost' = [h EXCEPT !.ignore = "ignore", !.reviews = @ + 1]
     /\ uwire' = IF Claimed(h) THEN uwire ELSE Fault(uwire)
  \/ /\ ~Claimed(h)
     /\ uhost' = [h EXCEPT !.ignore = "register", !.next = @ + 1, !.ses[h.next].st = "pre"]
     /\ UNCHANGED uwire

WatchUsbNodeChange ==
  /\ uhost.next <= MaxUsbSessions
  /\ LET h == KickoutZombie(uhost)
     IN  IF HasValidDevice /\ h.ignore = "none" THEN DetectMyNeed(h) ELSE uhost' = h /\ UNCHANGED uwire
  /\ UNCHANGED <<udmn, ulog>>

\* UsbPreConnect, ConnectDetectDaemon: the device is opened and claimed.
CheckActiveConfig == HasValidDevice  \* and both bulk endpoints of it
OpenDeviceMyNeed == CheckActiveConfig /\ ~Claimed(uhost)
ConnectDetectDaemon(s) ==
  /\ uhost.ses[s].st = "pre" /\ ~uhost.ses[s].dead
  /\ \/ /\ OpenDeviceMyNeed
        /\ uhost' = [uhost EXCEPT !.ses[s] = [@ EXCEPT !.st = "clear", !.reader = "clear", !.gen = udmn.gen]]
        /\ UNCHANGED uwire
     \/ /\ ~OpenDeviceMyNeed \/ FaultLeft
        /\ uhost' = RemoveIgnoreDevice(HostFree(uhost, s))
        /\ uwire' = IF OpenDeviceMyNeed THEN Fault(uwire) ELSE uwire
  /\ UNCHANGED <<udmn, ulog>>

\* ClearUsbChannel, on the thread pool: a reset of whatever session the daemon has,
\* then reads until a time-out or for 3 s; the reset may fail unseen.
SendSoftResetToDaemonSync(s) ==
  /\ uhost.ses[s].reader = "clear" /\ DeviceOf(uhost, s) /\ Len(uwire.h2d) < WireSize /\ uhost.ses[s].pc = 0
  /\ uhost' = [uhost EXCEPT !.ses[s].pc = 1]
  /\ \/ uwire' = [uwire EXCEPT !.h2d = Append(@, Item("reset", 0, 0, 0))]
     \/ FaultLeft /\ uwire' = Fault(uwire)
  /\ UNCHANGED <<udmn, ulog>>
ClearUsbChannel(s) ==
  /\ uhost.ses[s].reader = "clear" /\ DeviceOf(uhost, s) /\ uhost.ses[s].pc = 1 /\ uwire.d2h # <<>>
  /\ uwire' = [uwire EXCEPT !.d2h = Tail(@)]
  /\ UNCHANGED <<uhost, udmn, ulog>>

\* BeginUsbRead: the reader holds a reference from here on.
BeginUsbRead(h, s) ==
  [h EXCEPT !.ses[s] = [@ EXCEPT !.st = "run", !.reader = "check", !.shutIn = FALSE, !.shutOut = FALSE, !.pc = 0]]
\* ClearUsbChannelFinished: reading begins, also for a session that is being freed, or
\* it is given up: the device is gone, a read has failed, there is no worker.  With a
\* session that has been deleted meanwhile nothing may come of it.
ClearUsbChannelFinished(s) ==
  /\ uhost.ses[s].reader = "clear"
  /\ LET h == [uhost EXCEPT !.ses[s].reader = "none", !.ses[s].pc = 0]
         begun == BeginUsbRead(h, s)
         failed(g) == RemoveIgnoreDevice(HostFree(g, s))
     IN  IF uhost.ses[s].st = "freed" THEN uhost' \in {h, RemoveIgnoreDevice(h)} /\ UNCHANGED uwire
         ELSE \/ uhost.ses[s].pc = 1 /\ uhost' = begun /\ UNCHANGED uwire
              \/ ~DeviceOf(uhost, s) /\ uhost' = failed(h) /\ UNCHANGED uwire
              \/ DeviceOf(uhost, s) /\ FaultLeft /\ uhost' \in {failed(h), failed(begun)} /\ uwire' = Fault(uwire)
  /\ UNCHANGED <<udmn, ulog>>
-----------------------------------------------------------------------------
(* Host: reading and cancelling                                            *)

\* PreSendUsbSoftReset, once for each session; 0 resets the current one.
PreSendUsbSoftReset(h, w, s, old) ==
  IF h.ses[s].resetIO \/ Len(w.h2d) >= WireSize THEN <<h, w>>
  ELSE <<[h EXCEPT !.ses[s].resetIO = TRUE], [w EXCEPT !.h2d = Append(@, Item("reset", old, 0, 0))]>>

\* SendToHdcStream and CheckPacketOption at the host: headers of another
\* session, and pieces without a header, are left over from an old session.
SendToHdcStream(h, w, s, i) ==
  CASE i.k = "head" /\ i.s # s -> PreSendUsbSoftReset(h, w, s, i.s)
    [] i.k = "head" /\ i.s = s -> <<[h EXCEPT !.ses[s].payloadSize = Pieces], w>>
    [] i.k = "piece" /\ h.ses[s].payloadSize = 0 -> PreSendUsbSoftReset(h, w, s, 0)
    [] OTHER -> <<[h EXCEPT !.ses[s].payloadSize = @ - 1], w>>
Accepted(payloadSize, i) == i.k = "piece" /\ payloadSize > 0

\* The loop of the reader: isDead is looked at, then SubmitUsbBio.
ReaderCheck(s) ==
  /\ uhost.ses[s].reader = "check"
  /\ uhost' = [uhost EXCEPT !.ses[s].reader = IF uhost.ses[s].dead THEN "end" ELSE "submit"]
  /\ UNCHANGED <<udmn, uwire, ulog>>
SubmitUsbBio(s) ==
  /\ uhost.ses[s].reader = "submit"
  /\ uhost' = [uhost EXCEPT !.ses[s] = [@ EXCEPT !.reader = "wait", !.late = @ \/ uhost.ses[s].shutIn]]
  /\ UNCHANGED <<udmn, uwire, ulog>>
\* UsbToHdcProtocol: the socket of the worker takes no more, the reader ends.
UsbToHdcProtocol(s) ==
  /\ uhost.ses[s].reader = "wait" /\ DeviceOf(uhost, s) /\ uwire.d2h # <<>> /\ FaultLeft
  /\ Accepted(uhost.ses[s].payloadSize, Head(uwire.d2h))
  /\ uhost' = [uhost EXCEPT !.ses[s].reader = "end"]
  /\ uwire' = Fault([uwire EXCEPT !.d2h = Tail(@)])
  /\ UNCHANGED <<udmn, ulog>>
\* USBBulkCallback with data, and what the reader does with it.
USBBulkCallback(s) ==
  /\ uhost.ses[s].reader = "wait" /\ DeviceOf(uhost, s) /\ uwire.d2h # <<>>
  /\ LET i == Head(uwire.d2h)
         r == SendToHdcStream(uhost, [uwire EXCEPT !.d2h = Tail(@)], s, i)
     IN  /\ uhost' = [r[1] EXCEPT !.ses[s].reader = "check"]
         /\ uwire' = r[2]
         /\ ulog' = IF Accepted(uhost.ses[s].payloadSize, i)
                    THEN [ulog EXCEPT !.recvH[s] = Append(@, Piece(i.s, i.m, i.p))] ELSE ulog
  /\ UNCHANGED udmn
TransferFails(s) ==
  /\ uhost.ses[s].reader = "wait" /\ (uhost.ses[s].cancelled \/ ~DeviceOf(uhost, s))
  /\ uhost' = [uhost EXCEPT !.ses[s].reader = "end"]
  /\ UNCHANGED <<udmn, uwire, ulog>>
\* The reader gives its reference up and only then calls FreeSession and releases the
\* device, by fields of a session that may have been deleted by then.
ReaderUnref(s) ==
  /\ uhost.ses[s].reader = "end"
  /\ uhost' = [uhost EXCEPT !.ses[s].reader = "unref"]
  /\ UNCHANGED <<udmn, uwire, ulog>>
ReaderEnds(s) ==
  /\ uhost.ses[s].reader = "unref"
  /\ LET h == [uhost EXCEPT !.ses[s].reader = "none", !.ses[s].shutIn = TRUE]
     IN  IF uhost.ses[s].st = "freed" THEN uhost' \in {h, RemoveIgnoreDevice(h)}
         ELSE uhost' = RemoveIgnoreDevice(HostAsk(h, s))
  /\ UNCHANGED <<udmn, uwire, ulog>>

\* CancelUsbIo: an outstanding read is cancelled, else the endpoint counts as
\* shut, also when the reader is about to start a read.
NoCancel(x) == [x EXCEPT !.shutIn = TRUE, !.shutOut = TRUE]
CancelUsbIo(x) ==
  [x EXCEPT !.cancelled = @ \/ (~x.shutIn /\ x.reader = "wait"), !.shutIn = @ \/ x.reader # "wait", !.shutOut = TRUE]

\* A tick of FreeSessionOpeate: the session is deleted when nobody has a reference;
\* the request on the thread pool has none, nor the reader in its last lines.
DeletedHost(x) == [HostSession EXCEPT !.st = "freed", !.reader = x.reader, !.m = x.m]
HostFreeOpeate(s) ==
  /\ uhost.ses[s].dead /\ uhost.ses[s].st \in {"pre", "clear", "run"}
  /\ IF ~uhost.ses[s].shutIn \/ ~uhost.ses[s].shutOut
     THEN uhost' = [uhost EXCEPT !.ses[s] = CancelUsbIo(@)]
     ELSE /\ uhost.ses[s].reader \in {"none", "clear", "unref"} /\ (uhost.ses[s].st = "run" => uhost.ses[s].pc = 0)
          /\ uhost' = [uhost EXCEPT !.ses[s] = DeletedHost(@), !.stale = @ \/ uhost.ses[s].reader # "none"]
  /\ UNCHANGED <<udmn, uwire, ulog>>

\* SendUSBBlock of the worker: header and pieces; the dummy header behind a
\* packet that fills its last transfer changes nothing at the other end.
\* SendUSBRaw does not look at isDead.
HostSendUSBRaw(s) ==
  /\ LET x == uhost.ses[s]
         next == [uhost EXCEPT !.ses[s].pc = (x.pc + 1) % (Pieces + 1), !.ses[s].m = IF x.pc = 0 THEN @ + 1 ELSE @]
     IN  /\ x.st = "run" /\ (x.pc = 0 => ~x.dead /\ Packets(uhost.ses) < MaxUsbPackets)
         /\ \/ /\ DeviceOf(uhost, s) /\ Len(uwire.h2d) < WireSize
               /\ uhost' = next
               /\ uwire' = [uwire EXCEPT !.h2d = Append(@, Transfer(s, x))]
               /\ ulog' = IF x.pc > 0 THEN [ulog EXCEPT !.sentH[s] = Append(@, Piece(s, x.m, x.pc))] ELSE ulog
            \/ /\ ~DeviceOf(uhost, s) \/ FaultLeft
               /\ uwire' = IF DeviceOf(uhost, s) THEN Fault(uwire) ELSE uwire
               /\ uhost' = HostAsk([uhost EXCEPT !.ses[s] = [CancelUsbIo(@) EXCEPT !.shutOut = TRUE, !.pc = 0]], s)
               /\ UNCHANGED ulog
  /\ UNCHANGED udmn

\* A command, a failed handshake or the stop of the server frees the session.
HostSessionEnds(s) ==
  /\ uhost.ses[s].st \in {"clear", "run"} /\ ~uhost.ses[s].dead
  /\ FaultLeft /\ uhost' = HostFree(uhost, s) /\ uwire' = Fault(uwire)
  /\ UNCHANGED <<udmn, ulog>>
-----------------------------------------------------------------------------
(* Daemon: endpoints and reading                                           *)

UsbDaemonFree(d, s) ==
  IF d.ses[s].st = "live" THEN [d EXCEPT !.ses[s].st = "dead", !.ses[s].deleted = TRUE] ELSE d
ResetOldSession(d, sid, soft) ==
  LET s == IF sid = 0 THEN d.current ELSE sid
  IN  IF s = 0 \/ s \notin UsbIds \/ d.ses[s].st \notin {"live", "dead"} THEN d
      ELSE UsbDaemonFree([d EXCEPT !.ses[s].isSoftReset = soft], s)
DaemonHandleFree(s) ==
  /\ udmn.ses[s].ask
  /\ udmn' = UsbDaemonFree([udmn EXCEPT !.ses[s].ask = FALSE], s)
  /\ UNCHANGED <<uhost, uwire, ulog>>

DeletedDaemon(x) == [DaemonSession EXCEPT !.st = "freed", !.deleted = TRUE, !.m = x.m, !.again = x.again]
\* OnSessionFreeFinally: without a soft reset the endpoints are given up.
OnSessionFreeFinally(s) ==
  /\ udmn.ses[s].st = "dead" /\ udmn.ses[s].pc = 0
  /\ udmn' = [udmn EXCEPT !.ses[s] = DeletedDaemon(@),
                          !.isAlive = @ /\ (udmn.ses[s].isSoftReset \/ udmn.current # s)]
  /\ UNCHANGED <<uhost, uwire, ulog>>

ReadStops(d) == [d EXCEPT !.isAlive = FALSE, !.atPollQueue = FALSE, !.reading = FALSE]
LoopUSBRead(d) == [d EXCEPT !.atPollQueue = TRUE, !.reading = TRUE]

\* PrepareNewSession: the worker is up before the main loop goes on.
PrepareNewSession(d, s) ==
  [d EXCEPT !.current = s,
            !.ses[s] = [DaemonSession EXCEPT !.st = "live", !.deleted = @ \/ d.ses[s].deleted,
                                             !.again = d.ses[s].st = "freed"]]

\* DispatchToWorkThread: a header of another session ends the current one; a
\* session that is being freed ends the reading.
Addressed(d, i) == IF i.k = "piece" THEN d.current ELSE i.s
DispatchToWorkThread(d, i) ==
  LET s == Addressed(d, i)
      e == IF d.current # 0 /\ s # d.current THEN [ResetOldSession(d, d.current, FALSE) EXCEPT !.current = 0] ELSE d
      f == IF e.ses[s].st \in {"none", "freed"} THEN PrepareNewSession(e, s) ELSE e
      n == IF i.k = "head" THEN Pieces ELSE IF f.ses[s].payloadSize = 0 THEN 0 ELSE f.ses[s].payloadSize - 1
  IN  IF f.ses[s].st # "live" THEN ReadStops(f)
      ELSE LoopUSBRead([f EXCEPT !.ses[s].payloadSize = n])
Dispatched(d, i) == /\ Accepted(d.ses[Addressed(d, i)].payloadSize, i)
                    /\ d.ses[Addressed(d, i)].st = "live"

OnUSBRead ==
  /\ udmn.reading /\ uwire.h2d # <<>>
  /\ LET i == Head(uwire.h2d)
         w == [uwire EXCEPT !.h2d = Tail(@)]
         d == CASE ~udmn.isAlive -> ReadStops(udmn)
                [] udmn.isAlive /\ i.k = "reset" -> LoopUSBRead(ResetOldSession(udmn, i.s, TRUE))
                [] OTHER -> DispatchToWorkThread(udmn, i)
         given == udmn.isAlive /\ i.k = "piece" /\ Dispatched(udmn, i)
     IN  /\ \/ udmn' = d /\ uwire' = w
            \/ FaultLeft /\ udmn' = ReadStops(d) /\ uwire' = Fault(w)
         /\ ulog' = IF given THEN [ulog EXCEPT !.recvD[udmn.current] = Append(@, Piece(i.s, i.m, i.p))] ELSE ulog
  /\ UNCHANGED uhost

\* The cable is pulled: one session of the USB is freed.
OnUSBReadError ==
  /\ udmn.reading /\ FaultLeft /\ uwire' = Fault(uwire)
  /\ udmn' \in LET live == {t \in UsbIds : udmn.ses[t].st = "live"}
               IN  IF live = {} THEN {ReadStops(udmn)} ELSE {ReadStops(UsbDaemonFree(udmn, s)) : s \in live}
  /\ UNCHANGED <<uhost, ulog>>

\* JumpAntiquePacket: the packet is skipped and no other read is started.
JumpAntiquePacket ==
  /\ udmn.reading /\ udmn.isAlive /\ FaultLeft /\ uwire' = Fault(uwire)
  /\ udmn' = [udmn EXCEPT !.reading = FALSE, !.antique = TRUE]
  /\ UNCHANGED <<uhost, ulog>>

\* ConnectEPPoint: a failure closes all and leaves it to the next tick.
ConnectEPPoint(d) == [d EXCEPT !.ep = "open", !.gen = @ + 1]

\* WatchEPTimer: closes what is open, and opens it again in a later tick.  The
\* cable is empty then.  The result of LoopUSBRead is not looked at.
WatchEPTimer ==
  /\ ~udmn.isAlive /\ ~udmn.atPollQueue
  /\ \/ /\ udmn.ep = "open"
        /\ udmn' = [udmn EXCEPT !.ep = "closing"]
        /\ uwire' = [uwire EXCEPT !.h2d = <<>>, !.d2h = <<>>]
     \/ /\ udmn.ep = "closed" /\ udmn.gen < MaxEpResets
        /\ LET d == [ConnectEPPoint(udmn) EXCEPT !.isAlive = TRUE]
           IN  \/ udmn' = LoopUSBRead(d) /\ UNCHANGED uwire
               \/ FaultLeft /\ udmn' = [d EXCEPT !.unread = TRUE] /\ uwire' = Fault(uwire)
  /\ UNCHANGED <<uhost, ulog>>

CloseBulkEp ==
  /\ udmn.ep = "closing"
  /\ udmn' = [udmn EXCEPT !.ep = "closed"]
  /\ UNCHANGED <<uhost, uwire, ulog>>

\* SendUSBBlock of a worker, with SendUSBIOSync under mutexUsbFfs.
MaySend(d, s) == d.isAlive /\ d.ses[s].st = "live" /\ ~d.ses[s].deleted
DaemonSendUSBRaw(s) ==
  /\ LET x == udmn.ses[s]
         next == [udmn EXCEPT !.ses[s].pc = (x.pc + 1) % (Pieces + 1), !.ses[s].m = IF x.pc = 0 THEN @ + 1 ELSE @]
         freed == [udmn EXCEPT !.ses[s].pc = 0, !.ses[s].ask = TRUE, !.ses[s].deleted = TRUE]
     IN  /\ x.st \in {"live", "dead"}
         /\ x.pc = 0 => x.st = "live" /\ Packets(udmn.ses) < MaxUsbPackets /\ ~x.again
         /\ \/ /\ MaySend(udmn, s) /\ Len(uwire.d2h) < WireSize
               /\ udmn' = next
               /\ uwire' = [uwire EXCEPT !.d2h = Append(@, Transfer(s, x))]
               /\ ulog' = IF x.pc > 0 THEN [ulog EXCEPT !.sentD[s] = Append(@, Piece(s, x.m, x.pc))] ELSE ulog
            \/ ~MaySend(udmn, s) /\ udmn' = freed /\ UNCHANGED <<uwire, ulog>>
            \/ /\ MaySend(udmn, s) /\ FaultLeft /\ uwire' = Fault(uwire)  \* write() fails
               /\ udmn' = [freed EXCEPT !.isAlive = FALSE] /\ UNCHANGED ulog
  /\ UNCHANGED uhost

UsbNext ==
  \/ ReviewUsbNodeLater \/ WatchUsbNodeChange
  \/ OnUSBRead \/ OnUSBReadError \/ JumpAntiquePacket \/ WatchEPTimer \/ CloseBulkEp
  \/ \E s \in UsbIds :
       \/ HostHandleFree(s) \/ ConnectDetectDaemon(s) \/ SendSoftResetToDaemonSync(s)
       \/ ClearUsbChannel(s) \/ ClearUsbChannelFinished(s) \/ ReaderCheck(s) \/ SubmitUsbBio(s)
       \/ UsbToHdcProtocol(s) \/ USBBulkCallback(s) \/ TransferFails(s) \/ ReaderUnref(s) \/ ReaderEnds(s)
       \/ HostFreeOpeate(s)       \/ HostSendUSBRaw(s) \/ HostSessionEnds(s)
       \/ DaemonHandleFree(s) \/ OnSessionFreeFinally(s) \/ DaemonSendUSBRaw(s)

UsbSpec == UsbInit /\ [][UsbNext]_usbVars
-----------------------------------------------------------------------------
(* Properties                                                              *)

OwnPieces(q, s) == \A j \in DOMAIN q : q[j][1] = s
\* Bytes reach only the worker of the session that sent them, in order and
\* from the first one on, though an old session's bytes may still be on the
\* cable and two workers of the daemon share its endpoint (SendUSBIOSync,
\* CheckPacketOption).  A session the daemon made again under an id it has
\* freed starts in the middle.
UsbInOrder ==
  \A s \in UsbIds :
    /\ OwnPieces(ulog.recvH[s], s) /\ OwnPieces(ulog.recvD[s], s)
    /\ IsPrefix(ulog.recvH[s], ulog.sentD[s])
    /\ ~udmn.ses[s].again => IsPrefix(ulog.recvD[s], ulog.sentH[s])

\* A device is taken for registered only while a session of it is there whose
\* end will release it (RemoveIgnoreDevice on every way out).  The exception is a
\* session that was deleted while the request of the thread pool, or the last lines
\* of its reader, still used it: they may release nothing.
RegisteredHasSession ==
  uhost.ignore = "register" =>
    uhost.stale \/ \E s \in UsbIds : uhost.ses[s].st \in {"pre", "clear", "run"}

\* No dead session waits for its reader: CancelUsbIo got it out of a read that
\* has no time limit.  A read that is started just after CancelUsbIo found none
\* is never cancelled.
DeadReaderOut(s) ==
  uhost.ses[s].dead /\ uhost.ses[s].st \in {"pre", "clear", "run"} =>
    uhost.ses[s].late \/ (uhost.ses[s].st = "run" /\ uhost.ses[s].pc > 0)

\* The daemon reads its endpoint; it may stop doing so after a skipped packet, a
\* failed first read, and when it is out of attempts.
EndpointRead ==
  udmn.reading \/ udmn.unread \/ udmn.antique \/ (udmn.gen = MaxEpResets /\ udmn.ep = "closed")

\* The cable carries each session's bytes to that session only, and a device is
\* kept from new sessions only as long as it has one.
UsbSafe == UsbInOrder /\ RegisteredHasSession
=============================================================================
