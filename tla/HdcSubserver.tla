---------------------------- MODULE HdcSubserver ----------------------------
(***************************************************************************)
(* Subservers: the main server gives a USB device up, starts a process     *)
(* that serves only this device, and answers later spawn-sub commands from *)
(* what it can tell of that process (SubserverManager, ProcessHandle).     *)
(* The processes write their pids to a file shared under a file lock       *)
(* (FileLockUtil), which killall-sub reads, clears and kills from.         *)
(***************************************************************************)
EXTENDS Naturals, Sequences

CONSTANTS
    MaxSubs,    \* subserver processes started for the device
    MaxDelays,  \* timers of ReviewUsbNodeLater that run at a time
    MaxReaders  \* reading threads of the main server that have not ended

ASSUME SubserverBound == {MaxSubs, MaxDelays, MaxReaders} \subseteq Nat

VARIABLES
    smain,  \* the main server: platform, its hold of the device, mapIgnoreDevice, subserverMap
    sproc,  \* the subserver processes
    spids,  \* the pid file and its lock
    skill   \* killall-sub

subVars == <<smain, sproc, spids, skill>>

Subs == 1..MaxSubs
NoSub == 0
Starting == {"started", "registered", "serving"}
Running == Starting \cup {"found", "open", "leaving", "filtering"}

SubserverTypeOK ==
    /\ DOMAIN smain = {"plat", "own", "ignore", "delays", "early", "readers", "map"}
    /\ smain.plat \in {"linux", "windows"} /\ smain.own \in {"none", "open", "closing"}
    /\ smain.ignore \in {"no", "register", "ignore", "suspended"} /\ smain.map \in {NoSub} \cup Subs
    /\ smain.delays \in Seq({"ignore", "suspended"}) /\ smain.early \in BOOLEAN /\ smain.readers \in Nat
    /\ DOMAIN sproc = Subs
    /\ \A p \in Subs : DOMAIN sproc[p] = {"st", "reg"} /\ sproc[p].st \in {"none", "gone"} \cup Running
    /\ DOMAIN spids = {"file", "lock", "copy", "torn"} /\ DOMAIN skill = {"busy", "list"}
    /\ spids.lock \in {NoSub} \cup Subs
    /\ spids.file \subseteq Subs /\ spids.copy \subseteq Subs /\ skill.list \subseteq Subs

SubserverInit ==
    /\ \E p \in {"linux", "windows"} :
         smain = [plat |-> p, own |-> "none", ignore |-> "no", delays |-> <<>>, early |-> FALSE,
                  readers |-> 0, map |-> NoSub]
    /\ sproc = [p \in Subs |-> [st |-> "none", reg |-> FALSE]]
    /\ spids = [file |-> {}, lock |-> NoSub, copy |-> {}, torn |-> FALSE]
    /\ skill = [busy |-> FALSE, list |-> {}]

\* The operating system lets one process claim the device's interface.
DeviceFree == smain.own = "none" /\ \A p \in Subs : sproc[p].st # "open"
Alive(p) == sproc[p].st \in Running
FreshSub(p) == sproc[p].st = "none" /\ \A q \in Subs : q < p => sproc[q].st # "none"
Become(p, st) == sproc' = [sproc EXCEPT ![p].st = st]
Gone(p) == sproc' = [sproc EXCEPT ![p] = [st |-> "gone", reg |-> FALSE]]
-----------------------------------------------------------------------------
\* ReviewUsbNodeLater puts the device on the ignore list and starts one more timer,
\* which takes it off again whatever put it there; all of them take equally long.
MainReviewUsbNode(m, status) == [m EXCEPT !.ignore = status, !.delays = Append(@, status)]

\* The timer of a handover has not fired.
Suspends(delays) == \E j \in DOMAIN delays : delays[j] = "suspended"

DelayDo ==
    /\ smain.delays # <<>>
    /\ smain' = [smain EXCEPT !.ignore = "no", !.delays = Tail(@),
                              !.early = @ \/ Suspends(Tail(smain.delays))]
    /\ UNCHANGED <<sproc, spids, skill>>

\* RemoveIgnoreDevice of a reading thread leaves a suspended device on the list.
ForgetsSuspended(m) == [m EXCEPT !.ignore = "no"]
MainRemoveIgnore(m) == IF m.ignore = "suspended" THEN m ELSE [m EXCEPT !.ignore = "no"]

\* WatchUsbNodeChange of the main server: DetectMyNeed opens the device or fails.
MainScans ==
    /\ smain.ignore = "no"
    /\ \/ /\ DeviceFree /\ smain.readers < MaxReaders
          /\ smain' = [smain EXCEPT !.own = "open", !.ignore = "register", !.readers = @ + 1]
       \/ /\ ~DeviceFree /\ Len(smain.delays) < MaxDelays
          /\ smain' = MainReviewUsbNode(smain, "ignore")
    /\ UNCHANGED <<sproc, spids, skill>>

\* FreeSession of the main server: an error of the reader or another end.
MainLosesDevice ==
    /\ smain.own = "open"
    /\ smain' = [smain EXCEPT !.own = "closing"]
    /\ UNCHANGED <<sproc, spids, skill>>

\* The last lines of BeginUsbRead's thread, before or after its session is freed.
MainReaderEnds ==
    /\ smain.readers > 0
    /\ smain' = MainRemoveIgnore([smain EXCEPT !.readers = @ - 1])
    /\ UNCHANGED <<sproc, spids, skill>>

\* FreeSessionByConnectType closes the device.
MainFreed ==
    /\ smain.own = "closing"
    /\ smain' = [smain EXCEPT !.own = "none"]
    /\ UNCHANGED <<sproc, spids, skill>>

\* CommandReconnectTarget: the session is freed, AllowUsbNodeRescan.
CommandReconnects ==
    /\ smain.own = "open"
    /\ smain' = [smain EXCEPT !.own = "closing", !.ignore = "no"]
    /\ UNCHANGED <<sproc, spids, skill>>
-----------------------------------------------------------------------------
\* GetSubserverStatus: a process that lives is "connecting", or "success" once five
\* seconds have passed since it was started, whatever it does; of one that has gone
\* every status says that it is not connecting.
SubserverStatus(p) == IF Alive(p) THEN {"connecting", "success"} ELSE {"ended"}

\* HandleCommand for a device that has an entry in subserverMap.
CommandAsks ==
    /\ smain.map # NoSub
    /\ \E status \in SubserverStatus(smain.map) : status # "connecting"
    /\ smain' = [smain EXCEPT !.map = NoSub]
    /\ UNCHANGED <<sproc, spids, skill>>

\* HandleCommand for a device that has none: DisconnectDevice, CreateSubserver.
CommandSpawns(p) ==
    /\ smain.map = NoSub /\ smain.own = "open" /\ FreshSub(p) /\ Len(smain.delays) < MaxDelays
    /\ LET m == MainReviewUsbNode([smain EXCEPT !.own = "closing", !.early = FALSE], "suspended")
       IN \/ /\ smain' = [m EXCEPT !.map = p]
             /\ Become(p, "started")
          \/ smain' = m /\ UNCHANGED sproc  \* SUBPROCESS_FAIL
    /\ UNCHANGED <<spids, skill>>
-----------------------------------------------------------------------------
\* FileLockGuard::WithLock waits for the lock of the pid file.
LockFree == spids.lock = NoSub

\* Rewrite: on Windows the file pointer stands at the end of what was read,
\* so the new lines come after the old ones.
Rewritten == IF smain.plat = "windows" THEN spids.file \cup spids.copy ELSE spids.copy

\* RegisterPid: AtomicAppend, whose result is not looked at.
RegisterPid(p) ==
    /\ sproc[p].st = "started" /\ LockFree
    /\ \E written \in BOOLEAN :
         /\ spids' = IF written THEN [spids EXCEPT !.file = @ \cup {p}] ELSE spids
         /\ sproc' = [sproc EXCEPT ![p].st = "registered", ![p].reg = written]
    /\ UNCHANGED <<smain, skill>>

\* HdcServerForClient::Initial: the port is bound, or ExitProcess(PORT_LISTEN_FAIL).
SubListens(p) ==
    /\ sproc[p].st = "registered"
    /\ \/ Become(p, "serving")
       \/ Become(p, "leaving")
    /\ UNCHANGED <<smain, spids, skill>>

\* DetectMyNeed in the subserver: the device opens and closes again, and
\* CancelConnectTimer stops the timer and the scan for good.
SubDetects(p) ==
    /\ sproc[p].st = "serving" /\ DeviceFree
    /\ Become(p, "found")
    /\ UNCHANGED <<smain, spids, skill>>

\* UsbPreConnect opens it again, or its session is freed and the process
\* exits (OnUSBDisconnectExit).
SubConnects(p) ==
    /\ sproc[p].st = "found"
    /\ Become(p, IF DeviceFree THEN "open" ELSE "leaving")
    /\ UNCHANGED <<smain, spids, skill>>

SubDisconnected(p) ==
    /\ sproc[p].st = "open"
    /\ Become(p, "leaving")
    /\ UNCHANGED <<smain, spids, skill>>

\* StartConnectTimer's thread.
TimerCancelled(p) == FALSE
TimerExpired(p) == sproc[p].st \in Starting

ConnectTimer(p) ==
    /\ TimerExpired(p)
    /\ Become(p, "leaving")
    /\ UNCHANGED <<smain, spids, skill>>

\* ExitProcess: UnregisterPid filters the file under the lock, then _Exit.
UnregisterReads(p) ==
    /\ sproc[p].st = "leaving" /\ LockFree
    /\ spids' = [spids EXCEPT !.lock = p, !.copy = spids.file \ {p}]
    /\ Become(p, "filtering")
    /\ UNCHANGED <<smain, skill>>

\* Rewrite: done, failed, or failed after the file was truncated (Unix).
UnregisterWrites(p) ==
    /\ sproc[p].st = "filtering"
    /\ \/ spids' = [spids EXCEPT !.lock = NoSub, !.copy = {}, !.file = Rewritten]
       \/ spids' = [spids EXCEPT !.lock = NoSub, !.copy = {}]
       \/ /\ smain.plat = "linux"
          /\ spids' = [spids EXCEPT !.lock = NoSub, !.copy = {}, !.file = {}, !.torn = TRUE]
    /\ Gone(p)
    /\ UNCHANGED <<smain, skill>>

\* A process ends without ExitProcess; the lock it held is released, and the
\* file may have been truncated and not yet written.
SubDies(p) ==
    /\ Alive(p)
    /\ Gone(p)
    /\ IF sproc[p].st # "filtering" THEN UNCHANGED spids
       ELSE \E lost \in {FALSE, smain.plat = "linux"} :
              spids' = [spids EXCEPT !.lock = NoSub, !.copy = {}, !.torn = @ \/ lost,
                                     !.file = IF lost THEN {} ELSE @]

SubCrashes(p) == SubDies(p) /\ UNCHANGED <<smain, skill>>
-----------------------------------------------------------------------------
\* KillAllSubservers in a client: AtomicReadAndClear, then a kill per line.
ReadAndClear ==
    /\ ~skill.busy /\ LockFree
    /\ skill' = [busy |-> TRUE, list |-> spids.file]
    /\ spids' = [spids EXCEPT !.file = {}]
    /\ UNCHANGED <<smain, sproc>>

\* IsHdcProcess reads /proc, so only Linux finds the process.
KillOne(p) ==
    /\ skill.busy /\ p \in skill.list
    /\ skill' = [skill EXCEPT !.list = @ \ {p}]
    /\ IF smain.plat = "linux" /\ Alive(p) THEN SubDies(p) ELSE UNCHANGED <<sproc, spids>>
    /\ UNCHANGED smain

KillDone ==
    /\ skill.busy /\ skill.list = {}
    /\ skill' = [skill EXCEPT !.busy = FALSE]
    /\ UNCHANGED <<smain, sproc, spids>>

\* The client ends before it has worked off the list: nobody has the pids then.
KillerDies ==
    /\ skill.busy /\ skill.list # {}
    /\ skill' = [busy |-> FALSE, list |-> {}]
    /\ spids' = [spids EXCEPT !.torn = TRUE]
    /\ UNCHANGED <<smain, sproc>>

SubserverNext ==
    \/ DelayDo \/ MainScans \/ MainLosesDevice \/ MainReaderEnds \/ MainFreed
    \/ CommandReconnects \/ CommandAsks \/ ReadAndClear \/ KillDone \/ KillerDies
    \/ \E p \in Subs :
         \/ CommandSpawns(p) \/ RegisterPid(p) \/ SubListens(p) \/ SubDetects(p)
         \/ SubConnects(p) \/ SubDisconnected(p) \/ ConnectTimer(p) \/ UnregisterReads(p)
         \/ UnregisterWrites(p) \/ SubCrashes(p) \/ KillOne(p)

SubserverSpec == SubserverInit /\ [][SubserverNext]_subVars
-----------------------------------------------------------------------------
\* From the moment the main server gives a device up for a subserver until the timer
\* of this handover is over, it does not take the device back, however the ends of
\* its own sessions and the scans for devices fall in that time.  The exception is a
\* timer that an earlier ReviewUsbNodeLater has started and that fires in that time:
\* it takes the device off the list as well.
HandedOver == Suspends(smain.delays) /\ ~smain.early => smain.own # "open"

\* killall-sub can find every subserver that has written its pid and is not
\* about to exit: the pid is in the file or in a list being worked off, or
\* an earlier killall-sub of Windows took it.  The exceptions are pids that were
\* lost: a process killed, or a write that failed, between truncating and writing
\* the file, and a killall-sub that ended before it had killed them.
RegisteredIsFindable ==
    smain.plat = "linux" /\ ~spids.torn =>
        \A p \in Subs : sproc[p].reg /\ sproc[p].st \in Running \ {"leaving", "filtering"}
                        => p \in spids.file \cup skill.list

\* A subserver that was started has the device or is gone.
HandoverDone(p) == sproc[p].st \notin Running \ {"open"}

\* Somebody serves the device, or a subserver still may.
DeviceServed == smain.own = "open" \/ \E p \in Subs : Alive(p)

\* A device that is handed over stays handed over, and a subserver that is
\* registered can be killed.
SubserverSafe == SubserverTypeOK /\ HandedOver /\ RegisteredIsFindable
-----------------------------------------------------------------------------
(* The inductive invariant: a device that is handed over is on the ignore list,
   and whoever holds the lock of the pid file works on what is in it. *)

SubserverInv ==
    /\ SubserverTypeOK /\ RegisteredIsFindable
    /\ Suspends(smain.delays) /\ ~smain.early => smain.own # "open" /\ smain.ignore = "suspended"
    /\ \A p \in Subs : sproc[p].st = "filtering" =>
         spids.lock = p /\ \A q \in Subs : q # p /\ q \in spids.file => q \in spids.copy
    /\ \A p \in Subs : sproc[p].st \in {"none", "started"} => ~sproc[p].reg
    /\ ~skill.busy => skill.list = {}
=============================================================================
