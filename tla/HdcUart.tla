------------------------------ MODULE HdcUart ------------------------------
(***************************************************************************)
(* The link layer of a serial line between the server (host) and a daemon  *)
(* (HdcUARTBase, HdcHostUART, HdcDaemonUART): threads that send number     *)
(* their packages and wait for the slot of their session, the write thread *)
(* of each end passes over outPkgs, sends, waits for acknowledgements and  *)
(* sends again, the read thread acknowledges, tells duplicates by          *)
(* dispatchedPackageIndex and dispatches.  The line loses packages.        *)
(***************************************************************************)
EXTENDS Naturals, Sequences, FiniteSets, FiniteSetsExt, SequencesExt

CONSTANTS
    Session,      \* session ids
    NoSession, NoPkg,
    HostCaller, DaemonCaller,  \* threads inside SendUARTData
    Retry,        \* retryChance (4)
    MaxSend,      \* bound: end -> payloads it sends
    Fails         \* whether the host's port, the pipe to a worker, or a worker may fail

End == {"host", "daemon"}
Peer(e) == IF e = "host" THEN "daemon" ELSE "host"
Caller == HostCaller \cup DaemonCaller
EndOf(c) == IF c \in HostCaller THEN "host" ELSE "daemon"

ASSUME UartAssumption == /\ HostCaller \cap DaemonCaller = {}
                         /\ NoSession \notin Session
                         /\ Retry \in Nat
                         /\ MaxSend \in [End -> Nat]
                         /\ Fails \in BOOLEAN

VARIABLES
    sess,       \* end -> session -> none, live, dead (in the map), shut (dead,
                \* its port closed), gone (out of the map)
    cur,        \* the session whose read thread the host runs
    resetIO,    \* host session -> a soft reset was asked for
    packageIndex, dispatchedPackageIndex,
    pc,         \* caller -> [at, s, n]: idle, count, wait (for the slot)
    slots,      \* end -> sessions whose slot is taken
    outPkgs,    \* end -> packages to be sent or acknowledged
    requested, timeout,  \* end -> the write thread's TransferStateMachine
    line,       \* end -> packages on their way from it
    rd,         \* end -> validated package the read thread is to dispatch
    sent,       \* history: end -> session -> payloads put into outPkgs
    got,        \* history: end -> session -> payloads given to the worker
    broken,     \* history: end -> session -> a dispatch failed
    again,      \* history: sessions the daemon made a second time
    raced       \* history: end -> sessions two threads were numbering packages of

sendVars == <<packageIndex, pc, slots>>
histVars == <<sent, got, broken, again, raced>>
vars == <<sess, cur, resetIO, dispatchedPackageIndex, sendVars, outPkgs,
          requested, timeout, line, rd, histVars>>

\* A package: kind data, ack, free or reset; val is the payload of data.
Pkg(kind, s, n, v) == [kind |-> kind, id |-> s, idx |-> n, val |-> v]
\* In outPkgs it has a status and a number of retries.
Entry(p) == [pkg |-> p, st |-> "send", retry |-> Retry]

Package == [kind : {"data", "ack", "free", "reset"}, id : Session, idx : Nat,
            val : Nat]
ASSUME NoPkgAssumption == NoPkg \notin Package

TypeOK ==
    /\ sess \in [End -> [Session -> {"none", "live", "dead", "shut", "gone"}]]
    /\ cur \in Session \cup {NoSession}
    /\ resetIO \subseteq Session
    /\ packageIndex \in [End -> [Session -> Nat]]
    /\ dispatchedPackageIndex \in [End -> [Session -> Nat]]
    /\ pc \in [Caller -> [at : {"idle", "count", "wait"},
                          s : Session \cup {NoSession}, n : Nat]]
    /\ slots \in [End -> SUBSET Session]
    /\ outPkgs \in [End -> Seq([pkg : Package, st : {"send", "response"},
                                retry : 0 .. Retry])]
    /\ requested \in [End -> BOOLEAN]
    /\ timeout \in [End -> BOOLEAN]
    /\ line \in [End -> Seq(Package)]
    /\ rd \in [End -> Package \cup {NoPkg}]
    /\ sent \in [End -> [Session -> Nat]]
    /\ got \in [End -> [Session -> Seq(Nat)]]
    /\ broken \in [End -> SUBSET Session]
    /\ again \subseteq Session
    /\ raced \in [End -> SUBSET Session]

All(v) == [e \in End |-> [s \in Session |-> v]]
Idle == [at |-> "idle", s |-> NoSession, n |-> 0]

Init ==
    /\ sess = All("none")
    /\ cur = NoSession
    /\ resetIO = {}
    /\ packageIndex = All(0)
    /\ dispatchedPackageIndex = All(0)
    /\ pc = [c \in Caller |-> Idle]
    /\ slots = [e \in End |-> {}]
    /\ outPkgs = [e \in End |-> <<>>]
    /\ requested = [e \in End |-> FALSE]
    /\ timeout = [e \in End |-> FALSE]
    /\ line = [e \in End |-> <<>>]
    /\ rd = [e \in End |-> NoPkg]
    /\ sent = All(0)
    /\ got = All(<<>>)
    /\ broken = [e \in End |-> {}]
    /\ again = {}
    /\ raced = [e \in End |-> {}]

\* AdminSession(OP_QUERY) finds it.
InMap(e, s) == sess[e][s] \in {"live", "dead", "shut"}
IsResponse(p) == p.kind = "ack"

\* What q has at the positions I, in their order.
Nth(I, k) == CHOOSE i \in I : Cardinality({j \in I : j <= i}) = k
Pick(q, I) == [k \in 1 .. Cardinality(I) |-> q[Nth(I, k)]]

-----------------------------------------------------------------------------
(* Sessions *)

\* ConnectMyNeed and ConnectDaemonByUart: a new session on the port, with its
\* read thread.
NewSession(s) ==
    /\ cur = NoSession
    /\ sess["host"][s] = "none"
    /\ sess' = [sess EXCEPT !["host"][s] = "live"]
    /\ cur' = s
    /\ UNCHANGED <<resetIO, dispatchedPackageIndex, sendVars, outPkgs,
                   requested, timeout, line, rd, histVars>>

\* ConnectDaemon, the first time and again on the same port.
ConnectDaemon(s) == NewSession(s) /\ \A x \in Session : sess["host"][x] = "none"
Reconnect(s) == NewSession(s) /\ \E x \in Session : sess["host"][x] # "none"

\* The session layer frees a session for a reason of its own.
FreeSession(e, s) ==
    /\ sess[e][s] = "live"
    /\ sess' = [sess EXCEPT ![e][s] = "dead"]
    /\ UNCHANGED <<cur, resetIO, dispatchedPackageIndex, sendVars, outPkgs,
                   requested, timeout, line, rd, histVars>>

\* ClearUARTOutMap: no package of s is left in the queue q.
Other(q, s) == Pick(q, {i \in DOMAIN q : q[i].pkg.id # s})
\* It frees the slot if it erases a package that is no response.
SlotsCleared(e, s) ==
    IF \E i \in DOMAIN outPkgs[e] : outPkgs[e][i].pkg.id = s
                                    /\ ~IsResponse(outPkgs[e][i].pkg)
    THEN slots[e] \ {s} ELSE slots[e]

\* FreeSessionContinue and FreeSessionFinally, once no thread is inside Send:
\* the host joins its read thread, StopSession clears outPkgs, the session
\* leaves the map.  From the one to the other the session is in the map without
\* its hUART: the daemon's read thread, which nobody joins and which holds no
\* reference, must not look at it then (DispatchPackageData would follow the
\* null pointer).  That is not modelled: the daemon reads a package of the
\* session before this step, or after it.
StopSession(e, s) ==
    /\ sess[e][s] \in {"dead", "shut"}
    /\ \A c \in Caller : EndOf(c) = e => pc[c].s # s
    /\ e = "host" => rd[e] = NoPkg
    /\ sess' = [sess EXCEPT ![e][s] = "gone"]
    /\ cur' = IF e = "host" /\ cur = s THEN NoSession ELSE cur
    /\ outPkgs' = [outPkgs EXCEPT ![e] = Other(@, s)]
    /\ slots' = [slots EXCEPT ![e] = SlotsCleared(e, s)]
    /\ requested' = [requested EXCEPT ![e] = TRUE]
    /\ UNCHANGED <<resetIO, dispatchedPackageIndex, packageIndex, pc, timeout,
                   line, rd, histVars>>

-----------------------------------------------------------------------------
(* SendUARTData, by a thread of the session layer *)

\* Payloads in outPkgs once, and those of callers: bounded by MaxSend.
Begun(e) == MapThenSumSet(LAMBDA s : sent[e][s], Session)
            + Cardinality({c \in Caller : EndOf(c) = e /\ pc[c].at # "idle"})

\* Another thread than c is inside SendUARTData for a session.
Inside(e, s, c) == \E b \in Caller \ {c} : EndOf(b) = e /\ pc[b].s = s

\* A message begins (SendByProtocol looks at isDead), and the load of
\* ++packageIndex for its first piece.  Nothing keeps another thread that sends
\* to the session (the main thread, a worker) out of it.
SendUARTData(c, s) ==
    /\ pc[c].at = "idle"
    /\ sess[EndOf(c)][s] = "live"
    /\ Begun(EndOf(c)) < MaxSend[EndOf(c)]
    /\ pc' = [pc EXCEPT ![c] = [at |-> "count", s |-> s,
                                n |-> packageIndex[EndOf(c)][s]]]
    /\ raced' = IF Inside(EndOf(c), s, c)
                THEN [raced EXCEPT ![EndOf(c)] = @ \cup {s}] ELSE raced
    /\ UNCHANGED <<sess, cur, resetIO, dispatchedPackageIndex, packageIndex,
                   slots, outPkgs, requested, timeout, line, rd, sent, got,
                   broken, again>>

\* The store of ++packageIndex.
NumberPackage(c) ==
    /\ pc[c].at = "count"
    /\ packageIndex' = [packageIndex EXCEPT ![EndOf(c)][pc[c].s] = pc[c].n + 1]
    /\ pc' = [pc EXCEPT ![c] = [at |-> "wait", s |-> pc[c].s, n |-> pc[c].n + 1]]
    /\ UNCHANGED <<sess, cur, resetIO, dispatchedPackageIndex, slots, outPkgs,
                   requested, timeout, line, rd, histVars>>

\* RequestSendPackage under its mutex: nothing is added twice under a key, which
\* is the (masked) session id, the index, and whether it is a response.
SameKey(p, q) == p.id = q.id /\ p.idx = q.idx /\ (IsResponse(p) <=> IsResponse(q))
Queued(q, p) == \E i \in DOMAIN q : SameKey(q[i].pkg, p)
RequestSendPackage(q, p) == IF Queued(q, p) THEN q ELSE Append(q, Entry(p))

\* RequestSendPackage of a caller: slots.Wait, without a time limit, then the
\* package is added; the message ends or has another piece.
AddPackage(c, more) ==
    LET e == EndOf(c)
        s == pc[c].s
        p == Pkg("data", s, pc[c].n, sent[e][s] + 1)
    IN  /\ pc[c].at = "wait"
        /\ s \notin slots[e]
        /\ more => Begun(e) < MaxSend[e]
        /\ slots' = [slots EXCEPT ![e] = @ \cup {s}]
        /\ outPkgs' = [outPkgs EXCEPT ![e] = RequestSendPackage(@, p)]
        /\ requested' = [requested EXCEPT ![e] = TRUE]
        /\ sent' = [sent EXCEPT ![e][s] = @ + 1]
        /\ pc' = [pc EXCEPT ![c] =
                    IF more THEN [at |-> "count", s |-> s, n |-> packageIndex[e][s]]
                    ELSE Idle]
        /\ UNCHANGED <<sess, cur, resetIO, dispatchedPackageIndex, packageIndex,
                       timeout, line, rd, got, broken, again, raced>>

-----------------------------------------------------------------------------
(* The write thread: one pass of SendPkgInUARTOutMap over outPkgs *)

\* Package i is to be sent: a response always, another one unless one of its
\* session before it is on its way.
\* Mutant: nothing is waited for.
NeverBlocked(q, i) == FALSE
Blocked(q, i) == \E j \in 1 .. i - 1 : /\ q[j].pkg.id = q[i].pkg.id
                                       /\ ~IsResponse(q[j].pkg)
ToSend(q, i) == /\ q[i].st = "send"
                /\ IsResponse(q[i].pkg) \/ ~Blocked(q, i)

\* SendUARTRaw: the daemon sends responses without a session; the host writes
\* to the port of the session.
CanSend(e, p) == CASE e = "daemon" -> IsResponse(p) \/ InMap(e, p.id)
                   [] e = "host"   -> sess[e][p.id] \in {"live", "dead"}

\* Where the pass ends: at a package whose answer is late (elapsedTime), that
\* cannot be sent, or for which WriteUartDev fails (bad).
Stop(e, late, bad) ==
    LET q == outPkgs[e]
        B == {i \in DOMAIN q : \/ i \in late
                               \/ ToSend(q, i) /\ (i \in bad \/ ~CanSend(e, q[i].pkg))}
    IN  IF B = {} THEN Len(q) + 1 ELSE Min(B)

Waiting(e) == {i \in DOMAIN outPkgs[e] : outPkgs[e][i].st = "response"}

\* What the pass sends, and what it leaves of the queue up to its end.
SentBefore(e, b) ==
    LET go == Pick(outPkgs[e], {i \in 1 .. b - 1 : ToSend(outPkgs[e], i)})
    IN  [k \in DOMAIN go |-> go[k].pkg]
Passed(e, b) ==
    LET q == [i \in DOMAIN outPkgs[e] |->
                IF i < b /\ ToSend(outPkgs[e], i)
                THEN [outPkgs[e][i] EXCEPT !.st = "response"] ELSE outPkgs[e][i]]
    IN  Pick(q, {i \in DOMAIN q : ~(IsResponse(q[i].pkg) /\ q[i].st = "response")})

CanRetry(x) == x.retry > 0

\* A package that waited too long is sent again, in the next pass.
Retried(q, s) ==
    LET i == Min({j \in DOMAIN q : q[j].pkg.id = s /\ q[j].st = "response"})
    IN  [q EXCEPT ![i].st = "send", ![i].retry = @ - 1]

\* transfer.Sent: something that waits for an answer was sent before b.
Sent(e, b) == \E i \in 1 .. b - 1 : ToSend(outPkgs[e], i) /\ ~IsResponse(outPkgs[e][i].pkg)

\* OnTransferErrorRaw: the session is freed and its packages cleared, the host
\* closes the port as well.
TransferError(e, s) ==
    /\ sess' = [sess EXCEPT ![e][s] = IF e = "host" THEN "shut" ELSE "dead"]
    /\ slots' = [slots EXCEPT ![e] = SlotsCleared(e, s)]

SendPkgInUARTOutMap(e, late, bad, woken) ==
    LET q == outPkgs[e]
        b == Stop(e, late, bad)
        s == q[b].pkg.id
        rest == Passed(e, b)
        retry == b <= Len(q) /\ b \in late /\ CanRetry(q[b])
        error == b <= Len(q) /\ ~retry /\ InMap(e, s)
    IN  /\ line' = [line EXCEPT ![e] = @ \o SentBefore(e, b)]
        /\ timeout' = [timeout EXCEPT ![e] = Sent(e, b) \/ (woken /\ @)]
        /\ requested' = [requested EXCEPT ![e] = retry \/ error]
        /\ outPkgs' = [outPkgs EXCEPT ![e] = IF retry THEN Retried(rest, s)
                                             ELSE IF error THEN Other(rest, s)
                                             ELSE rest]
        /\ IF error THEN TransferError(e, s) ELSE UNCHANGED <<sess, slots>>
        /\ UNCHANGED <<cur, resetIO, dispatchedPackageIndex, packageIndex, pc, rd,
                       histVars>>

\* Sent sets the time limit one millisecond after the last answer is late.
AllLate(e) == Waiting(e)

\* The packages the port of the host may fail to write: none or one.
Unwritten(e) == {{}} \cup IF Fails /\ e = "host" THEN {{i} : i \in DOMAIN outPkgs[e]} ELSE {}

\* transfer.Wait returns because of a request, at any time after the packages
\* were sent, or at its time limit.
WriteRequested(e, late, bad) ==
    /\ requested[e]
    /\ late \subseteq Waiting(e)
    /\ SendPkgInUARTOutMap(e, late, bad, TRUE)

WriteTimeout(e, bad) ==
    /\ ~requested[e]
    /\ timeout[e]
    /\ SendPkgInUARTOutMap(e, AllLate(e), bad, FALSE)

-----------------------------------------------------------------------------
(* The read thread *)

\* The host reads for one session while its port is open, the daemon always.
Reads(e) == e = "host" => cur # NoSession /\ sess[e][cur] \in {"live", "dead"}

\* ProcessResponsePackage: erase the package with that index, free the slot.
\* Mutant: an answer is taken for whatever the session sent.
AckedSession(q, a) == Pick(q, {i \in DOMAIN q : IsResponse(q[i].pkg) \/ q[i].pkg.id # a.id})
Acked(q, a) == Pick(q, {i \in DOMAIN q : \/ IsResponse(q[i].pkg)
                                         \/ q[i].pkg.id # a.id \/ q[i].pkg.idx # a.idx})
\* Mutant: the slot stays taken.
SlotsKept(e, a) == slots[e]
SlotsAcked(e, a) == IF Acked(outPkgs[e], a) # outPkgs[e] THEN slots[e] \ {a.id}
                    ELSE slots[e]
ProcessResponsePackage(e, a) ==
    /\ outPkgs' = [outPkgs EXCEPT ![e] = Acked(@, a)]
    /\ slots' = [slots EXCEPT ![e] = SlotsAcked(e, a)]
    /\ UNCHANGED sess

\* PKG_OPTION_RESET, for the daemon: OnTransferError frees the old session.
ResetOldSession(e, s) ==
    IF e = "daemon" /\ InMap(e, s)
    THEN /\ TransferError(e, s)
         /\ outPkgs' = [outPkgs EXCEPT ![e] = Other(@, s)]
    ELSE UNCHANGED <<sess, slots, outPkgs>>

Ack(p) == Pkg("ack", p.id, p.idx, 0)

\* PKG_OPTION_FREE: Restartession if there is such a session, then the
\* acknowledgement.
Restartession(e, p) ==
    IF InMap(e, p.id)
    THEN /\ TransferError(e, p.id)
         /\ outPkgs' = [outPkgs EXCEPT ![e] =
                          RequestSendPackage(Other(@, p.id), Ack(p))]
    ELSE /\ outPkgs' = [outPkgs EXCEPT ![e] = RequestSendPackage(@, Ack(p))]
         /\ UNCHANGED <<sess, slots>>

\* ValidateUartPacket on a package that came through: data is acknowledged
\* before it is dispatched.
ValidateUartPacket(e) ==
    LET p == Head(line[Peer(e)])
    IN  /\ Reads(e)
        /\ rd[e] = NoPkg
        /\ line[Peer(e)] # <<>>
        /\ line' = [line EXCEPT ![Peer(e)] = Tail(@)]
        /\ requested' = [requested EXCEPT ![e] =
                           @ \/ (p.kind = "reset" => e = "daemon" /\ InMap(e, p.id))]
        /\ CASE p.kind = "ack"   -> ProcessResponsePackage(e, p)
             [] p.kind = "reset" -> ResetOldSession(e, p.id)
             [] p.kind = "free"  -> Restartession(e, p)
             [] p.kind = "data"  ->
                  /\ outPkgs' = [outPkgs EXCEPT ![e] =
                                   RequestSendPackage(@, Ack(p))]
                  /\ UNCHANGED <<sess, slots>>
        /\ rd' = [rd EXCEPT ![e] = IF p.kind = "data" THEN p ELSE NoPkg]
        /\ UNCHANGED <<cur, resetIO, dispatchedPackageIndex, packageIndex, pc,
                       timeout, histVars>>

\* ReadUartDev fails on the host, once or, the port being closed, again:
\* OnTransferError.
ReadFails ==
    /\ Fails
    /\ cur # NoSession
    /\ rd["host"] = NoPkg
    /\ TransferError("host", cur)
    /\ outPkgs' = [outPkgs EXCEPT !["host"] = Other(@, cur)]
    /\ requested' = [requested EXCEPT !["host"] = TRUE]
    /\ UNCHANGED <<cur, resetIO, dispatchedPackageIndex, packageIndex, pc, timeout,
                   line, rd, histVars>>

\* A package is lost, or garbled: the reader clears its buffer.
Lose(e) ==
    /\ line[e] # <<>>
    /\ line' = [line EXCEPT ![e] = Tail(@)]
    /\ UNCHANGED <<sess, cur, resetIO, dispatchedPackageIndex, sendVars, outPkgs,
                   requested, timeout, rd, histVars>>

\* The session a package is dispatched to, and whether it is a duplicate of the
\* last one dispatched there.
Target(e) == IF e = "host" THEN cur ELSE rd[e].id
IsNew(e) == e = "daemon" /\ ~InMap(e, Target(e))
\* Mutant: what is sent again is dispatched again.
NoDuplicate(e) == FALSE
Duplicate(e) == ~IsNew(e) /\ dispatchedPackageIndex[e][Target(e)] = rd[e].idx

\* ResponseUartTrans(.., ++packageIndex, PKG_OPTION_FREE), for a session of e
\* whose packageIndex is n.
FreePkg(s, n) == Pkg("free", s, n + 1, 0)

DispatchDuplicate(e) ==
    /\ rd[e] # NoPkg
    /\ Duplicate(e)
    /\ rd' = [rd EXCEPT ![e] = NoPkg]
    /\ UNCHANGED <<sess, cur, resetIO, dispatchedPackageIndex, sendVars, outPkgs,
                   requested, timeout, line, histVars>>

\* DispatchPackageData reaches the worker.  The daemon makes a session for an
\* id it does not know.
DispatchPackageData(e) ==
    LET s == Target(e)
    IN  /\ rd[e] # NoPkg
        /\ ~Duplicate(e)
        /\ rd[e].id = s
        /\ rd' = [rd EXCEPT ![e] = NoPkg]
        /\ dispatchedPackageIndex' = [dispatchedPackageIndex EXCEPT ![e][s] = rd[e].idx]
        /\ got' = [got EXCEPT ![e][s] = Append(IF IsNew(e) THEN <<>> ELSE @, rd[e].val)]
        /\ sess' = [sess EXCEPT ![e][s] = IF IsNew(e) THEN "live" ELSE @]
        /\ packageIndex' = [packageIndex EXCEPT ![e][s] = IF IsNew(e) THEN 0 ELSE @]
        /\ again' = again \cup IF IsNew(e) /\ sess[e][s] = "gone" THEN {s} ELSE {}
        /\ UNCHANGED <<cur, resetIO, pc, slots, outPkgs, requested, timeout, line,
                       sent, broken, raced>>

\* The pipe to the worker is broken: ask the other side to free the session.
DispatchFail(e) ==
    LET s == Target(e)
    IN  /\ Fails
        /\ rd[e] # NoPkg
        /\ ~Duplicate(e) /\ ~IsNew(e)
        /\ rd[e].id = s
        /\ rd' = [rd EXCEPT ![e] = NoPkg]
        /\ dispatchedPackageIndex' = [dispatchedPackageIndex EXCEPT ![e][s] = rd[e].idx]
        /\ packageIndex' = [packageIndex EXCEPT ![e][s] = @ + 1]
        /\ outPkgs' = [outPkgs EXCEPT ![e] =
                         RequestSendPackage(@, FreePkg(s, packageIndex[e][s]))]
        /\ requested' = [requested EXCEPT ![e] = TRUE]
        /\ broken' = [broken EXCEPT ![e] = @ \cup {s}]
        /\ UNCHANGED <<sess, cur, resetIO, pc, slots, timeout, line, sent, got,
                       again, raced>>

\* The host reads a package of another session: the first time it asks the
\* daemon to reset that session and to free this one.
DispatchForeign ==
    LET s == Target("host")
        first == s \notin resetIO
        q == RequestSendPackage(outPkgs["host"], Pkg("reset", rd["host"].id, 0, 0))
    IN  /\ rd["host"] # NoPkg
        /\ ~Duplicate("host")
        /\ rd["host"].id # s
        /\ rd' = [rd EXCEPT !["host"] = NoPkg]
        /\ dispatchedPackageIndex' =
              [dispatchedPackageIndex EXCEPT !["host"][s] = rd["host"].idx]
        /\ resetIO' = resetIO \cup {s}
        /\ IF first
           THEN /\ packageIndex' = [packageIndex EXCEPT !["host"][s] = @ + 1]
                /\ outPkgs' = [outPkgs EXCEPT !["host"] =
                      RequestSendPackage(q, FreePkg(s, packageIndex["host"][s]))]
                /\ requested' = [requested EXCEPT !["host"] = TRUE]
           ELSE UNCHANGED <<packageIndex, outPkgs, requested>>
        /\ UNCHANGED <<sess, cur, pc, slots, timeout, line, histVars>>

\* ReadDataFromUARTStream on the worker: FetchIOBuf refuses what came.
WorkerRefuses(e, s) ==
    /\ Fails
    /\ sess[e][s] = "live"
    /\ got[e][s] # <<>>
    /\ sess' = [sess EXCEPT ![e][s] = "dead"]
    /\ packageIndex' = [packageIndex EXCEPT ![e][s] = @ + 1]
    /\ outPkgs' = [outPkgs EXCEPT ![e] =
                     RequestSendPackage(@, FreePkg(s, packageIndex[e][s]))]
    /\ requested' = [requested EXCEPT ![e] = TRUE]
    /\ UNCHANGED <<cur, resetIO, dispatchedPackageIndex, pc, slots, timeout, line,
                   rd, histVars>>

-----------------------------------------------------------------------------
CallerStep(c) == \/ \E s \in Session : SendUARTData(c, s)
                 \/ NumberPackage(c)
                 \/ \E more \in BOOLEAN : AddPackage(c, more)

WriteStep(e) ==
    \E bad \in Unwritten(e) :
        \/ \E late \in SUBSET Waiting(e) : WriteRequested(e, late, bad)
        \/ WriteTimeout(e, bad)

ReadStep(e) == \/ ValidateUartPacket(e)
               \/ DispatchDuplicate(e)
               \/ DispatchPackageData(e)
               \/ DispatchFail(e)

SessionStep(e, s) == \/ FreeSession(e, s)
                     \/ StopSession(e, s)
                     \/ WorkerRefuses(e, s)

\* One session of the host uses the line.
Next == \/ \E c \in Caller : CallerStep(c)
        \/ \E e \in End : \/ WriteStep(e)
                          \/ ReadStep(e)
                          \/ Lose(e)
                          \/ \E s \in Session : SessionStep(e, s)
        \/ \E s \in Session : ConnectDaemon(s)
        \/ ReadFails

\* The host connects again, and the daemon may still have the old session.
ReconnectNext == \/ Next
                 \/ \E s \in Session : Reconnect(s)
                 \/ DispatchForeign

Spec == Init /\ [][Next]_vars

\* Both threads of an end go on, a caller gets the slot it waits for often
\* enough; the session layer ends the free of a session it began.
Fairness ==
    /\ \A e \in End : /\ WF_vars(WriteStep(e))
                      /\ WF_vars(ReadStep(e))
                      /\ \A s \in Session : WF_vars(StopSession(e, s))
    /\ \A c \in Caller : /\ WF_vars(NumberPackage(c))
                         /\ SF_vars(\E more \in BOOLEAN : AddPackage(c, more))

FairSpec == Spec /\ Fairness
ReconnectSpec == /\ Init /\ [][ReconnectNext]_vars
                 /\ Fairness
                 /\ WF_vars(DispatchForeign)

-----------------------------------------------------------------------------
(* Properties *)

\* e keeps the session s, no two of its threads have been inside SendUARTData for
\* it at a time (they may take the same number, and then the second package is
\* not put into outPkgs or is taken for a duplicate), no dispatch of it has
\* failed at either end, and the daemon has not made it a second time.
Whole(e, s) == /\ sess[e][s] \in {"none", "live"}
               /\ s \notin raced[e]
               /\ s \notin broken[e] \cup broken[Peer(e)] \cup again

\* What is dispatched of a session is dispatched once and in the order it was
\* put into outPkgs, through losses, late answers and retries, whatever threads
\* send; and without a gap, as long as the sender does not give the session up
\* and its threads send one after the other.  Two threads that send to a session
\* at a time may leave a gap: ++packageIndex (uart.cpp:930) is read and written
\* without a lock, and the slot is not taken in the order of the numbers.
Increasing(q) == \A j, k \in DOMAIN q : j < k => q[j] < q[k]
OnceInOrder == \A e \in End, s \in Session : Increasing(got[e][s])
NoGap == \A e \in End, s \in Session :
            Whole(Peer(e), s) => \A k \in DOMAIN got[e][s] : got[e][s][k] = k
InOrder == OnceInOrder /\ NoGap

\* A package leaves outPkgs by an acknowledgement only when it was dispatched or
\* is in the hands of the read thread: while the sender keeps the session, and
\* no two of its threads send to it at a time (uart.cpp:930), no payload is lost.
AckedIsDispatched ==
    \A e \in End, s \in Session : Whole(e, s) =>
        LET d == Peer(e)
        IN  \A v \in 1 .. sent[e][s] :
              \/ \E i \in DOMAIN outPkgs[e] : outPkgs[e][i].pkg.id = s
                                              /\ outPkgs[e][i].pkg.val = v
              \/ rd[d] # NoPkg /\ rd[d].id = s /\ rd[d].val = v
              \/ \E k \in DOMAIN got[d][s] : got[d][s][k] = v

\* "maintain the data reliability of the link layer" (uart.cpp:623): what a live
\* session is given has no gap, if the worker took all that came.  The code does
\* not keep it where the sender has given the session up between two pieces.
Reliable ==
    \A e \in End, s \in Session \ again :
        sess[e][s] = "live" /\ s \notin broken[e] =>
            \A k \in DOMAIN got[e][s] : got[e][s][k] = k

\* One package of a session waits for an answer, although a package that frees
\* the session comes past the slot: that is why the receiver needs to remember
\* only the last index.
OneInFlight ==
    \A e \in End : \A i, j \in Waiting(e) :
        outPkgs[e][i].pkg.id = outPkgs[e][j].pkg.id => i = j

\* No lost wakeup: the write thread never sleeps, without a time limit, on a
\* queue that is not empty.
AwakeWithWork == \A e \in End : outPkgs[e] # <<>> => requested[e] \/ timeout[e]

\* Once a session is deleted the write thread has no package of it that it
\* would look the session up for (SendUARTRaw).
NoStrayPackage ==
    \A e \in End : \A i \in DOMAIN outPkgs[e] :
        InMap(e, outPkgs[e][i].pkg.id) \/ (e = "daemon" /\ IsResponse(outPkgs[e][i].pkg))

\* slots.Wait has no time limit; still every caller gets out of it, unless the
\* write thread is stuck at a package whose session is gone (see ResponseIsSent).
SenderReturns ==
    \A c \in Caller : []<>(pc[c].at # "wait" \/ ~NoStrayPackage)

\* Every package is acknowledged, or given up together with its session:
\* outPkgs does not stay filled, with the same exception.
QueueDrains ==
    \A e \in End : []<>(outPkgs[e] = <<>> \/ ~NoStrayPackage)

\* The queue of packages serves the link: one package of a session waits for its
\* answer, no wakeup is lost, and no package outlives its session.
UartQueues == TypeOK /\ OneInFlight /\ AwakeWithWork /\ NoStrayPackage

\* The link moves: callers get their slot and the queue is emptied.
UartMoves == SenderReturns /\ QueueDrains

\* "response package always send nowait noorder" (uart.cpp:735).
ResponseIsSent ==
    \A e \in End :
        (\E i \in DOMAIN outPkgs[e] : IsResponse(outPkgs[e][i].pkg))
        ~> ~(\E i \in DOMAIN outPkgs[e] : IsResponse(outPkgs[e][i].pkg))

-----------------------------------------------------------------------------
(* The inductive invariant *)

\* Everything on the line belongs to the one session the host has connected.
Used(s) == sess["host"][s] # "none"
OneUsed == \A s, t \in Session : Used(s) /\ Used(t) => s = t
OnlyUsed ==
    /\ \A s \in Session : sess["daemon"][s] # "none" => Used(s)
    /\ \A e \in End : /\ \A i \in DOMAIN outPkgs[e] : Used(outPkgs[e][i].pkg.id)
                      /\ \A i \in DOMAIN line[e] : Used(line[e][i].id)
                      /\ rd[e] # NoPkg => Used(rd[e].id)

\* Who may still add a package works on a session in the map.
InUse ==
    /\ \A c \in Caller : pc[c].at # "idle" => pc[c].s \in Session /\ InMap(EndOf(c), pc[c].s)
    /\ cur # NoSession => InMap("host", cur)
    /\ rd["host"] # NoPkg => cur # NoSession

\* What waits for its answer is no response and the first of its session, and
\* the write thread has a time limit.
FirstWaits ==
    \A e \in End : \A i \in Waiting(e) :
        ~IsResponse(outPkgs[e][i].pkg) /\ ~Blocked(outPkgs[e], i) /\ timeout[e]

UartInv == TypeOK /\ OneUsed /\ OnlyUsed /\ InUse /\ FirstWaits /\ NoStrayPackage /\ AwakeWithWork

-----------------------------------------------------------------------------
(* The inductive invariants of the order *)

\* Two threads of an end are at a session only where `raced' says so.
OneInside == \A b, c \in Caller :
                /\ EndOf(b) = EndOf(c) /\ b # c
                /\ pc[b].at # "idle" /\ pc[c].at # "idle" /\ pc[b].s = pc[c].s
                => pc[b].s \in raced[EndOf(b)]

\* What e sends comes in this order: what the read thread of the other end holds
\* (H), what is on the line (L), what is in outPkgs (Q).
Held(e) == IF rd[e] = NoPkg THEN <<>> ELSE <<rd[e]>>
PkgsOf(q) == [i \in DOMAIN q |-> q[i].pkg]

Data(p) == p.kind = "data"
\* p goes before q, or is the same payload.
NotAfter(p, q) == Data(p) /\ Data(q) /\ p.id = q.id =>
                    p.val <= q.val /\ (p.val = q.val => p.idx = q.idx)
InFront(P, Q) == \A i \in DOMAIN P, j \in DOMAIN Q : NotAfter(P[i], Q[j])
Sorted(P) == \A i, j \in DOMAIN P : i < j => NotAfter(P[i], P[j])

\* The last payload of those dispatched.
Latest(g) == IF g = <<>> THEN 0 ELSE g[Len(g)]

\* A package has not been overtaken; if it was dispatched it is known for a
\* duplicate.  For each session n payloads were sent, g were dispatched, and the
\* last one dispatched had the index x.
Due(p, n, g, x) ==
    Data(p) => /\ p.val \in 1 .. n[p.id]
               /\ Latest(g[p.id]) <= p.val
               /\ p.val = Latest(g[p.id]) => p.idx = x[p.id]
Flow(H, L, Q, n, g, x) ==
    /\ \A P \in {H, L, Q} : \A i \in DOMAIN P : Due(P[i], n, g, x)
    /\ InFront(H, L) /\ InFront(H, Q) /\ InFront(L, Q)
    /\ Sorted(L) /\ Sorted(Q)
Ordered(e) == Flow(Held(Peer(e)), line[e], PkgsOf(outPkgs[e]), sent[e], got[Peer(e)],
                   dispatchedPackageIndex[Peer(e)])
Given(e, s) == Increasing(got[e][s]) /\ Latest(got[e][s]) <= sent[Peer(e)][s]
OrderInv ==
    \A e \in End : /\ Ordered(e)
                   /\ rd[e] # NoPkg => Data(rd[e])
                   /\ \A s \in Session : Given(e, s)

\* The number a caller has for its package; packageIndex is that of the last one
\* put into outPkgs or, while a caller waits for the slot, the next.
Counted(e, s) ==
    /\ \A c \in Caller : EndOf(c) = e /\ pc[c].s = s =>
          /\ pc[c].at = "count" => pc[c].n = sent[e][s]
          /\ pc[c].at = "wait" => pc[c].n = sent[e][s] + 1 /\ packageIndex[e][s] = pc[c].n
    /\ \/ packageIndex[e][s] = sent[e][s]
       \/ \E c \in Caller : EndOf(c) = e /\ pc[c].s = s /\ pc[c].at = "wait"

\* A package of s that is no answer is data with the number of its payload; an
\* answer is to a payload up to m.
Numbered(p, s) == p.id = s /\ ~IsResponse(p) => Data(p) /\ p.idx = p.val
Answers(p, s, m) == p.id = s /\ IsResponse(p) => p.idx <= m
\* The last payload that was received, dispatched or not yet.
Reached(H, g, s) == IF H # <<>> /\ H[1].id = s THEN H[1].val ELSE Latest(g)

\* The other end is at the payload m; the ones after it are kept.  A are the
\* answers under way; n, g and x are those of the session.
Link(s, H, L, Q, A, n, g, x) ==
    LET m == Reached(H, g, s)
    IN  /\ \A P \in {H, L, Q} : \A i \in DOMAIN P : Numbered(P[i], s)
        /\ \A p \in A : Answers(p, s, m)
        /\ \A i \in DOMAIN L : L[i].id = s /\ ~IsResponse(L[i]) => L[i].val <= m + 1
        /\ \A v \in m + 1 .. n :
             \E i \in DOMAIN Q : Q[i].id = s /\ ~IsResponse(Q[i]) /\ Q[i].val = v
        /\ m <= Latest(g) + 1
        /\ \A k \in DOMAIN g : g[k] = k
        /\ x = Latest(g)
AnswersOf(e) == Range(line[e]) \cup Range(PkgsOf(outPkgs[e]))
Linked(e, s) ==
    LET d == Peer(e)
    IN  Link(s, Held(d), line[e], PkgsOf(outPkgs[e]), AnswersOf(d), sent[e][s],
             got[d][s], dispatchedPackageIndex[d][s])
NumbersFit(e, s) ==
    /\ Whole(e, s) => Counted(e, s) /\ Linked(e, s)
    /\ sess[e][s] = "none" => packageIndex[e][s] = 0 /\ got[e][s] = <<>>
NumberInv == \A e \in End, s \in Session : NumbersFit(e, s)
=============================================================================
