------------------------- MODULE HdcChannel_proofs --------------------------
(***************************************************************************)
(* Proofs about HdcChannel, for any set of channels and any bounds on the  *)
(* writes, commands and packets.  ChannelInv is inductive and implies      *)
(* ChannelSafe; ChannelInv and ChannelLife together are inductive and imply *)
(* FreedChannelReleased.                                                   *)
(***************************************************************************)
EXTENDS HdcChannel, SequenceTheorems, TLAPS

-----------------------------------------------------------------------------
(* The references of a channel                                             *)

\* A channel record and the stage of its freeing.
RecOK(r) == ChannelShape(r) /\ FreeStages(r)

\* An operation on a record that keeps the count of its references and does
\* not take the freeing past the wait for them.
Good(m, r) ==
  /\ RecOK(m) /\ m.st = r.st
  /\ r.free \in {"no", "operate"} => m.free \in {"no", "operate"}
  /\ \A n \in {0, 1} : RefsCounted(r, n) => RefsCounted(m, n)

\* The part of the type invariant that is not about one record.
RestOK ==
  /\ sess \in {"up", "dead", "stopped"}
  /\ asyncQ \subseteq Channels /\ bindNext \subseteq Channels
  /\ clearNext \subseteq Channels /\ permit \subseteq Channels
  /\ forward \subseteq Channels /\ task \subseteq Channels
  /\ ctrl \in Seq({"attach", "detach"} \X Channels)

\* Two good operations in a row are good.
LEMMA GoodTrans ==
    ASSUME NEW a, NEW b, NEW c, Good(b, a), Good(c, b) PROVE Good(c, a)
  BY DEF Good

\* Doing nothing is good.
LEMMA GoodSelf == ASSUME NEW r, RecOK(r) PROVE Good(r, r)
  BY DEF Good

\* FreeChannel keeps the count.
LEMMA MarkDeadGood == ASSUME NEW r, RecOK(r) PROVE Good(MarkDead(r), r)
<1>1. CASE r.isDead \/ r.st # "mapped"
  BY <1>1, GoodSelf DEF MarkDead
<1>2. CASE ~(r.isDead \/ r.st # "mapped")
  <2>1. MarkDead(r) = [r EXCEPT !.isDead = TRUE, !.free = "operate"]
    BY <1>2 DEF MarkDead
  <2>2. ChannelShape(MarkDead(r))
    BY <2>1 DEF RecOK, ChannelShape, ChannelFields
  <2>3. FreeStages(MarkDead(r))
    BY <1>2, <2>1 DEF RecOK, ChannelShape, ChannelFields, FreeStages
  <2>4. QED
    BY <2>1, <2>2, <2>3 DEF Good, RecOK, ChannelShape, ChannelFields, RefsCounted
<1>3. QED
  BY <1>1, <1>2

\* A write takes the reference that its callback returns.
LEMMA SendChannelGood ==
    ASSUME NEW r, RecOK(r), NEW thread \in {"main", "worker"} PROVE Good(SendChannel(r, thread), r)
<1> DEFINE m == SendChannel(r, thread)
<1>1. CASE m = r
  BY <1>1, GoodSelf
<1>2. CASE m = [r EXCEPT !.ref = @ + 1, !.wWork = @ + 1] /\ r.wWork < MaxWrites
  <2>1. ChannelShape(m)
    BY <1>2, ChannelBounds DEF RecOK, ChannelShape, ChannelFields
  <2>2. FreeStages(m)
    BY <1>2 DEF RecOK, ChannelShape, ChannelFields, FreeStages
  <2>3. QED
    BY <1>2, <2>1, <2>2 DEF Good, RecOK, ChannelShape, ChannelFields, RefsCounted
<1>3. CASE m = [r EXCEPT !.ref = @ + 1, !.wChild = @ + 1] /\ r.wChild < MaxWrites
  <2>1. ChannelShape(m)
    BY <1>3, ChannelBounds DEF RecOK, ChannelShape, ChannelFields
  <2>2. FreeStages(m)
    BY <1>3 DEF RecOK, ChannelShape, ChannelFields, FreeStages
  <2>3. QED
    BY <1>3, <2>1, <2>2 DEF Good, RecOK, ChannelShape, ChannelFields, RefsCounted
<1>4. QED
  BY <1>1, <1>2, <1>3 DEF SendChannel

\* EchoClient keeps the count.
LEMMA EchoClientGood ==
    ASSUME NEW r, RecOK(r), NEW thread \in {"main", "worker"} PROVE Good(EchoClient(r, thread), r)
  BY SendChannelGood DEF EchoClient

\* TryCloseHandle keeps the count.
LEMMA CloseStreamGood ==
    ASSUME NEW r, RecOK(r), NEW thread \in {"main", "worker"} PROVE Good(CloseStream(r, thread), r)
<1> DEFINE m == CloseStream(r, thread)
<1>1. CASE m = r
  BY <1>1, GoodSelf
<1>2. CASE m = [r EXCEPT !.work = "closing"]
  BY <1>2 DEF Good, RecOK, ChannelShape, ChannelFields, StreamStates, FreeStages, RefsCounted
<1>3. CASE m = [r EXCEPT !.child = "closing"]
  BY <1>3 DEF Good, RecOK, ChannelShape, ChannelFields, StreamStates, FreeStages, RefsCounted
<1>4. QED
  BY <1>1, <1>2, <1>3 DEF CloseStream

\* A step of one channel that nobody takes or gives back.
LEMMA OneChannel ==
    ASSUME ChannelInv, RestOK', NEW c \in Channels, NEW r, ch' = [ch EXCEPT ![c] = r], Good(r, ch[c]),
           UNCHANGED hold
    PROVE  ChannelInv'
<1>1. DOMAIN ch' = Channels /\ ch'[c] = r /\ \A d \in Channels : d # c => ch'[d] = ch[d]
  BY DEF ChannelInv, ChanTypeOK
<1>2. ChanTypeOK'
  BY <1>1 DEF ChannelInv, ChanTypeOK, RestOK, Good, RecOK
<1>3. HoldOK'
  BY <1>1 DEF ChannelInv, HoldOK, Good
<1>4. ASSUME NEW d \in Channels PROVE FreeStages(ch'[d]) /\ RefsCounted(ch'[d], Held(d)')
  <2>1. Held(d)' = Held(d) /\ Held(d) \in {0, 1}
    BY DEF Held
  <2>2. QED
    BY <1>1, <2>1 DEF ChannelInv, Good, RecOK
<1>5. QED
  BY <1>2, <1>3, <1>4 DEF ChannelInv, RestOK

\* What ChannelInv says of one record.
LEMMA RecordsOK == ASSUME ChannelInv, NEW c \in Channels PROVE RecOK(ch[c])
  BY DEF ChannelInv, ChanTypeOK, RecOK

\* A step of all channels.
LEMMA ManyChannels ==
    ASSUME ChannelInv, RestOK', DOMAIN ch' = Channels, \A d \in Channels : Good(ch'[d], ch[d]), UNCHANGED hold
    PROVE  ChannelInv'
<1>2. ChanTypeOK'
  BY DEF ChannelInv, ChanTypeOK, RestOK, Good, RecOK
<1>3. HoldOK'
  BY DEF ChannelInv, HoldOK, Good
<1>4. ASSUME NEW d \in Channels PROVE FreeStages(ch'[d]) /\ RefsCounted(ch'[d], Held(d)')
  <2>1. Held(d)' = Held(d) /\ Held(d) \in {0, 1}
    BY DEF Held
  <2>2. QED
    BY <2>1 DEF ChannelInv, Good, RecOK
<1>5. QED
  BY <1>2, <1>3, <1>4 DEF ChannelInv, RestOK

\* A step that changes no record and holds nothing.
LEMMA QuietChannels ==
    ASSUME ChannelInv, RestOK', UNCHANGED <<ch, hold>> PROVE ChannelInv'
  BY ManyChannels, RecordsOK, GoodSelf DEF ChannelInv, ChanTypeOK

\* Whoever holds a channel is somebody.
LEMMA HoldKind == ASSUME hold.kind # "none" PROVE hold # Nobody
  BY DEF Nobody

\* Every step keeps the sets of channels and the control pipe in shape.
LEMMA RestStep == ASSUME ChannelInv, [ChanNext]_chanVars PROVE RestOK'
<1>0. RestOK
  BY DEF RestOK, ChannelInv, ChanTypeOK
<1>1. CASE UNCHANGED chanVars
  BY <1>0, <1>1 DEF RestOK, chanVars
<1>2. ASSUME NEW c \in Channels, AcceptClient(c) \/ ClientSteps(c) \/ OrderConnecTargetResult(c) PROVE RestOK'
  BY <1>0, <1>2 DEF RestOK, AcceptClient, ClientSteps, ClientHandshake, ClientCommand, ClientHangup,
                    OrderConnecTargetResult
<1>3. ASSUME NEW c \in Channels, NEW r, NEW t, FreeChannel(c, r, t),
             UNCHANGED <<sess, ctrl, bindNext, clearNext, permit, forward, task>> PROVE RestOK'
  BY <1>0, <1>3 DEF RestOK, FreeChannel
<1>4. ASSUME NEW c \in Channels, MainSteps(c) PROVE RestOK'
  <2>1. CASE WorkClosed(c) \/ AsyncMainLoopTask(c) \/ CheckFreeChannelContinue(c)
    BY <1>0, <2>1 DEF RestOK, WorkClosed, AsyncMainLoopTask, CheckFreeChannelContinue
  <2>2. CASE BindNextLoop(c)
    <3>1. Append(ctrl, <<"attach", c>>) \in Seq({"attach", "detach"} \X Channels)
      BY <1>0 DEF RestOK
    <3>2. QED
      BY <1>0, <2>2, <3>1 DEF RestOK, BindNextLoop
  <2>3. CASE FreeChannelOpeate(c)
    <3>1. Append(ctrl, <<"detach", c>>) \in Seq({"attach", "detach"} \X Channels)
      BY <1>0 DEF RestOK
    <3>2. QED
      BY <1>0, <2>3, <3>1 DEF RestOK, FreeChannelOpeate
  <2>4. CASE FreeChannelFinally(c)
    BY <1>0, <2>4 DEF RestOK, FreeChannelFinally, NotifyInstanceChannelFree
  <2>5. QED
    BY <1>4, <2>1, <2>2, <2>3, <2>4 DEF MainSteps
<1>5. ASSUME NEW c \in Channels, StreamSteps(c) PROVE RestOK'
  <2>1. CASE ChannelHandShake(c)
    BY <1>0, <2>1 DEF RestOK, ChannelHandShake, BindChannelToSession
  <2>2. CASE ReadStreamFails(c)
    BY <1>3, <2>2 DEF ReadStreamFails
  <2>3. CASE \E thread \in {"main", "worker"}, ok \in BOOLEAN : WriteCallback(c, thread, ok)
    BY <1>0, <1>3, <2>3 DEF RestOK, WriteCallback
  <2>4. CASE DoCommand(c)
    <3>1. UNCHANGED <<ctrl, bindNext, clearNext>>
      BY <2>4 DEF DoCommand
    <3>2. /\ sess' \in {sess, "dead"} /\ forward' \in {forward, {}}
          /\ permit' \in {permit, {}, permit \cup {c}, permit \ {c}}
          /\ task' \in {task, task \ forward, task \cup {c}}
      BY <2>4 DEF DoCommand, RemoveForward, SessionIsFreed, TaskCommand, RegisterHostPermit
    <3>3. asyncQ' = asyncQ \/ asyncQ' \subseteq asyncQ \cup {c} \cup forward
      BY <2>4 DEF DoCommand, Unforwarded
    <3>4. QED
      BY <1>0, <3>1, <3>2, <3>3 DEF RestOK
  <2>5. QED
    BY <1>5, <2>1, <2>2, <2>3, <2>4 DEF StreamSteps
<1>6. ASSUME NEW c \in Channels, WorkerSteps(c) PROVE RestOK'
  BY <1>0, <1>6 DEF RestOK, WorkerSteps, ChildClosed, ClearNextLoop, FetchCommand
<1>7. CASE ReadCtrlFromMain
  <2>1. Head(ctrl)[2] \in Channels /\ Tail(ctrl) \in Seq({"attach", "detach"} \X Channels)
    <3>1. Head(ctrl) \in {"attach", "detach"} \X Channels
      BY <1>0, <1>7 DEF RestOK, ReadCtrlFromMain
    <3>2. QED
      BY <1>0, <1>7, <3>1 DEF RestOK, ReadCtrlFromMain
  <2>2. UNCHANGED <<sess, asyncQ, bindNext, permit, forward>> /\ ctrl' = Tail(ctrl)
    BY <1>7 DEF ReadCtrlFromMain
  <2>3. task' \subseteq task /\ clearNext' \subseteq clearNext \cup {Head(ctrl)[2]}
    BY <1>7 DEF ReadCtrlFromMain
  <2>4. QED
    BY <1>0, <2>1, <2>2, <2>3 DEF RestOK
<1>8. CASE AttachChannel
  BY <1>0, <1>8 DEF RestOK, AttachChannel
<1>9. CASE DispatchChannelCommand
  <2>1. hold.c \in Channels
    BY <1>9, HoldKind DEF ChannelInv, HoldOK, DispatchChannelCommand
  <2>2. /\ UNCHANGED <<sess, ctrl, bindNext, clearNext, permit>>
        /\ asyncQ' \subseteq asyncQ \cup {hold.c} /\ forward' \subseteq forward \cup {hold.c}
        /\ task' \subseteq task \cup {hold.c}
    BY <1>9 DEF DispatchChannelCommand
  <2>3. QED
    BY <1>0, <2>1, <2>2 DEF RestOK
<1>10. CASE OtherRemovesForward \/ SessionDies \/ WorkerStops
  BY <1>0, <1>10 DEF RestOK, OtherRemovesForward, RemoveForward, SessionDies, SessionIsFreed, WorkerStops
<1>11. QED
  BY <1>1, <1>2, <1>4, <1>5, <1>6, <1>7, <1>8, <1>9, <1>10 DEF ChanNext

\* AcceptClient starts with no reference but that of its first write.
LEMMA AcceptKeeps == ASSUME ChannelInv, RestOK', NEW c \in Channels, AcceptClient(c) PROVE ChannelInv'
<1> DEFINE r == [NewChannel EXCEPT !.st = "mapped", !.uvHandleRef = 1, !.work = "open"]
<1>1. PICK accepted \in BOOLEAN : ch' = [ch EXCEPT ![c] = IF accepted THEN SendChannel(r, "main") ELSE MarkDead(r)]
  BY DEF AcceptClient
<1>2. RecOK(r) /\ RefsCounted(r, 0) /\ r.st = "mapped" /\ r.free = "no"
  BY ChannelBounds DEF RecOK, ChannelShape, ChannelFields, StreamStates, FreeStages, RefsCounted, NewChannel
<1> HIDE DEF r
<1> DEFINE q == IF accepted THEN SendChannel(r, "main") ELSE MarkDead(r)
<1>3. Good(q, r)
  BY <1>2, SendChannelGood, MarkDeadGood
<1>4. RecOK(q) /\ RefsCounted(q, 0) /\ q.st = "mapped" /\ q.free \in {"no", "operate"}
  BY <1>2, <1>3 DEF Good
<1> HIDE DEF q
<1>5. DOMAIN ch' = Channels /\ ch'[c] = q /\ \A d \in Channels : d # c => ch'[d] = ch[d]
  BY <1>1 DEF ChannelInv, ChanTypeOK, q
<1>6. ch[c].st = "none" /\ UNCHANGED hold
  BY DEF AcceptClient
<1>7. Held(c) = 0 /\ \A d \in Channels : Held(d)' = Held(d)
  BY <1>6 DEF Held, ChannelInv, HoldOK
<1>8. ChanTypeOK'
  BY <1>4, <1>5 DEF ChannelInv, ChanTypeOK, RestOK, RecOK
<1>9. HoldOK'
  BY <1>4, <1>5, <1>6 DEF ChannelInv, HoldOK
<1>10. \A d \in Channels : FreeStages(ch'[d]) /\ RefsCounted(ch'[d], Held(d)')
  BY <1>4, <1>5, <1>7 DEF ChannelInv, RecOK
<1>11. QED
  BY <1>8, <1>9, <1>10 DEF ChannelInv, RestOK

\* ChannelHandShake: the binding takes one reference.
LEMMA HandShakeKeeps == ASSUME ChannelInv, RestOK', NEW c \in Channels, ChannelHandShake(c) PROVE ChannelInv'
<1> DEFINE r == [ch[c] EXCEPT !.handshakeOK = TRUE]
<1>0. RecOK(ch[c]) /\ UNCHANGED hold /\ ~ch[c].handshakeOK
  BY RecordsOK DEF ChannelHandShake
<1>1. Good(r, ch[c]) /\ ~r.bound
  BY <1>0 DEF Good, RecOK, ChannelShape, ChannelFields, FreeStages, RefsCounted
<1>2. CASE ch' = [ch EXCEPT ![c] = r]
  BY <1>0, <1>1, <1>2, OneChannel
<1>3. CASE ch' = [ch EXCEPT ![c] = MarkDead(ch[c])]
  BY <1>0, <1>3, OneChannel, MarkDeadGood
<1>4. CASE ch' = [ch EXCEPT ![c] = [r EXCEPT !.ref = @ + 1, !.bound = TRUE, !.work = "closing"]]
  <2> DEFINE b == [r EXCEPT !.ref = @ + 1, !.bound = TRUE, !.work = "closing"]
  <2>1. RecOK(b)
    BY <1>1 DEF Good, RecOK, ChannelShape, ChannelFields, StreamStates, FreeStages
  <2>2. Good(b, r)
    BY <1>1, <2>1 DEF Good, RecOK, ChannelShape, ChannelFields, RefsCounted
  <2> HIDE DEF b
  <2>3. Good(b, ch[c])
    BY <1>1, <2>2, GoodTrans
  <2>4. QED
    BY <1>0, <1>4, <2>3, OneChannel DEF b
<1>5. CASE ch' = [ch EXCEPT ![c] = MarkDead(r)]
  <2>1. Good(MarkDead(r), ch[c])
    BY <1>1, MarkDeadGood, GoodTrans DEF Good
  <2>2. QED
    BY <1>0, <1>5, <2>1, OneChannel
<1>6. CASE ch' = [ch EXCEPT ![c] = MarkDead(EchoClient(r, "main"))]
  <2> HIDE DEF r
  <2>1. Good(EchoClient(r, "main"), ch[c])
    BY <1>1, EchoClientGood, GoodTrans DEF Good
  <2>2. Good(MarkDead(EchoClient(r, "main")), ch[c])
    BY <2>1, MarkDeadGood, GoodTrans DEF Good
  <2>3. QED
    BY <1>0, <1>6, <2>2, OneChannel
<1>7. QED
  BY <1>2, <1>3, <1>4, <1>5, <1>6 DEF ChannelHandShake, BindChannelToSession

\* The close callback returns the references of the writes and of the binding.
LEMMA WorkClosedKeeps == ASSUME ChannelInv, RestOK', NEW c \in Channels, WorkClosed(c) PROVE ChannelInv'
<1> DEFINE r == [ch[c] EXCEPT !.wWork = 0, !.ref = @ - ch[c].wWork]
           f == IF ch[c].wWork > 0 /\ r.ref = 0 THEN MarkDead(r) ELSE r
           g == [f EXCEPT !.work = "closed", !.bound = FALSE,
                          !.ref = IF f.bound THEN @ - 1 ELSE @,
                          !.uvHandleRef = IF f.free = "finally" /\ f.onClose = "uvref"
                                          THEN @ - 1 ELSE @,
                          !.onClose = IF @ = "uvref" THEN "none" ELSE @]
<1>0. RecOK(ch[c]) /\ UNCHANGED hold /\ RefsCounted(ch[c], Held(c)) /\ Held(c) \in {0, 1}
  BY RecordsOK DEF WorkClosed, ChannelInv, Held
<1>1. ch' = [ch EXCEPT ![c] = g]
  BY DEF WorkClosed
<1>2. Good(r, ch[c])
  <2>1. r.ref \in Nat
    BY <1>0 DEF RecOK, ChannelShape, ChannelFields, RefsCounted
  <2>2. RecOK(r)
    BY <1>0, <2>1, ChannelBounds DEF RecOK, ChannelShape, ChannelFields, FreeStages
  <2>3. QED
    BY <1>0, <2>2 DEF Good, RecOK, ChannelShape, ChannelFields, RefsCounted
<1> HIDE DEF r
<1>3. Good(f, ch[c])
  <2>1. Good(f, r)
    BY <1>2, MarkDeadGood, GoodSelf DEF Good
  <2>2. QED
    BY <1>2, <2>1, GoodTrans
<1> HIDE DEF f
<1>4. RefsCounted(f, Held(c)) /\ RecOK(f)
  BY <1>0, <1>3 DEF Good
<1>5. f.bound => f.ref - 1 \in Nat
  BY <1>0, <1>4 DEF RecOK, ChannelShape, RefsCounted
<1>6. Good(g, f)
  <2>1. CASE f.bound
    <3> DEFINE k == f.ref - 1
    <3>1. CASE f.free = "finally" /\ f.onClose = "uvref"
      <4>1. g = [f EXCEPT !.work = "closed", !.bound = FALSE, !.ref = k,
                          !.uvHandleRef = f.uvHandleRef - 1, !.onClose = "none"]
        BY <2>1, <3>1
      <4>2. QED
        BY <1>4, <1>5, <2>1, <3>1, <4>1 DEF Good, RecOK, ChannelShape, ChannelFields, StreamStates, FreeStages, RefsCounted
    <3>2. CASE ~(f.free = "finally" /\ f.onClose = "uvref")
      <4>1. PICK o \in {"none", f.onClose} :
              /\ g = [f EXCEPT !.work = "closed", !.bound = FALSE, !.ref = k,
                               !.uvHandleRef = f.uvHandleRef, !.onClose = o]
              /\ o # "uvref"
        BY <2>1, <3>2
      <4>2. QED
        BY <1>4, <1>5, <2>1, <3>2, <4>1 DEF Good, RecOK, ChannelShape, ChannelFields, StreamStates, FreeStages, RefsCounted
    <3>3. QED
      BY <3>1, <3>2
  <2>2. CASE ~f.bound
    <3>1. CASE f.free = "finally" /\ f.onClose = "uvref"
      <4>1. g = [f EXCEPT !.work = "closed", !.bound = FALSE, !.ref = f.ref,
                          !.uvHandleRef = f.uvHandleRef - 1, !.onClose = "none"]
        BY <2>2, <3>1
      <4>2. QED
        BY <1>4, <2>2, <3>1, <4>1 DEF Good, RecOK, ChannelShape, ChannelFields, StreamStates, FreeStages, RefsCounted
    <3>2. CASE ~(f.free = "finally" /\ f.onClose = "uvref")
      <4>1. PICK o \in {"none", f.onClose} :
              /\ g = [f EXCEPT !.work = "closed", !.bound = FALSE, !.ref = f.ref,
                               !.uvHandleRef = f.uvHandleRef, !.onClose = o]
              /\ o # "uvref"
        BY <2>2, <3>2
      <4>2. QED
        BY <1>4, <2>2, <3>2, <4>1 DEF Good, RecOK, ChannelShape, ChannelFields, StreamStates, FreeStages, RefsCounted
    <3>3. QED
      BY <3>1, <3>2
  <2>3. QED
    BY <2>1, <2>2
<1> HIDE DEF g
<1>7. QED
  BY <1>0, <1>1, <1>3, <1>6, GoodTrans, OneChannel

\* The record that DoCommand leaves.
LEMMA CommandGood ==
    ASSUME NEW r, RecOK(r), NEW cmd, NEW thread \in {"main", "worker"},
           NEW res \in DoCommandLocal(r, cmd, thread) \cup DoCommandRemote(r, cmd, thread)
    PROVE  Good(res.r, r)
<1> DEFINE k == [r EXCEPT !.keepAlive = TRUE]
           n == [r EXCEPT !.connecting = TRUE]
<1>1. Good(k, r) /\ Good(n, r)
  BY DEF Good, RecOK, ChannelShape, ChannelFields, FreeStages, RefsCounted
<1>2. Good(r, r) /\ Good(EchoClient(r, thread), r) /\ Good(SendChannel(r, thread), r)
  BY GoodSelf, EchoClientGood, SendChannelGood
<1>3. res.r \in {r, EchoClient(r, thread), SendChannel(r, thread), k, n}
  BY DEF DoCommandLocal, DoCommandRemote, NewConnectTry
<1>4. QED
  BY <1>1, <1>2, <1>3

\* A stream is read by one of two threads.
LEMMA ReaderThread == \A c \in Channels : Reader(c) \in {"main", "worker"}
  BY DEF Reader

\* DoCommand keeps the counts of the channel and of those that fport rm frees.
LEMMA DoCommandKeeps == ASSUME ChannelInv, RestOK', NEW c \in Channels, DoCommand(c) PROVE ChannelInv'
<1> DEFINE cmd == Head(peer[c].q)
           thread == Reader(c)
<1>0. RecOK(ch[c]) /\ UNCHANGED hold /\ thread \in {"main", "worker"} /\ DOMAIN ch = Channels
  BY RecordsOK, ReaderThread DEF DoCommand, ChannelInv, ChanTypeOK
<1> DEFINE local == ch[c].child = "null" \/ cmd \in AnywhereCommands
           removes == local /\ cmd = "fport rm"
           Freed(res) == (IF res.more \/ res.r.keepAlive THEN {} ELSE {c})
                         \cup (IF removes THEN Unforwarded ELSE {})
<1>11. PICK res \in IF local THEN DoCommandLocal(ch[c], cmd, thread) ELSE DoCommandRemote(ch[c], cmd, thread) :
         IF thread = "main"
         THEN ch' = [d \in Channels |-> IF d \in Freed(res) THEN MarkDead([ch EXCEPT ![c] = res.r][d])
                                        ELSE [ch EXCEPT ![c] = res.r][d]]
         ELSE ch' = [ch EXCEPT ![c] = res.r]
  BY DEF DoCommand
<1> DEFINE freed == Freed(res)
<1>1. /\ res \in DoCommandLocal(ch[c], cmd, thread) \cup DoCommandRemote(ch[c], cmd, thread)
      /\ \/ ch' = [d \in Channels |-> IF d \in freed THEN MarkDead([ch EXCEPT ![c] = res.r][d])
                                      ELSE [ch EXCEPT ![c] = res.r][d]]
         \/ ch' = [ch EXCEPT ![c] = res.r]
  BY <1>11
<1> HIDE DEF freed, Freed, removes, local
<1>2. Good(res.r, ch[c])
  BY <1>0, <1>1, CommandGood
<1> HIDE DEF cmd, thread
<1>3. CASE ch' = [ch EXCEPT ![c] = res.r]
  BY <1>0, <1>2, <1>3, OneChannel
<1> DEFINE left == [ch EXCEPT ![c] = res.r]
<1>4. CASE ch' = [d \in Channels |-> IF d \in freed THEN MarkDead(left[d]) ELSE left[d]]
  <2>1. ASSUME NEW d \in Channels PROVE Good(left[d], ch[d])
    BY <1>0, <1>2, GoodSelf, RecordsOK
  <2>2. ASSUME NEW d \in Channels PROVE Good(ch'[d], ch[d])
    <3>0. Good(left[d], ch[d])
      BY <2>1
    <3> HIDE DEF left
    <3>1. Good(MarkDead(left[d]), ch[d])
      BY <3>0, MarkDeadGood, GoodTrans DEF Good
    <3>2. ch'[d] \in {MarkDead(left[d]), left[d]}
      BY <1>4
    <3>3. QED
      BY <3>0, <3>1, <3>2
  <2>3. DOMAIN ch' = Channels
    BY <1>4
  <2>4. QED
    BY <1>0, <2>2, <2>3, ManyChannels
<1>5. QED
  BY <1>1, <1>3, <1>4

\* fport rm of another client keeps the counts.
LEMMA OtherRemovesKeeps == ASSUME ChannelInv, RestOK', OtherRemovesForward PROVE ChannelInv'
<1>1. ASSUME NEW d \in Channels PROVE Good(ch'[d], ch[d])
  <2>1. ch'[d] \in {MarkDead(ch[d]), ch[d]}
    BY DEF OtherRemovesForward
  <2>2. QED
    BY <2>1, RecordsOK, MarkDeadGood, GoodSelf
<1>2. DOMAIN ch' = Channels /\ UNCHANGED hold
  BY DEF OtherRemovesForward
<1>3. QED
  BY <1>1, <1>2, ManyChannels

\* A read that fails keeps the count.
LEMMA ReadFailsKeeps == ASSUME ChannelInv, RestOK', NEW c \in Channels, ReadStreamFails(c) PROVE ChannelInv'
<1> DEFINE t == Reader(c)
           r == CloseStream(ch[c], t)
<1>0. t \in {"main", "worker"} /\ UNCHANGED hold
  BY ReaderThread DEF ReadStreamFails
<1>1. Good(r, ch[c])
  BY <1>0, RecordsOK, CloseStreamGood
<1>2. Good(MarkDead(r), ch[c])
  BY <1>1, MarkDeadGood, GoodTrans DEF Good
<1>3. ch' = [ch EXCEPT ![c] = r] \/ ch' = [ch EXCEPT ![c] = MarkDead(r)]
  BY DEF ReadStreamFails, FreeChannel
<1> HIDE DEF r
<1>4. QED
  BY <1>0, <1>1, <1>2, <1>3, OneChannel

\* WriteCallback returns the reference of its write.
LEMMA WriteCallbackKeeps ==
    ASSUME ChannelInv, RestOK', NEW c \in Channels, NEW thread \in {"main", "worker"}, NEW ok \in BOOLEAN,
           WriteCallback(c, thread, ok)
    PROVE  ChannelInv'
<1> DEFINE r == WriteDone(ch[c], thread)
           f == CloseStream(r, thread)
<1>0. RecOK(ch[c]) /\ UNCHANGED hold /\ RefsCounted(ch[c], Held(c)) /\ Held(c) \in {0, 1}
  BY RecordsOK DEF WriteCallback, ChannelInv, Held
<1>1. Good(r, ch[c])
  <2>1. CASE thread = "main"
    <3>1. r = [ch[c] EXCEPT !.wWork = @ - 1, !.ref = @ - 1] /\ ch[c].wWork > 0
      BY <2>1 DEF WriteCallback, WriteDone
    <3>2. ch[c].ref - 1 \in Nat
      BY <1>0, <3>1 DEF RecOK, ChannelShape, RefsCounted
    <3> HIDE DEF r
    <3>3. RecOK(r)
      BY <1>0, <3>1, <3>2, ChannelBounds DEF RecOK, ChannelShape, ChannelFields, FreeStages
    <3>4. QED
      BY <1>0, <3>1, <3>3 DEF Good, RecOK, ChannelShape, ChannelFields, RefsCounted
  <2>2. CASE thread = "worker"
    <3>1. r = [ch[c] EXCEPT !.wChild = @ - 1, !.ref = @ - 1] /\ ch[c].wChild > 0
      BY <2>2 DEF WriteCallback, WriteDone
    <3>2. ch[c].ref - 1 \in Nat
      BY <1>0, <3>1 DEF RecOK, ChannelShape, RefsCounted
    <3> HIDE DEF r
    <3>3. RecOK(r)
      BY <1>0, <3>1, <3>2, ChannelBounds DEF RecOK, ChannelShape, ChannelFields, FreeStages
    <3>4. QED
      BY <1>0, <3>1, <3>3 DEF Good, RecOK, ChannelShape, ChannelFields, RefsCounted
  <2>3. QED
    BY <2>1, <2>2
<1> HIDE DEF r
<1>2. Good(f, ch[c])
  BY <1>1, CloseStreamGood, GoodTrans DEF Good
<1>3. Good(MarkDead(f), ch[c])
  BY <1>2, MarkDeadGood, GoodTrans DEF Good
<1>4. ch' \in {[ch EXCEPT ![c] = r], [ch EXCEPT ![c] = f], [ch EXCEPT ![c] = MarkDead(f)]}
  BY DEF WriteCallback, FreeChannel, r
<1> HIDE DEF f
<1>5. QED
  BY <1>0, <1>1, <1>2, <1>3, <1>4, OneChannel

\* OrderConnecTargetResult keeps the count.
LEMMA ConnectResultKeeps ==
    ASSUME ChannelInv, RestOK', NEW c \in Channels, OrderConnecTargetResult(c) PROVE ChannelInv'
<1> DEFINE r == [ch[c] EXCEPT !.connecting = FALSE]
<1>0. RecOK(ch[c]) /\ UNCHANGED hold
  BY RecordsOK DEF OrderConnecTargetResult
<1>1. Good(r, ch[c])
  BY <1>0 DEF Good, RecOK, ChannelShape, ChannelFields, FreeStages, RefsCounted
<1>2. ch' = [ch EXCEPT ![c] = MarkDead(EchoClient(r, "main"))]
  BY DEF OrderConnecTargetResult
<1> HIDE DEF r
<1>3. Good(EchoClient(r, "main"), ch[c])
  BY <1>1, EchoClientGood, GoodTrans DEF Good
<1>4. Good(MarkDead(EchoClient(r, "main")), ch[c])
  BY <1>3, MarkDeadGood, GoodTrans DEF Good
<1>5. QED
  BY <1>0, <1>2, <1>4, OneChannel

\* A step of one channel that nobody holds.
LEMMA UnheldChannel ==
    ASSUME ChannelInv, RestOK', NEW c \in Channels, NEW r, ch' = [ch EXCEPT ![c] = r], RecOK(r),
           RefsCounted(r, Held(c)), r.st # "none", UNCHANGED hold,
           hold # Nobody /\ hold.c = c /\ hold.early => r.st = "mapped" /\ r.free \in {"no", "operate"}
    PROVE  ChannelInv'
<1>1. DOMAIN ch' = Channels /\ ch'[c] = r /\ \A d \in Channels : d # c => ch'[d] = ch[d]
  BY DEF ChannelInv, ChanTypeOK
<1>2. ChanTypeOK'
  BY <1>1 DEF ChannelInv, ChanTypeOK, RestOK, RecOK
<1>3. HoldOK'
  BY <1>1 DEF ChannelInv, HoldOK
<1>4. ASSUME NEW d \in Channels PROVE FreeStages(ch'[d]) /\ RefsCounted(ch'[d], Held(d)')
  <2>1. Held(d)' = Held(d)
    BY DEF Held
  <2>2. QED
    BY <1>1, <2>1 DEF ChannelInv, RecOK
<1>5. QED
  BY <1>2, <1>3, <1>4 DEF ChannelInv, RestOK

\* FreeChannelContinue gives the handle reference back, once.
LEMMA ContinueGood ==
    ASSUME NEW r, RecOK(r), r.free \in {"operate", "wait"}
    PROVE  LET m == FreeChannelContinue(r)
           IN  /\ RecOK(m) /\ m.st = r.st /\ \A n \in {0, 1} : RefsCounted(r, n) => RefsCounted(m, n)
<1> DEFINE m == FreeChannelContinue(r)
<1>1. CASE r.work = "open"
  <2>1. m = [r EXCEPT !.free = "finally", !.work = "closing", !.onClose = "uvref"]
    BY <1>1 DEF FreeChannelContinue
  <2>2. QED
    BY <2>1 DEF RecOK, ChannelShape, ChannelFields, StreamStates, FreeStages, RefsCounted
<1>2. CASE r.work # "open"
  <2>1. m = [r EXCEPT !.free = "finally", !.uvHandleRef = @ - 1]
    BY <1>2 DEF FreeChannelContinue
  <2>2. QED
    BY <2>1 DEF RecOK, ChannelShape, ChannelFields, StreamStates, FreeStages, RefsCounted
<1>3. QED
  BY <1>1, <1>2

\* A channel whose references are zero, or whose freeing is past the wait for
\* them, is not one that the worker took alive.
LEMMA NotHeldAlive ==
    ASSUME ChannelInv, NEW c \in Channels, ch[c].free \in {"wait", "finally", "done"} \/ ch[c].ref = 0
    PROVE  ~(hold # Nobody /\ hold.c = c /\ hold.early)
<1>1. ChannelShape(ch[c]) /\ RefsCounted(ch[c], Held(c))
  BY DEF ChannelInv, ChanTypeOK
<1>2. CASE ch[c].ref = 0
  BY <1>1, <1>2 DEF ChannelShape, RefsCounted, Held
<1>3. CASE ch[c].free \in {"wait", "finally", "done"}
  BY <1>3 DEF ChannelInv, HoldOK
<1>4. QED
  BY <1>2, <1>3

\* FreeChannelOpeate goes on with a channel without references: the worker does not
\* hold it.
LEMMA OpeateKeeps == ASSUME ChannelInv, RestOK', NEW c \in Channels, FreeChannelOpeate(c) PROVE ChannelInv'
<1>0. /\ RecOK(ch[c]) /\ UNCHANGED hold /\ RefsCounted(ch[c], Held(c)) /\ Held(c) \in {0, 1}
      /\ ch[c].free = "operate" /\ ch[c].ref = 0
  BY RecordsOK DEF FreeChannelOpeate, NoReference, ChannelInv, Held
<1>1. ~(hold # Nobody /\ hold.c = c /\ hold.early) /\ ch[c].st # "none"
  BY <1>0, NotHeldAlive DEF RecOK, FreeStages
<1>2. CASE ch[c].child = "null"
  <2> DEFINE m == FreeChannelContinue(ch[c])
  <2>1. ch' = [ch EXCEPT ![c] = m]
    BY <1>2 DEF FreeChannelOpeate
  <2>2. RecOK(m) /\ m.st = ch[c].st /\ RefsCounted(m, Held(c))
    BY <1>0, ContinueGood
  <2> HIDE DEF m
  <2>3. QED
    BY <1>0, <1>1, <2>1, <2>2, UnheldChannel
<1>3. CASE ch[c].child # "null"
  <2>1. PICK m : ch' = [ch EXCEPT ![c] = m] /\
                 m \in {[ch[c] EXCEPT !.free = "wait", !.childCleared = ch[c].childCleared],
                        [ch[c] EXCEPT !.free = "wait", !.childCleared = TRUE]}
    BY <1>3 DEF FreeChannelOpeate, ChannelInv, ChanTypeOK
  <2>2. RecOK(m) /\ m.st = ch[c].st /\ RefsCounted(m, Held(c))
    BY <1>0, <2>1 DEF RecOK, ChannelShape, ChannelFields, FreeStages, RefsCounted
  <2>3. QED
    BY <1>0, <1>1, <2>1, <2>2, UnheldChannel
<1>4. QED
  BY <1>2, <1>3

\* CheckFreeChannelContinue gives the handle reference back.
LEMMA CheckContinueKeeps ==
    ASSUME ChannelInv, RestOK', NEW c \in Channels, CheckFreeChannelContinue(c) PROVE ChannelInv'
<1> DEFINE m == FreeChannelContinue(ch[c])
<1>0. /\ RecOK(ch[c]) /\ UNCHANGED hold /\ RefsCounted(ch[c], Held(c)) /\ Held(c) \in {0, 1}
      /\ ch[c].free = "wait" /\ ch' = [ch EXCEPT ![c] = m]
  BY RecordsOK DEF CheckFreeChannelContinue, ChannelInv, Held
<1>1. ~(hold # Nobody /\ hold.c = c /\ hold.early) /\ ch[c].st # "none"
  BY <1>0, NotHeldAlive DEF RecOK, FreeStages
<1>2. RecOK(m) /\ m.st = ch[c].st /\ RefsCounted(m, Held(c))
  BY <1>0, ContinueGood
<1> HIDE DEF m
<1>3. QED
  BY <1>0, <1>1, <1>2, UnheldChannel

\* FreeChannelFinally removes a channel that the worker did not take alive.
LEMMA FinallyKeeps == ASSUME ChannelInv, RestOK', NEW c \in Channels, FreeChannelFinally(c) PROVE ChannelInv'
<1>0. /\ RecOK(ch[c]) /\ UNCHANGED hold /\ RefsCounted(ch[c], Held(c)) /\ ch[c].free = "finally"
      /\ ch[c].uvHandleRef = 0 /\ DOMAIN ch = Channels
  BY RecordsOK DEF FreeChannelFinally, ChannelInv, ChanTypeOK
<1>1. ~(hold # Nobody /\ hold.c = c /\ hold.early)
  BY <1>0, NotHeldAlive
<1>2. PICK m : ch' = [ch EXCEPT ![c] = m] /\
        m \in {[ch[c] EXCEPT !.free = "done", !.st = "removed", !.child = "closing", !.onClose = "delete"],
               [ch[c] EXCEPT !.free = "done", !.st = "deleted"]}
  <2>1. CASE ch[c].child = "open"
    <3>1. ch' = [ch EXCEPT ![c] = [ch[c] EXCEPT !.free = "done", !.st = "removed", !.child = "closing", !.onClose = "delete"]]
      BY <1>0, <2>1 DEF FreeChannelFinally
    <3>2. QED
      BY <3>1
  <2>2. CASE ch[c].child # "open"
    <3>1. ch' = [ch EXCEPT ![c] = [ch[c] EXCEPT !.free = "done", !.st = "deleted"]]
      BY <1>0, <2>2 DEF FreeChannelFinally, RecOK, ChannelShape, ChannelFields
    <3>2. QED
      BY <3>1
  <2>3. QED
    BY <2>1, <2>2
<1>3. RecOK(m) /\ m.st # "none" /\ RefsCounted(m, Held(c))
  <2>1. ch[c].onClose # "uvref"
    BY <1>0 DEF RecOK, FreeStages
  <2>2. CASE m = [ch[c] EXCEPT !.free = "done", !.st = "deleted"]
    BY <1>0, <2>1, <2>2 DEF RecOK, ChannelShape, ChannelFields, StreamStates, FreeStages, RefsCounted
  <2>3. CASE m = [ch[c] EXCEPT !.free = "done", !.st = "removed", !.child = "closing", !.onClose = "delete"]
    BY <1>0, <2>3 DEF RecOK, ChannelShape, ChannelFields, StreamStates, FreeStages, RefsCounted
  <2>4. QED
    BY <1>2, <2>2, <2>3
<1>4. QED
  BY <1>0, <1>1, <1>2, <1>3, UnheldChannel

\* The worker's streams.
LEMMA ChildGoneGood ==
    ASSUME NEW r, RecOK(r), NEW n \in {0, 1}, RefsCounted(r, n)
    PROVE  /\ RecOK(ChildGone(r)) /\ RefsCounted(ChildGone(r), n) /\ ChildGone(r).free = r.free
           /\ ChildGone(r).st = "none" => r.st = "none"
           /\ r.onClose # "delete" => ChildGone(r).st = r.st
<1> DEFINE m == ChildGone(r)
           o == IF r.onClose \in {"cleared", "delete"} THEN "none" ELSE r.onClose
           b == r.childCleared \/ r.onClose = "cleared"
           k == r.ref - r.wChild
           q == IF r.onClose = "delete" THEN "deleted" ELSE r.st
<1>1. m = [r EXCEPT !.child = "closed", !.ref = k, !.wChild = 0, !.childCleared = b, !.st = q, !.onClose = o]
  BY DEF ChildGone, RecOK, ChannelShape, ChannelFields
<1>2. k \in Nat
  BY DEF RecOK, ChannelShape, RefsCounted
<1>3. o \in {"none", r.onClose} /\ o \notin {"cleared", "delete"} /\ q \in {"deleted", r.st}
      /\ (r.onClose # "delete" => q = r.st) /\ (q = "deleted" /\ r.onClose = "delete" => r.free = "done")
  BY DEF RecOK, FreeStages
<1>4. k = r.ref - r.wChild
  OBVIOUS
<1>5. r.onClose = "delete" => q = "deleted"
  OBVIOUS
<1> HIDE DEF m, o, b, k, q
<1>6. ChannelShape(m)
  BY <1>1, <1>2, <1>3, ChannelBounds DEF RecOK, ChannelShape, ChannelFields, StreamStates
<1>7. FreeStages(m)
  BY <1>1, <1>3, <1>5 DEF RecOK, ChannelShape, ChannelFields, FreeStages
<1>8. RefsCounted(m, n)
  BY <1>1, <1>2, <1>4 DEF RecOK, ChannelShape, ChannelFields, RefsCounted
<1>9. m.free = r.free /\ m.st = q
  BY <1>1 DEF RecOK, ChannelShape, ChannelFields
<1>10. QED
  BY <1>3, <1>6, <1>7, <1>8, <1>9 DEF RecOK, m

\* The close callback of the child stream returns the references of its writes.
LEMMA ChildClosedKeeps == ASSUME ChannelInv, RestOK', NEW c \in Channels, ChildClosed(c) PROVE ChannelInv'
<1> DEFINE m == ChildGone(ch[c])
<1>0. /\ RecOK(ch[c]) /\ UNCHANGED hold /\ RefsCounted(ch[c], Held(c)) /\ Held(c) \in {0, 1}
      /\ ch' = [ch EXCEPT ![c] = m] /\ hold = Nobody
  BY RecordsOK DEF ChildClosed, ChannelInv, Held, Working
<1>1. RecOK(m) /\ RefsCounted(m, Held(c)) /\ (m.st = "none" => ch[c].st = "none")
  BY <1>0, ChildGoneGood
<1> HIDE DEF m
<1>2. DOMAIN ch' = Channels /\ ch'[c] = m /\ \A d \in Channels : d # c => ch'[d] = ch[d]
  BY <1>0 DEF ChannelInv, ChanTypeOK
<1>3. ChanTypeOK'
  BY <1>1, <1>2 DEF ChannelInv, ChanTypeOK, RestOK, RecOK
<1>4. HoldOK'
  BY <1>0 DEF HoldOK
<1>5. ASSUME NEW d \in Channels PROVE FreeStages(ch'[d]) /\ RefsCounted(ch'[d], Held(d)')
  <2>1. Held(d)' = Held(d)
    BY <1>0 DEF Held
  <2>2. QED
    BY <1>1, <1>2, <2>1 DEF ChannelInv, RecOK
<1>6. QED
  BY <1>3, <1>4, <1>5 DEF ChannelInv, RestOK

\* The worker that stops returns the references of all its writes.
LEMMA WorkerStopsKeeps == ASSUME ChannelInv, RestOK', WorkerStops PROVE ChannelInv'
<1>0. hold = Nobody /\ UNCHANGED hold /\ DOMAIN ch' = Channels
  BY DEF WorkerStops, Working
<1>1. ASSUME NEW d \in Channels PROVE RecOK(ch'[d]) /\ RefsCounted(ch'[d], Held(d)')
  <2>1. RecOK(ch[d]) /\ RefsCounted(ch[d], Held(d)) /\ Held(d) \in {0, 1} /\ Held(d)' = Held(d)
    BY <1>0, RecordsOK DEF ChannelInv, Held
  <2>2. ch'[d] \in {ch[d], ChildGone(ch[d])}
    BY DEF WorkerStops
  <2>3. RecOK(ChildGone(ch[d])) /\ RefsCounted(ChildGone(ch[d]), Held(d))
    BY <2>1, ChildGoneGood
  <2>4. QED
    BY <2>1, <2>2, <2>3
<1>2. ChanTypeOK'
  BY <1>0, <1>1 DEF ChannelInv, ChanTypeOK, RestOK, RecOK
<1>3. HoldOK'
  BY <1>0 DEF HoldOK
<1>4. QED
  BY <1>1, <1>2, <1>3 DEF ChannelInv, RestOK, RecOK

\* DetachChannel, the end: childCleared.
LEMMA ClearNextKeeps == ASSUME ChannelInv, RestOK', NEW c \in Channels, ClearNextLoop(c) PROVE ChannelInv'
<1> DEFINE m == [ch[c] EXCEPT !.childCleared = TRUE]
<1>1. ch' = [ch EXCEPT ![c] = m] /\ UNCHANGED hold
  BY DEF ClearNextLoop, Detached
<1>2. Good(m, ch[c])
  BY RecordsOK DEF Good, RecOK, ChannelShape, ChannelFields, FreeStages, RefsCounted
<1> HIDE DEF m
<1>3. QED
  BY <1>1, <1>2, OneChannel

\* The main thread frees what the worker asked it to free.
LEMMA AsyncKeeps == ASSUME ChannelInv, RestOK', NEW c \in Channels, AsyncMainLoopTask(c) PROVE ChannelInv'
  BY RecordsOK, MarkDeadGood, OneChannel DEF AsyncMainLoopTask

\* The worker takes a channel that is in the map.
LEMMA TakeKeeps ==
    ASSUME ChannelInv, RestOK', NEW c \in Channels, hold = Nobody, ch[c].st = "mapped",
           ch' = [ch EXCEPT ![c].ref = @ + 1], hold'.kind \in {"attach", "fetch"}, hold'.c = c,
           hold'.early => ~ch[c].isDead
    PROVE  ChannelInv'
<1> DEFINE m == [ch[c] EXCEPT !.ref = @ + 1]
<1>0. RecOK(ch[c]) /\ RefsCounted(ch[c], 0)
  BY RecordsOK DEF ChannelInv, Held
<1>1. RecOK(m) /\ RefsCounted(m, 1) /\ m.st = "mapped" /\ m.free = ch[c].free
  BY <1>0 DEF RecOK, ChannelShape, ChannelFields, FreeStages, RefsCounted
<1>2. ch' = [ch EXCEPT ![c] = m]
  OBVIOUS
<1> HIDE DEF m
<1>3. DOMAIN ch' = Channels /\ ch'[c] = m /\ \A d \in Channels : d # c => ch'[d] = ch[d]
  BY <1>2 DEF ChannelInv, ChanTypeOK
<1>4. hold' # Nobody
  BY DEF Nobody
<1>5. ChanTypeOK'
  BY <1>1, <1>3 DEF ChannelInv, ChanTypeOK, RestOK, RecOK
<1>6. hold'.early => ch[c].free = "no"
  BY <1>0 DEF RecOK, FreeStages
<1>7. HoldOK'
  BY <1>1, <1>3, <1>4, <1>6 DEF HoldOK
<1>8. ASSUME NEW d \in Channels PROVE FreeStages(ch'[d]) /\ RefsCounted(ch'[d], Held(d)')
  <2>1. Held(d) = 0 /\ Held(d)' = IF d = c THEN 1 ELSE 0
    BY <1>4 DEF Held
  <2>2. QED
    BY <1>1, <1>3, <2>1 DEF ChannelInv, RecOK
<1>9. QED
  BY <1>5, <1>7, <1>8 DEF ChannelInv, RestOK

\* The worker gives the channel back; what it does with it keeps the count.
LEMMA GiveBackKeeps ==
    ASSUME ChannelInv, RestOK', NEW c \in Channels, hold # Nobody, hold.c = c, hold' = Nobody, NEW m,
           ch' = [ch EXCEPT ![c] = m], RecOK(m), RefsCounted(m, 0)
    PROVE  ChannelInv'
<1>1. DOMAIN ch' = Channels /\ ch'[c] = m /\ \A d \in Channels : d # c => ch'[d] = ch[d]
  BY DEF ChannelInv, ChanTypeOK
<1>2. ChanTypeOK'
  BY <1>1 DEF ChannelInv, ChanTypeOK, RestOK, RecOK
<1>3. HoldOK'
  BY DEF HoldOK
<1>4. ASSUME NEW d \in Channels PROVE FreeStages(ch'[d]) /\ RefsCounted(ch'[d], Held(d)')
  <2>1. Held(d)' = 0 /\ (d # c => Held(d) = 0)
    BY DEF Held
  <2>2. QED
    BY <1>1, <2>1 DEF ChannelInv, RecOK
<1>5. QED
  BY <1>2, <1>3, <1>4 DEF ChannelInv, RestOK

\* What is left of a held channel once its reference is dropped.
LEMMA Dropped ==
    ASSUME ChannelInv, hold # Nobody
    PROVE  LET r == [ch[hold.c] EXCEPT !.ref = @ - 1]
           IN  RecOK(r) /\ RefsCounted(r, 0) /\ hold.c \in Channels
<1> DEFINE c == hold.c
           r == [ch[c] EXCEPT !.ref = @ - 1]
<1>1. c \in Channels /\ Held(c) = 1
  BY DEF ChannelInv, HoldOK, Held
<1>2. RecOK(ch[c]) /\ RefsCounted(ch[c], 1)
  BY <1>1, RecordsOK DEF ChannelInv
<1> HIDE DEF c
<1>3. ch[c].ref - 1 \in Nat
  BY <1>2 DEF RecOK, ChannelShape, RefsCounted
<1>4. RecOK(r) /\ RefsCounted(r, 0)
  BY <1>2, <1>3 DEF RecOK, ChannelShape, ChannelFields, FreeStages, RefsCounted
<1>5. QED
  BY <1>1, <1>4 DEF c

\* ReadCtrlFromMain: an attach takes a reference, a detach closes the child stream.
LEMMA ReadCtrlKeeps == ASSUME ChannelInv, RestOK', ReadCtrlFromMain PROVE ChannelInv'
<1> DEFINE c == Head(ctrl)[2]
<1>0. c \in Channels /\ hold = Nobody /\ DOMAIN ch = Channels
  <2>1. ctrl # <<>> /\ ctrl \in Seq({"attach", "detach"} \X Channels)
    BY DEF ReadCtrlFromMain, ChannelInv
  <2>2. Head(ctrl) \in {"attach", "detach"} \X Channels
    BY <2>1
  <2>3. QED
    BY <2>2 DEF ReadCtrlFromMain, Working, ChannelInv, ChanTypeOK
<1>1. CASE Head(ctrl)[1] = "attach" /\ InMap(c)
  <2>1. /\ hold' = [kind |-> "attach", c |-> c, early |-> ~ch[c].isDead]
        /\ ch' = [ch EXCEPT ![c].ref = @ + 1]
    BY <1>1 DEF ReadCtrlFromMain
  <2> HIDE DEF c
  <2>2. hold'.kind = "attach" /\ hold'.c = c /\ (hold'.early => ~ch[c].isDead)
    BY <2>1
  <2>3. QED
    BY <1>0, <1>1, <2>1, <2>2, TakeKeeps DEF InMap
<1>2. CASE Head(ctrl)[1] = "attach" /\ ~InMap(c)
  <2>1. hold' = Nobody /\ ch' = [ch EXCEPT ![c].ref = @]
    BY <1>2 DEF ReadCtrlFromMain
  <2> DEFINE m == [ch[c] EXCEPT !.ref = ch[c].ref]
  <2>2. ch' = [ch EXCEPT ![c] = m] /\ UNCHANGED hold
    BY <1>0, <2>1
  <2>3. Good(m, ch[c])
    BY <1>0, RecordsOK DEF Good, RecOK, ChannelShape, ChannelFields, FreeStages, RefsCounted
  <2> HIDE DEF m, c
  <2>4. QED
    BY <1>0, <2>2, <2>3, OneChannel
<1>3. CASE Head(ctrl)[1] # "attach"
  <2>1. UNCHANGED hold
    BY <1>3 DEF ReadCtrlFromMain
  <2>2. CASE ch' = ch
    BY <2>1, <2>2, QuietChannels
  <2>3. CASE ch' = [ch EXCEPT ![c].child = "closing", ![c].onClose = "cleared"] /\ InMap(c)
    <3> DEFINE m == [ch[c] EXCEPT !.child = "closing", !.onClose = "cleared"]
    <3>1. ch' = [ch EXCEPT ![c] = m]
      BY <2>3
    <3>2. Good(m, ch[c])
      BY <1>0, RecordsOK DEF Good, RecOK, ChannelShape, ChannelFields, StreamStates, FreeStages, RefsCounted
    <3> HIDE DEF m, c
    <3>3. QED
      BY <1>0, <2>1, <3>1, <3>2, OneChannel
  <2>4. QED
    BY <1>3, <2>2, <2>3 DEF ReadCtrlFromMain
<1>4. QED
  BY <1>1, <1>2, <1>3

\* AttachChannel returns its reference.
LEMMA AttachKeeps == ASSUME ChannelInv, RestOK', AttachChannel PROVE ChannelInv'
<1> DEFINE c == hold.c
           r == [ch[c] EXCEPT !.ref = @ - 1]
<1>0. hold # Nobody /\ hold' = Nobody
  BY HoldKind DEF AttachChannel
<1>1. RecOK(r) /\ RefsCounted(r, 0) /\ c \in Channels
  BY <1>0, Dropped
<1>2. PICK opened \in {"open", "closing"} : ch' = [ch EXCEPT ![c].child = opened, ![c].ref = @ - 1]
  BY DEF AttachChannel
<1> DEFINE m == [r EXCEPT !.child = opened]
<1>3. ch' = [ch EXCEPT ![c] = m]
  <2>1. [ch[c] EXCEPT !.child = opened, !.ref = @ - 1] = m
    BY <1>1 DEF RecOK, ChannelShape, ChannelFields
  <2>2. QED
    BY <1>2, <2>1
<1> HIDE DEF r
<1>4. RecOK(m) /\ RefsCounted(m, 0)
  BY <1>1 DEF RecOK, ChannelShape, ChannelFields, StreamStates, FreeStages, RefsCounted
<1> HIDE DEF m
<1>5. QED
  BY <1>0, <1>1, <1>3, <1>4, GiveBackKeeps

\* DispatchChannelCommand returns the reference of FetchCommand.
LEMMA DispatchKeeps == ASSUME ChannelInv, RestOK', DispatchChannelCommand PROVE ChannelInv'
<1> DEFINE c == hold.c
           r == [ch[c] EXCEPT !.ref = @ - 1]
<1>0. hold # Nobody /\ hold' = Nobody
  BY HoldKind DEF DispatchChannelCommand
<1>1. RecOK(r) /\ RefsCounted(r, 0) /\ c \in Channels
  BY <1>0, Dropped
<1>2. PICK m \in {r, EchoClient(r, "worker"), CloseStream(r, "worker")} : ch' = [ch EXCEPT ![c] = m]
  BY DEF DispatchChannelCommand
<1> HIDE DEF r
<1>3. RecOK(m) /\ RefsCounted(m, 0)
  <2>1. Good(m, r)
    BY <1>1, <1>2, GoodSelf, EchoClientGood, CloseStreamGood
  <2>2. QED
    BY <1>1, <2>1 DEF Good
<1>4. QED
  BY <1>0, <1>1, <1>2, <1>3, GiveBackKeeps

\* FetchCommand takes a channel that is in the map.
LEMMA FetchKeeps == ASSUME ChannelInv, RestOK', NEW c \in Channels, FetchCommand(c) PROVE ChannelInv'
<1>1. hold'.kind = "fetch" /\ hold'.c = c /\ (hold'.early => ~ch[c].isDead)
  <2>1. PICK cmd : hold' = [kind |-> "fetch", c |-> c, early |-> ~ch[c].isDead, cmd |-> cmd]
    BY DEF FetchCommand
  <2>2. QED
    BY <2>1
<1>2. QED
  BY <1>1, TakeKeeps DEF FetchCommand, Working, InMap

\* Every step keeps the inductive invariant of ChannelSafe.
LEMMA ChannelStepInv == ASSUME ChannelInv, [ChanNext]_chanVars PROVE ChannelInv'
<1>0. RestOK'
  BY RestStep
<1>1. CASE UNCHANGED chanVars
  BY <1>0, <1>1, QuietChannels DEF chanVars
<1>2. ASSUME NEW c \in Channels, ClientSteps(c) PROVE ChannelInv'
  BY <1>0, <1>2, QuietChannels DEF ClientSteps, ClientHandshake, ClientCommand, ClientHangup
<1>3. ASSUME NEW c \in Channels, MainSteps(c) PROVE ChannelInv'
  <2>1. CASE BindNextLoop(c)
    BY <1>0, <2>1, QuietChannels DEF BindNextLoop
  <2>2. QED
    BY <1>0, <1>3, <2>1, WorkClosedKeeps, AsyncKeeps, OpeateKeeps, CheckContinueKeeps, FinallyKeeps
       DEF MainSteps
<1>4. ASSUME NEW c \in Channels, StreamSteps(c) PROVE ChannelInv'
  BY <1>0, <1>4, HandShakeKeeps, DoCommandKeeps, ReadFailsKeeps, WriteCallbackKeeps DEF StreamSteps
<1>5. ASSUME NEW c \in Channels, WorkerSteps(c) PROVE ChannelInv'
  BY <1>0, <1>5, ChildClosedKeeps, ClearNextKeeps, FetchKeeps DEF WorkerSteps
<1>6. CASE SessionDies
  BY <1>0, <1>6, QuietChannels DEF SessionDies
<1>7. QED
  BY <1>0, <1>1, <1>2, <1>3, <1>4, <1>5, <1>6, AcceptKeeps, ConnectResultKeeps, ReadCtrlKeeps, AttachKeeps,
     DispatchKeeps, OtherRemovesKeeps, WorkerStopsKeeps DEF ChanNext

\* No channel has a reference in the first state.
LEMMA ChannelInitInv == ChanInit => ChannelInv
<1> SUFFICES ASSUME ChanInit PROVE ChannelInv
  OBVIOUS
<1>1. RecOK(NewChannel) /\ RefsCounted(NewChannel, 0)
  BY ChannelBounds DEF RecOK, ChannelShape, ChannelFields, StreamStates, FreeStages, RefsCounted, NewChannel
<1>2. ChanTypeOK
  BY <1>1 DEF ChanInit, ChanTypeOK, RecOK
<1>3. HoldOK /\ \A c \in Channels : Held(c) = 0
  BY DEF ChanInit, HoldOK, Held
<1>4. ctrl \in Seq({"attach", "detach"} \X Channels)
  BY DEF ChanInit
<1>5. QED
  BY <1>1, <1>2, <1>3, <1>4 DEF ChannelInv, ChanInit, RecOK

\* ChannelSafe for any number of channels, writes and packets: references are
\* counted exactly, and a channel that the worker took alive stays in the map.
THEOREM ChannelsSafe == ChanSpec => []ChannelSafe
<1>1. ChannelInv => ChannelSafe
  BY DEF ChannelInv, ChannelSafe, ChannelRefs, HeldChannelKept, HoldOK, RefsCounted, Held
<1>2. QED
  BY <1>1, ChannelInitInv, ChannelStepInv, PTL DEF ChanSpec

-----------------------------------------------------------------------------
(* The way of a channel into the worker and out of it                      *)

\* What ChannelLife says of one channel, without the packets of its client.
Life(c) == AttachingAlive(c) /\ OnMainOnly(c) /\ OnWorker(c) /\ DetachedOnce(c) /\ FreedLast(c)

\* An operation that may close a stream, end or begin writes of an open one,
\* and mark the channel dead, and nothing else that the worker depends on.
Soft(m, r) ==
  /\ RecOK(m) /\ RecOK(r) /\ m.st = r.st
  /\ m.onClose = r.onClose
  /\ m.childCleared <=> r.childCleared
  /\ m.bound <=> r.bound
  /\ r.handshakeOK => m.handshakeOK
  /\ r.isDead => m.isDead
  /\ m.free = r.free \/ (r.free = "no" /\ m.free = "operate")
  /\ m.connecting => r.connecting \/ (m.handshakeOK /\ r.work = "open")
  /\ m.work = r.work \/ (r.work = "open" /\ m.work = "closing")
  /\ m.child = r.child \/ (r.child = "open" /\ m.child = "closing")
  /\ r.work # "open" /\ r.wWork = 0 => m.wWork = 0
  /\ r.child # "open" /\ r.wChild = 0 => m.wChild = 0

\* Doing nothing is soft.
LEMMA SoftSelf == ASSUME NEW r, RecOK(r) PROVE Soft(r, r)
  BY DEF Soft

\* Two soft operations in a row are soft.
LEMMA SoftTrans == ASSUME NEW a, NEW b, NEW c, Soft(b, a), Soft(c, b) PROVE Soft(c, a)
  BY DEF Soft

\* FreeChannel is soft.
LEMMA MarkDeadSoft == ASSUME NEW r, RecOK(r) PROVE Soft(MarkDead(r), r)
<1>0. RecOK(MarkDead(r))
  BY MarkDeadGood DEF Good
<1>1. CASE r.isDead \/ r.st # "mapped"
  BY <1>1, SoftSelf DEF MarkDead
<1>2. CASE ~(r.isDead \/ r.st # "mapped")
  <2>1. MarkDead(r) = [r EXCEPT !.isDead = TRUE, !.free = "operate"]
    BY <1>2 DEF MarkDead
  <2>2. r.free = "no"
    BY <1>2 DEF RecOK, FreeStages
  <2>3. QED
    BY <1>0, <2>1, <2>2 DEF Soft, RecOK, ChannelShape, ChannelFields
<1>3. QED
  BY <1>1, <1>2

\* SendChannel is soft, and kills nobody.
LEMMA SendSoft ==
    ASSUME NEW r, RecOK(r), NEW thread \in {"main", "worker"}
    PROVE  Soft(SendChannel(r, thread), r) /\ (SendChannel(r, thread).isDead => r.isDead)
<1> DEFINE m == SendChannel(r, thread)
<1>0. RecOK(m)
  BY SendChannelGood DEF Good
<1>1. CASE m = r
  BY <1>1, SoftSelf
<1>2. CASE m = [r EXCEPT !.ref = @ + 1, !.wWork = @ + 1] /\ r.work = "open"
  BY <1>0, <1>2 DEF Soft, RecOK, ChannelShape, ChannelFields
<1>3. CASE m = [r EXCEPT !.ref = @ + 1, !.wChild = @ + 1] /\ r.child = "open"
  BY <1>0, <1>3 DEF Soft, RecOK, ChannelShape, ChannelFields
<1>4. QED
  BY <1>1, <1>2, <1>3 DEF SendChannel

\* EchoClient is soft, and kills nobody.
LEMMA EchoSoft ==
    ASSUME NEW r, RecOK(r), NEW thread \in {"main", "worker"}
    PROVE  Soft(EchoClient(r, thread), r) /\ (EchoClient(r, thread).isDead => r.isDead)
  BY SendSoft DEF EchoClient

\* TryCloseHandle is soft, and the main thread has no open stream after it.
LEMMA CloseSoft ==
    ASSUME NEW r, RecOK(r), NEW thread \in {"main", "worker"}
    PROVE  /\ Soft(CloseStream(r, thread), r) /\ (CloseStream(r, thread).isDead => r.isDead)
           /\ thread = "main" => CloseStream(r, thread).work # "open"
<1> DEFINE m == CloseStream(r, thread)
<1>0. RecOK(m)
  BY CloseStreamGood DEF Good
<1>1. CASE m = r /\ (thread = "main" => r.work # "open")
  BY <1>1, SoftSelf
<1>2. CASE m = [r EXCEPT !.work = "closing"] /\ r.work = "open"
  BY <1>0, <1>2 DEF Soft, RecOK, ChannelShape, ChannelFields
<1>3. CASE m = [r EXCEPT !.child = "closing"] /\ r.child = "open" /\ thread = "worker"
  BY <1>0, <1>3 DEF Soft, RecOK, ChannelShape, ChannelFields
<1>4. QED
  BY <1>1, <1>2, <1>3 DEF CloseStream

\* The places a channel can be in are left as they are.
SamePlaces(c) ==
  /\ c \in bindNext' <=> c \in bindNext
  /\ InCtrl("attach", c)' <=> InCtrl("attach", c)
  /\ InCtrl("detach", c)' <=> InCtrl("detach", c)
  /\ AttachHeld(c)' <=> AttachHeld(c)
  /\ c \in clearNext' => c \in clearNext

\* The sets a channel of the worker may enter.
Gains(c) ==
  /\ c \in task' => c \in task \/ ch[c].child = "open"
                    \/ (ch[c].child # "null" /\ ch[c].free \in {"no", "operate"})
  /\ c \in permit' => c \in permit \/ ch[c].child = "open"
  /\ c \in forward' => c \in forward \/ ch[c].child # "null"
  /\ c \in asyncQ' => c \in asyncQ \/ ch[c].child # "null"
  /\ asked'[c] = asked[c] \/ ch[c].child # "null"

\* A soft operation keeps a channel where it is, unless it kills one on its way to
\* the worker.
LEMMA SoftLife ==
    ASSUME NEW c, Life(c), Soft(ch'[c], ch[c]), SamePlaces(c), Gains(c),
           ch'[c].isDead => ch[c].isDead \/ ~Attaching(c)
    PROVE  Life(c)'
<1>0. Attaching(c)' <=> Attaching(c)
  BY DEF Attaching, SamePlaces
<1>1. AttachingAlive(c)'
  BY <1>0 DEF Life, AttachingAlive, Soft, SamePlaces
<1>2. OnMainOnly(c)'
  BY DEF Life, OnMainOnly, Soft, SamePlaces, Gains
<1>3. OnWorker(c)'
  BY DEF Life, OnWorker, OnMainOnly, Soft, SamePlaces, Gains, RecOK, FreeStages
<1>4. DetachedOnce(c)'
  BY DEF Life, DetachedOnce, OnMainOnly, Soft, SamePlaces, Gains
<1>5. FreedLast(c)'
  BY DEF Life, FreedLast, OnMainOnly, OnWorker, Soft, Gains, RecOK, ChannelShape
<1>6. QED
  BY <1>1, <1>2, <1>3, <1>4, <1>5 DEF Life

\* A channel whose handshake is unread stays alive where its packets stay.
LEMMA UnreadKept ==
    ASSUME NEW c, UnreadAlive(c), ch'[c].st = ch[c].st, peer'[c] = peer[c],
           ch'[c].work = "open" => ch[c].work = "open", ch[c].handshakeOK => ch'[c].handshakeOK,
           ch'[c].isDead => ch[c].isDead \/ ch'[c].work # "open" \/ ch'[c].handshakeOK
    PROVE  UnreadAlive(c)'
  BY DEF UnreadAlive

\* The packet of a client is read.
LEMMA PacketRead ==
    ASSUME NEW c \in Channels, ChannelLife, sess = "up", peer[c].q # <<>>, ch[c].st # "none",
           peer' = [peer EXCEPT ![c].q = <<>>], ch'[c].st = ch[c].st
    PROVE  UnreadAlive(c)' /\ \A d \in Channels : d # c => peer'[d] = peer[d]
<1>1. /\ peer'[c].q = <<>> /\ peer'[c].sent = peer[c].sent
      /\ \A d \in Channels : d # c => peer'[d] = peer[d]
  BY DEF ChannelLife, PeersShaped
<1>2. peer[c].sent # 0
  BY DEF ChannelLife, UnreadAlive
<1>3. QED
  BY <1>1, <1>2 DEF UnreadAlive

\* What ChannelLife says while the session lives.
LEMMA LifeOf ==
    ASSUME ChannelLife, sess = "up"
    PROVE  OneRequest /\ PeersShaped /\ \A c \in Channels : Life(c) /\ UnreadAlive(c)
  BY DEF ChannelLife, Life

\* A step that moves no channel from one place to another.
LEMMA SoftStep ==
    ASSUME ChannelLife, sess = "up", PeersShaped', UNCHANGED <<bindNext, ctrl>>,
           \A c \in Channels : c \in clearNext' => c \in clearNext,
           \A c \in Channels : AttachHeld(c)' <=> AttachHeld(c),
           hold'.kind = "fetch" => asked'[hold'.c] # "none",
           \A c \in Channels : /\ Soft(ch'[c], ch[c]) /\ Gains(c)
                               /\ ch'[c].isDead => ch[c].isDead \/ ~Attaching(c),
           \A c \in Channels : UnreadAlive(c)'
    PROVE  ChannelLife'
<1>1. OneRequest'
  BY LifeOf DEF OneRequest, InCtrl
<1>2. ASSUME NEW c \in Channels PROVE Life(c)'
  <2>1. SamePlaces(c)
    BY DEF SamePlaces, InCtrl
  <2>2. QED
    BY <2>1, LifeOf, SoftLife
<1>3. QED
  BY <1>1, <1>2 DEF ChannelLife, Life

\* Who is not on the way to the worker: a channel that the main thread still
\* reads, one that the worker has, one that waits for a connection.
LEMMA NotAttaching ==
    ASSUME NEW c, Life(c), ch[c].work = "open" \/ ch[c].child # "null" \/ ch[c].connecting
           \/ c \in asyncQ \/ c \in forward \/ ~ch[c].handshakeOK \/ asked[c] # "none"
    PROVE  ~Attaching(c)
  BY DEF Life, AttachingAlive, OnMainOnly, Attaching

\* Who has the handshake behind it.
LEMMA Greeted ==
    ASSUME NEW c, Life(c), ch[c].child # "null" \/ ch[c].connecting \/ c \in asyncQ \/ c \in forward
    PROVE  ch[c].handshakeOK
  BY DEF Life, OnMainOnly

\* The client sends or hangs up.
LEMMA ClientLife ==
    ASSUME ChannelInv, ChannelLife, sess = "up", NEW c \in Channels, ClientSteps(c) PROVE ChannelLife'
<1>1. /\ UNCHANGED <<ch, sess, ctrl, asyncQ, bindNext, clearNext, hold, permit, forward, task, asked>>
  BY DEF ClientSteps, ClientHandshake, ClientCommand, ClientHangup
<1>2. /\ DOMAIN peer' = Channels /\ \A d \in Channels : DOMAIN peer'[d] = {"on", "sent", "q", "recv"}
      /\ \A d \in Channels : d # c => peer'[d] = peer[d]
  BY LifeOf DEF ClientSteps, ClientHandshake, ClientCommand, ClientHangup, PeersShaped
<1>3. PeersShaped'
  BY <1>1, <1>2, LifeOf DEF PeersShaped
<1>4. UnreadAlive(c)'
  <2>0. UnreadAlive(c) /\ DOMAIN peer = Channels /\ DOMAIN peer[c] = {"on", "sent", "q", "recv"}
    BY LifeOf DEF PeersShaped
  <2>1. CASE ClientHandshake(c)
    <3>1. PICK m : peer' = [peer EXCEPT ![c].sent = 1, ![c].q = <<m>>] /\ peer[c].on /\ peer[c].sent = 0
      BY <2>1 DEF ClientHandshake
    <3>2. peer'[c].sent # 0
      <4>1. peer'[c].sent = 1
        BY <2>0, <3>1
      <4>2. QED
        BY <4>1
    <3>3. ch[c].st # "none" /\ (ch[c].work = "open" /\ ~ch[c].handshakeOK => ~ch[c].isDead)
      BY <2>0, <3>1 DEF UnreadAlive
    <3>4. ch'[c].st # "none" /\ (ch'[c].work = "open" /\ ~ch'[c].handshakeOK => ~ch'[c].isDead)
      BY <1>1, <3>3
    <3>5. QED
      BY <3>2, <3>4 DEF UnreadAlive
  <2>2. CASE ClientCommand(c)
    <3>1. PICK m \in Commands : peer' = [peer EXCEPT ![c].sent = @ + 1, ![c].q = <<m>>]
      BY <2>2 DEF ClientCommand
    <3>2. peer'[c].sent = peer[c].sent + 1 /\ peer'[c].q = <<m>> /\ peer[c].sent \in 1 .. MaxReads /\ peer[c].on
      BY <2>0, <2>2, <3>1 DEF ClientCommand
    <3>3. peer'[c].sent # 0 /\ Head(peer'[c].q) # "hs key"
      <4>1. m # "hs key"
        BY DEF Commands, LocalCommands, AnywhereCommands, TaskCommands
      <4>2. Head(<<m>>) = m
        OBVIOUS
      <4>3. peer'[c].sent # 0
        BY <3>2, ChannelBounds
      <4>4. QED
        BY <3>2, <4>1, <4>2, <4>3
    <3>4. ch[c].st # "none"
      BY <2>0, <3>2 DEF UnreadAlive
    <3>5. QED
      BY <1>1, <3>3, <3>4 DEF UnreadAlive
  <2>3. CASE ClientHangup(c)
    <3>1. peer'[c].q = peer[c].q /\ ~peer'[c].on /\ peer'[c].sent = peer[c].sent
      BY <2>0, <2>3 DEF ClientHangup
    <3>2. QED
      BY <1>1, <2>0, <3>1 DEF UnreadAlive
  <2>4. QED
    BY <2>1, <2>2, <2>3 DEF ClientSteps
<1>5. \A d \in Channels : UnreadAlive(d)'
  <2>1. ASSUME NEW d \in Channels, d # c PROVE UnreadAlive(d)'
    BY <1>1, <1>2, <2>1, LifeOf, UnreadKept
  <2>2. QED
    BY <1>4, <2>1
<1>6. ASSUME NEW d \in Channels
      PROVE  Soft(ch'[d], ch[d]) /\ Gains(d) /\ (AttachHeld(d)' <=> AttachHeld(d))
  BY <1>1, SoftSelf, RecordsOK DEF Gains, AttachHeld
<1>7. hold'.kind = "fetch" => asked'[hold'.c] # "none"
  BY <1>1 DEF ChannelLife
<1>8. QED
  BY <1>1, <1>3, <1>5, <1>6, <1>7, SoftStep

\* A soft step of one channel, by the main thread or the worker.
LEMMA SoftOne ==
    ASSUME ChannelInv, ChannelLife, sess = "up", NEW c \in Channels, NEW r, ch' = [ch EXCEPT ![c] = r],
           Soft(r, ch[c]), r.isDead => ch[c].isDead \/ (~Attaching(c) /\ (r.work # "open" \/ r.handshakeOK)),
           UNCHANGED <<peer, hold, ctrl, bindNext, clearNext, permit, forward, task, asked>>,
           \A d \in Channels : d \in asyncQ' => d \in asyncQ \/ ch[d].child # "null"
    PROVE  ChannelLife'
<1>1. ch'[c] = r /\ \A d \in Channels : d # c => ch'[d] = ch[d]
  BY DEF ChannelInv, ChanTypeOK
<1>2. ASSUME NEW d \in Channels
      PROVE  /\ Soft(ch'[d], ch[d]) /\ Gains(d) /\ (AttachHeld(d)' <=> AttachHeld(d))
             /\ ch'[d].isDead => ch[d].isDead \/ ~Attaching(d)
             /\ UnreadAlive(d)'
  <2>1. Soft(ch'[d], ch[d]) /\ Gains(d) /\ (AttachHeld(d)' <=> AttachHeld(d))
    BY <1>1, SoftSelf, RecordsOK DEF Gains, AttachHeld
  <2>2. ch'[d].isDead => ch[d].isDead \/ ~Attaching(d)
    BY <1>1
  <2>3. UnreadAlive(d)'
    <3>1. ch'[d].isDead => ch[d].isDead \/ ch'[d].work # "open" \/ ch'[d].handshakeOK
      BY <1>1
    <3>2. QED
      BY <2>1, <3>1, LifeOf, UnreadKept DEF Soft
  <2>4. QED
    BY <2>1, <2>2, <2>3
<1>3. PeersShaped' /\ (hold'.kind = "fetch" => asked'[hold'.c] # "none")
  BY DEF ChannelLife, PeersShaped
<1>4. QED
  BY <1>2, <1>3, SoftStep

\* A read that fails frees no channel on its way to the worker.
LEMMA ReadFailsLife ==
    ASSUME ChannelInv, ChannelLife, sess = "up", NEW c \in Channels, ReadStreamFails(c) PROVE ChannelLife'
<1> DEFINE t == Reader(c)
           r == CloseStream(ch[c], t)
<1>0. t \in {"main", "worker"} /\ RecOK(ch[c]) /\ Life(c)
  BY ReaderThread, RecordsOK, LifeOf
<1>1. Soft(r, ch[c]) /\ (r.isDead => ch[c].isDead) /\ (t = "main" => r.work # "open")
  BY <1>0, CloseSoft
<1>2. Soft(MarkDead(r), ch[c])
  BY <1>1, MarkDeadSoft, SoftTrans DEF Soft
<1>3. UNCHANGED <<peer, hold, ctrl, bindNext, clearNext, permit, forward, task, asked>>
  BY DEF ReadStreamFails
<1>4. CASE t = "main"
  <2>1. ch' = [ch EXCEPT ![c] = MarkDead(r)] /\ asyncQ' = asyncQ
    BY <1>4 DEF ReadStreamFails, FreeChannel
  <2>2. MarkDead(r).work # "open"
    BY <1>1, <1>4, MarkDeadSoft DEF Soft
  <2>3. ch[c].work = "open"
    BY <1>4 DEF ReadStreamFails, Readable, Reader
  <2>4. ~Attaching(c)
    BY <1>0, <2>3, NotAttaching
  <2> HIDE DEF r
  <2>5. QED
    BY <1>2, <1>3, <2>1, <2>2, <2>4, SoftOne
<1>5. CASE t = "worker"
  <2>1. ch' = [ch EXCEPT ![c] = r] /\ asyncQ' = asyncQ \cup {c}
    BY <1>5 DEF ReadStreamFails, FreeChannel
  <2>2. ch[c].child # "null"
    BY <1>5 DEF Reader
  <2> HIDE DEF r
  <2>3. QED
    BY <1>1, <1>3, <2>1, <2>2, SoftOne
<1>6. QED
  BY <1>0, <1>4, <1>5

\* Nor does a write that fails.
LEMMA WriteCallbackLife ==
    ASSUME ChannelInv, ChannelLife, sess = "up", NEW c \in Channels, NEW thread \in {"main", "worker"},
           NEW ok \in BOOLEAN, WriteCallback(c, thread, ok)
    PROVE  ChannelLife'
<1> DEFINE r == WriteDone(ch[c], thread)
           f == CloseStream(r, thread)
<1>0. /\ RecOK(ch[c]) /\ Life(c) /\ RefsCounted(ch[c], Held(c)) /\ Held(c) \in {0, 1}
      /\ UNCHANGED <<peer, hold, ctrl, bindNext, clearNext, permit, forward, task, asked>>
  BY RecordsOK, LifeOf DEF WriteCallback, ChannelInv, Held
<1>1. Soft(r, ch[c]) /\ (r.isDead => ch[c].isDead)
  <2>1. CASE thread = "main"
    <3>1. r = [ch[c] EXCEPT !.wWork = @ - 1, !.ref = @ - 1] /\ ch[c].wWork > 0
      BY <2>1 DEF WriteCallback, WriteDone
    <3>2. ch[c].ref - 1 \in Nat
      BY <1>0, <3>1 DEF RecOK, ChannelShape, RefsCounted
    <3> HIDE DEF r
    <3>3. RecOK(r)
      BY <1>0, <3>1, <3>2, ChannelBounds DEF RecOK, ChannelShape, ChannelFields, FreeStages
    <3>4. QED
      BY <1>0, <3>1, <3>3 DEF Soft, RecOK, ChannelShape, ChannelFields
  <2>2. CASE thread = "worker"
    <3>1. r = [ch[c] EXCEPT !.wChild = @ - 1, !.ref = @ - 1] /\ ch[c].wChild > 0
      BY <2>2 DEF WriteCallback, WriteDone
    <3>2. ch[c].ref - 1 \in Nat
      BY <1>0, <3>1 DEF RecOK, ChannelShape, RefsCounted
    <3> HIDE DEF r
    <3>3. RecOK(r)
      BY <1>0, <3>1, <3>2, ChannelBounds DEF RecOK, ChannelShape, ChannelFields, FreeStages
    <3>4. QED
      BY <1>0, <3>1, <3>3 DEF Soft, RecOK, ChannelShape, ChannelFields
  <2>3. QED
    BY <2>1, <2>2
<1> HIDE DEF r
<1>2. Soft(f, ch[c]) /\ (f.isDead => ch[c].isDead) /\ (thread = "main" => f.work # "open")
  BY <1>1, CloseSoft, SoftTrans DEF Soft
<1>3. Soft(MarkDead(f), ch[c]) /\ (thread = "main" => MarkDead(f).work # "open")
  BY <1>2, MarkDeadSoft, SoftTrans DEF Soft
<1>4. \/ ch' \in {[ch EXCEPT ![c] = r], [ch EXCEPT ![c] = f]} /\ asyncQ' = asyncQ
      \/ thread = "main" /\ ch' = [ch EXCEPT ![c] = MarkDead(f)] /\ asyncQ' = asyncQ /\ ch[c].work = "open"
      \/ thread = "worker" /\ ch' = [ch EXCEPT ![c] = f] /\ asyncQ' = asyncQ \cup {c} /\ ch[c].child = "open"
  BY DEF WriteCallback, FreeChannel, r
<1> HIDE DEF f
<1>5. CASE ch' \in {[ch EXCEPT ![c] = r], [ch EXCEPT ![c] = f]} /\ asyncQ' = asyncQ
  BY <1>0, <1>1, <1>2, <1>5, SoftOne
<1>6. CASE thread = "main" /\ ch' = [ch EXCEPT ![c] = MarkDead(f)] /\ asyncQ' = asyncQ /\ ch[c].work = "open"
  <2>1. ~Attaching(c)
    BY <1>0, <1>6, NotAttaching
  <2>2. QED
    BY <1>0, <1>3, <1>6, <2>1, SoftOne
<1>7. CASE thread = "worker" /\ ch' = [ch EXCEPT ![c] = f] /\ asyncQ' = asyncQ \cup {c} /\ ch[c].child = "open"
  BY <1>0, <1>2, <1>7, SoftOne
<1>8. QED
  BY <1>4, <1>5, <1>6, <1>7

\* Nor does the result of a connection.
LEMMA ConnectResultLife ==
    ASSUME ChannelInv, ChannelLife, sess = "up", NEW c \in Channels, OrderConnecTargetResult(c)
    PROVE  ChannelLife'
<1> DEFINE r == [ch[c] EXCEPT !.connecting = FALSE]
<1>0. RecOK(ch[c]) /\ Life(c) /\ ch[c].connecting /\ asyncQ' = asyncQ
      /\ UNCHANGED <<peer, hold, ctrl, bindNext, clearNext, permit, forward, task, asked>>
  BY RecordsOK, LifeOf DEF OrderConnecTargetResult
<1>1. Soft(r, ch[c])
  BY <1>0 DEF Soft, RecOK, ChannelShape, ChannelFields, FreeStages
<1>2. ch' = [ch EXCEPT ![c] = MarkDead(EchoClient(r, "main"))]
  BY DEF OrderConnecTargetResult
<1> HIDE DEF r
<1>3. Soft(EchoClient(r, "main"), ch[c])
  BY <1>1, EchoSoft, SoftTrans DEF Soft
<1> DEFINE q == EchoClient(r, "main")
<1> HIDE DEF q
<1>4. Soft(MarkDead(q), ch[c])
  BY <1>3, MarkDeadSoft, SoftTrans DEF Soft, q
<1>5. ~Attaching(c) /\ ch[c].handshakeOK
  BY <1>0, NotAttaching, Greeted
<1>6. QED
  BY <1>0, <1>2, <1>4, <1>5, SoftOne DEF q, Soft

\* Nor does the main thread for the worker.
LEMMA AsyncLife ==
    ASSUME ChannelInv, ChannelLife, sess = "up", NEW c \in Channels, AsyncMainLoopTask(c) PROVE ChannelLife'
<1>0. /\ Life(c) /\ Soft(MarkDead(ch[c]), ch[c]) /\ c \in asyncQ
      /\ UNCHANGED <<peer, hold, ctrl, bindNext, clearNext, permit, forward, task, asked>>
      /\ asyncQ' = asyncQ \ {c} /\ ch' = [ch EXCEPT ![c] = MarkDead(ch[c])]
  BY LifeOf, RecordsOK, MarkDeadSoft DEF AsyncMainLoopTask
<1>1. ~Attaching(c) /\ ch[c].handshakeOK
  BY <1>0, NotAttaching, Greeted
<1>2. QED
  BY <1>0, <1>1, SoftOne DEF Soft

\* FetchCommand moves no channel.
LEMMA FetchLife ==
    ASSUME ChannelInv, ChannelLife, sess = "up", NEW c \in Channels, FetchCommand(c) PROVE ChannelLife'
<1> DEFINE r == [ch[c] EXCEPT !.ref = @ + 1]
<1>0. /\ RecOK(ch[c]) /\ hold = Nobody /\ asked[c] # "none" /\ DOMAIN ch = Channels
      /\ ch' = [ch EXCEPT ![c] = r]
      /\ UNCHANGED <<sess, ctrl, asyncQ, bindNext, clearNext, permit, forward, task, asked>>
      /\ peer' = [peer EXCEPT ![c].recv = @ + 1]
  BY RecordsOK DEF FetchCommand, Working, ChannelInv, ChanTypeOK
<1>1. Soft(r, ch[c])
  BY <1>0 DEF Soft, RecOK, ChannelShape, ChannelFields, FreeStages
<1>2. hold'.kind = "fetch" /\ hold'.c = c
  <2>1. PICK cmd : hold' = [kind |-> "fetch", c |-> c, early |-> ~ch[c].isDead, cmd |-> cmd]
    BY DEF FetchCommand
  <2>2. QED
    BY <2>1
<1>3. \A d \in Channels : ~AttachHeld(d) /\ ~AttachHeld(d)'
  BY <1>0, <1>2 DEF AttachHeld, Nobody
<1>31. (r.isDead <=> ch[c].isDead) /\ (r.handshakeOK <=> ch[c].handshakeOK)
  BY <1>0 DEF RecOK, ChannelShape, ChannelFields
<1> HIDE DEF r
<1>4. ch'[c] = r /\ \A d \in Channels : d # c => ch'[d] = ch[d]
  BY <1>0
<1>5. /\ DOMAIN peer' = Channels /\ \A d \in Channels : DOMAIN peer'[d] = {"on", "sent", "q", "recv"}
      /\ \A d \in Channels : d # c => peer'[d] = peer[d]
      /\ (peer'[c].on <=> peer[c].on) /\ peer'[c].sent = peer[c].sent /\ peer'[c].q = peer[c].q
  BY <1>0, LifeOf DEF PeersShaped
<1>6. PeersShaped'
  BY <1>0, <1>5, LifeOf DEF PeersShaped
<1>7. ASSUME NEW d \in Channels
      PROVE  Soft(ch'[d], ch[d]) /\ Gains(d) /\ (ch'[d].isDead => ch[d].isDead)
  BY <1>0, <1>1, <1>31, <1>4, SoftSelf, RecordsOK DEF Gains
<1>8. UnreadAlive(c)'
  BY <1>1, <1>4, <1>5, <1>31, LifeOf DEF UnreadAlive, Soft
<1>9. ASSUME NEW d \in Channels, d # c PROVE UnreadAlive(d)'
  BY <1>4, <1>5, <1>9, LifeOf, UnreadKept
<1>10. QED
  BY <1>0, <1>2, <1>3, <1>6, <1>7, <1>8, <1>9, SoftStep

\* The record that DoCommand leaves.
LEMMA CommandSoft ==
    ASSUME NEW r, RecOK(r), NEW cmd, NEW thread \in {"main", "worker"}, r.handshakeOK,
           NEW res, \/ res \in DoCommandLocal(r, cmd, thread) /\ (cmd = "connect" => r.work = "open")
                    \/ res \in DoCommandRemote(r, cmd, thread)
    PROVE  Soft(res.r, r) /\ (res.r.isDead => r.isDead)
<1> DEFINE k == [r EXCEPT !.keepAlive = TRUE]
           n == [r EXCEPT !.connecting = TRUE]
<1>1. Soft(k, r) /\ (k.isDead => r.isDead)
  BY DEF Soft, RecOK, ChannelShape, ChannelFields, FreeStages
<1>2. r.work = "open" => Soft(n, r) /\ (n.isDead => r.isDead)
  BY DEF Soft, RecOK, ChannelShape, ChannelFields, FreeStages
<1>3. /\ Soft(r, r)
      /\ Soft(EchoClient(r, thread), r) /\ (EchoClient(r, thread).isDead => r.isDead)
      /\ Soft(SendChannel(r, thread), r) /\ (SendChannel(r, thread).isDead => r.isDead)
  BY SoftSelf, EchoSoft, SendSoft
<1>4. res.r \in {r, EchoClient(r, thread), SendChannel(r, thread), k} \/ (res.r = n /\ r.work = "open")
  <2>1. CASE res \in DoCommandRemote(r, cmd, thread)
    BY <2>1 DEF DoCommandRemote
  <2>2. CASE res \in DoCommandLocal(r, cmd, thread) /\ cmd = "connect" /\ r.work = "open"
    <3>1. DoCommandLocal(r, cmd, thread) = NewConnectTry(r, thread)
      BY <2>2 DEF DoCommandLocal
    <3>2. res \in {[r |-> EchoClient(r, thread), more |-> FALSE], [r |-> n, more |-> TRUE]}
      BY <2>2, <3>1 DEF NewConnectTry
    <3> HIDE DEF n
    <3>21. res.r = EchoClient(r, thread) \/ res.r = n
      BY <3>2
    <3>3. QED
      BY <2>2, <3>21
  <2>3. CASE res \in DoCommandLocal(r, cmd, thread) /\ cmd # "connect"
    BY <2>3 DEF DoCommandLocal
  <2>4. QED
    BY <2>1, <2>2, <2>3
<1> HIDE DEF k, n
<1>5. QED
  BY <1>1, <1>2, <1>3, <1>4

\* A packet of the client is read and the channels change softly.
LEMMA ReadStep ==
    ASSUME ChannelInv, ChannelLife, sess = "up", NEW c \in Channels, peer[c].q # <<>>, ch[c].st # "none",
           peer' = [peer EXCEPT ![c].q = <<>>], DOMAIN asked' = Channels,
           UNCHANGED <<bindNext, ctrl, clearNext, hold>>,
           hold.kind = "fetch" => asked'[hold.c] # "none",
           \A d \in Channels : /\ Soft(ch'[d], ch[d]) /\ Gains(d)
                               /\ ch'[d].isDead => ch[d].isDead \/ ~Attaching(d)
                               /\ d # c /\ ch'[d].isDead => ch[d].isDead \/ ch[d].handshakeOK
    PROVE  ChannelLife'
<1>1. ch'[c].st = ch[c].st
  BY DEF Soft
<1>2. UnreadAlive(c)' /\ \A d \in Channels : d # c => peer'[d] = peer[d]
  BY <1>1, PacketRead
<1>3. ASSUME NEW d \in Channels, d # c PROVE UnreadAlive(d)'
  BY <1>2, <1>3, LifeOf, UnreadKept DEF Soft
<1>4. PeersShaped'
  BY LifeOf DEF PeersShaped
<1>5. \A d \in Channels : AttachHeld(d)' <=> AttachHeld(d)
  BY DEF AttachHeld
<1>6. \A d \in Channels : UnreadAlive(d)'
  BY <1>2, <1>3
<1>7. QED
  BY <1>4, <1>5, <1>6, SoftStep

\* Who runs a command: the main thread for a channel it has itself, the worker
\* for one whose child stream is open.
LEMMA WhoReads ==
    ASSUME NEW c \in Channels, Life(c), Readable(c)
    PROVE  /\ Reader(c) = "main" => ch[c].work = "open" /\ ch[c].child = "null" /\ ch[c].st = "mapped"
           /\ Reader(c) = "worker" => ch[c].child = "open" /\ ch[c].st # "none"
           /\ Reader(c) \in {"main", "worker"} /\ ~Attaching(c)
  BY NotAttaching DEF Life, OnMainOnly, OnWorker, Readable, Reader

\* DoCommand: only a channel of the worker gains a task, a permit or a rule.
LEMMA DoCommandLife ==
    ASSUME ChannelInv, ChannelLife, sess = "up", NEW c \in Channels, DoCommand(c), sess' = "up"
    PROVE  ChannelLife'
<1> DEFINE cmd == Head(peer[c].q)
           thread == Reader(c)
           local == ch[c].child = "null" \/ cmd \in AnywhereCommands
           removes == local /\ cmd = "fport rm"
           Freed(res) == (IF res.more \/ res.r.keepAlive THEN {} ELSE {c})
                         \cup (IF removes THEN Unforwarded ELSE {})
<1>0. /\ RecOK(ch[c]) /\ DOMAIN ch = Channels /\ Life(c) /\ Readable(c) /\ ch[c].handshakeOK
      /\ peer[c].q # <<>> /\ peer' = [peer EXCEPT ![c].q = <<>>]
      /\ UNCHANGED <<ctrl, bindNext, clearNext, hold>>
      /\ DOMAIN asked = Channels
  BY RecordsOK, LifeOf DEF DoCommand, ChannelInv, ChanTypeOK, PeersShaped
<1>1. /\ thread = "main" => ch[c].work = "open" /\ ch[c].child = "null" /\ ch[c].st = "mapped"
      /\ thread = "worker" => ch[c].child = "open" /\ ch[c].st # "none"
      /\ thread \in {"main", "worker"} /\ ~Attaching(c)
  BY <1>0, WhoReads
<1>2. PICK res \in IF local THEN DoCommandLocal(ch[c], cmd, thread) ELSE DoCommandRemote(ch[c], cmd, thread) :
         IF thread = "main"
         THEN /\ ch' = [d \in Channels |-> IF d \in Freed(res) THEN MarkDead([ch EXCEPT ![c] = res.r][d])
                                           ELSE [ch EXCEPT ![c] = res.r][d]]
              /\ asyncQ' = asyncQ
         ELSE ch' = [ch EXCEPT ![c] = res.r] /\ asyncQ' = asyncQ \cup Freed(res)
  BY DEF DoCommand
<1>3. Soft(res.r, ch[c]) /\ (res.r.isDead => ch[c].isDead)
  <2>1. CASE local
    <3>1. cmd = "connect" => ch[c].work = "open"
      BY <1>1, <2>1 DEF AnywhereCommands
    <3> HIDE DEF cmd, thread, local
    <3>2. QED
      BY <1>0, <1>1, <1>2, <2>1, <3>1, CommandSoft
  <2>2. CASE ~local
    <3> HIDE DEF cmd, thread, local
    <3>1. QED
      BY <1>0, <1>1, <1>2, <2>2, CommandSoft
  <2>3. QED
    BY <2>1, <2>2
<1>4. Freed(res) \subseteq {c} \cup forward
  BY DEF Unforwarded
<1>5. ~local => thread = "worker"
  BY <1>1
<1>6. /\ asked'[c] = asked[c] \/ (~local /\ asked'[c] # "none")
      /\ \A d \in Channels : d # c => asked'[d] = asked[d]
      /\ DOMAIN asked' = Channels
  <2> DEFINE a == IF local \/ ~SendToDaemon THEN asked[c]
                  ELSE IF cmd = "remote" THEN "remote"
                  ELSE IF asked[c] = "none" THEN "some" ELSE asked[c]
  <2>1. asked' = [asked EXCEPT ![c] = a]
    BY DEF DoCommand
  <2> HIDE DEF local
  <2>2. a = asked[c] \/ (~local /\ a # "none")
    OBVIOUS
  <2> HIDE DEF a
  <2>3. QED
    BY <1>0, <2>1, <2>2
<1>7. /\ forward' \subseteq forward
      /\ \/ task' \subseteq task /\ permit' = permit
         \/ ~local /\ task' \subseteq task \cup {c} /\ permit' \subseteq permit \cup {c}
  <2>1. CASE removes
    BY <2>1 DEF DoCommand, RemoveForward
  <2>2. CASE ~removes /\ local /\ cmd = "disconnect" /\ sess = "up"
    BY <2>2 DEF DoCommand, SessionIsFreed
  <2>3. CASE ~removes /\ ~local /\ cmd \in TaskCommands
    BY <2>3 DEF DoCommand, TaskCommand, RegisterHostPermit
  <2>4. CASE ~removes /\ ~(local /\ cmd = "disconnect" /\ sess = "up") /\ ~(~local /\ cmd \in TaskCommands)
    BY <2>4 DEF DoCommand
  <2>5. QED
    BY <2>1, <2>2, <2>3, <2>4
<1> DEFINE freed == Freed(res)
           left == [ch EXCEPT ![c] = res.r]
<1>8. \/ /\ thread = "main" /\ asyncQ' = asyncQ
         /\ ch' = [d \in Channels |-> IF d \in freed THEN MarkDead(left[d]) ELSE left[d]]
      \/ thread = "worker" /\ ch' = left /\ asyncQ' = asyncQ \cup freed
  BY <1>1, <1>2
<1>9. freed \subseteq {c} \cup forward
  BY <1>4
<1> HIDE DEF freed, Freed, removes, local, cmd, thread
<1>10. ASSUME NEW d \in Channels PROVE Soft(left[d], ch[d]) /\ (left[d].isDead => ch[d].isDead)
  BY <1>0, <1>3, SoftSelf, RecordsOK
<1> HIDE DEF left
<1>11. ASSUME NEW d \in Channels
       PROVE  /\ Soft(ch'[d], ch[d])
              /\ ch'[d].isDead => ch[d].isDead \/ d \in {c} \cup forward
  <2>1. Soft(MarkDead(left[d]), ch[d])
    BY <1>10, MarkDeadSoft, SoftTrans DEF Soft
  <2>2. ch'[d] = left[d] \/ (ch'[d] = MarkDead(left[d]) /\ d \in freed)
    BY <1>8
  <2>3. QED
    BY <1>9, <1>10, <2>1, <2>2
<1>12. \A d \in forward : d \in Channels => ch[d].child # "null" /\ ~Attaching(d) /\ ch[d].handshakeOK
  <2>1. ASSUME NEW d \in Channels, d \in forward PROVE ch[d].child # "null" /\ ~Attaching(d) /\ ch[d].handshakeOK
    BY <2>1, LifeOf, NotAttaching, Greeted DEF Life, OnMainOnly
  <2>2. QED
    BY <2>1
<1>13. ASSUME NEW d \in Channels PROVE Gains(d)
  <2>1. d \in asyncQ' => d \in asyncQ \/ ch[d].child # "null"
    BY <1>1, <1>8, <1>9, <1>12
  <2>2. QED
    BY <1>1, <1>5, <1>6, <1>7, <2>1 DEF Gains
<1>14. hold.kind = "fetch" => asked'[hold.c] # "none"
  <2>1. hold.kind = "fetch" => asked[hold.c] # "none" /\ hold.c \in Channels
    BY HoldKind DEF ChannelLife, ChannelInv, HoldOK
  <2>2. QED
    BY <1>6, <2>1
<1>15. ch[c].st # "none"
  BY <1>1
<1>16. ASSUME NEW d \in Channels
       PROVE  /\ ch'[d].isDead => ch[d].isDead \/ ~Attaching(d)
              /\ d # c /\ ch'[d].isDead => ch[d].isDead \/ ch[d].handshakeOK
  BY <1>1, <1>11, <1>12
<1>17. QED
  BY <1>0, <1>6, <1>11, <1>13, <1>14, <1>15, <1>16, ReadStep

\* fport rm of another client: only channels of the worker have a rule.
LEMMA OtherRemovesLife ==
    ASSUME ChannelInv, ChannelLife, sess = "up", OtherRemovesForward PROVE ChannelLife'
<1>0. /\ UNCHANGED <<peer, ctrl, asyncQ, bindNext, clearNext, hold, permit, asked>>
      /\ task' \subseteq task /\ forward' \subseteq forward
      /\ ch' = [d \in Channels |-> IF d \in forward THEN MarkDead(ch[d]) ELSE ch[d]]
  BY DEF OtherRemovesForward, RemoveForward, Unforwarded
<1>1. ASSUME NEW d \in Channels
      PROVE  /\ Soft(ch'[d], ch[d]) /\ Gains(d) /\ (AttachHeld(d)' <=> AttachHeld(d))
             /\ ch'[d].isDead => ch[d].isDead \/ (~Attaching(d) /\ ch[d].handshakeOK)
  <2>1. ch'[d] = ch[d] \/ (ch'[d] = MarkDead(ch[d]) /\ d \in forward)
    BY <1>0
  <2>2. Soft(ch'[d], ch[d])
    BY <2>1, SoftSelf, MarkDeadSoft, RecordsOK
  <2>3. d \in forward => ~Attaching(d) /\ ch[d].handshakeOK
    BY LifeOf, NotAttaching, Greeted
  <2>4. QED
    BY <1>0, <2>1, <2>2, <2>3 DEF Gains, AttachHeld
<1>2. ASSUME NEW d \in Channels PROVE UnreadAlive(d)'
  BY <1>0, <1>1, LifeOf, UnreadKept DEF Soft
<1>3. PeersShaped' /\ (hold'.kind = "fetch" => asked'[hold'.c] # "none")
  BY <1>0 DEF ChannelLife, PeersShaped
<1>4. QED
  BY <1>0, <1>1, <1>2, <1>3, SoftStep

\* DispatchChannelCommand: a channel that was alive may gain a task, for it cannot be
\* detached before the reference ends.
LEMMA DispatchLife ==
    ASSUME ChannelInv, ChannelLife, sess = "up", DispatchChannelCommand PROVE ChannelLife'
<1> DEFINE c == hold.c
           r == [ch[c] EXCEPT !.ref = @ - 1]
           runs == hold.early /\ CheckHostCommandPermission(c, hold.cmd)
<1>0. hold # Nobody /\ hold' = Nobody /\ hold.kind = "fetch"
  BY HoldKind DEF DispatchChannelCommand
<1>1. /\ c \in Channels /\ RecOK(ch[c]) /\ RecOK(r) /\ asked[c] # "none"
      /\ hold.early => ch[c].free \in {"no", "operate"}
  BY <1>0, Dropped, RecordsOK DEF ChannelInv, HoldOK, ChannelLife
<1>2. PICK m \in {r, EchoClient(r, "worker"), CloseStream(r, "worker")} : ch' = [ch EXCEPT ![c] = m]
  BY DEF DispatchChannelCommand
<1>3. /\ UNCHANGED <<peer, ctrl, bindNext, clearNext, permit, asked>>
      /\ asyncQ' \subseteq asyncQ \cup {c} /\ forward' \subseteq forward \cup {c}
      /\ task' \subseteq task \/ (hold.early /\ task' \subseteq task \cup {c})
  BY DEF DispatchChannelCommand
<1>4. Soft(r, ch[c]) /\ (r.isDead => ch[c].isDead)
  BY <1>1 DEF Soft, RecOK, ChannelShape, ChannelFields
<1>5. ch[c].child # "null"
  BY <1>1, LifeOf DEF Life, OnMainOnly
<1> HIDE DEF r, c
<1>6. Soft(m, ch[c]) /\ (m.isDead => ch[c].isDead)
  BY <1>1, <1>2, <1>4, EchoSoft, CloseSoft, SoftTrans
<1>7. ch'[c] = m /\ \A d \in Channels : d # c => ch'[d] = ch[d]
  BY <1>1, <1>2 DEF ChannelInv, ChanTypeOK
<1>8. ASSUME NEW d \in Channels
      PROVE  Soft(ch'[d], ch[d]) /\ (ch'[d].isDead => ch[d].isDead) /\ Gains(d)
  <2>1. Soft(ch'[d], ch[d]) /\ (ch'[d].isDead => ch[d].isDead)
    BY <1>6, <1>7, SoftSelf, RecordsOK
  <2>2. QED
    BY <1>1, <1>3, <1>5, <2>1 DEF Gains
<1>9. ASSUME NEW d \in Channels PROVE UnreadAlive(d)' /\ (AttachHeld(d)' <=> AttachHeld(d))
  <2>1. UnreadAlive(d)'
    BY <1>3, <1>8, LifeOf, UnreadKept DEF Soft
  <2>2. ~AttachHeld(d)' /\ ~AttachHeld(d)
    BY <1>0 DEF AttachHeld, Nobody
  <2>3. QED
    BY <2>1, <2>2
<1>10. PeersShaped' /\ hold'.kind # "fetch"
  BY <1>0, <1>3 DEF ChannelLife, PeersShaped, Nobody
<1>11. QED
  BY <1>3, <1>8, <1>9, <1>10, SoftStep

\* One channel moves, the others stay where they are.
LEMMA OneMoves ==
    ASSUME ChannelInv, ChannelLife, sess = "up", NEW c \in Channels, OneRequest', PeersShaped',
           hold'.kind = "fetch" => asked'[hold'.c] # "none",
           \A d \in Channels : d # c => ch'[d] = ch[d] /\ SamePlaces(d) /\ Gains(d) /\ peer'[d] = peer[d],
           Life(c)', UnreadAlive(c)'
    PROVE  ChannelLife'
<1>1. ASSUME NEW d \in Channels, d # c PROVE Life(d)' /\ UnreadAlive(d)'
  <2>1. Soft(ch'[d], ch[d]) /\ ch'[d] = ch[d]
    BY <1>1, SoftSelf, RecordsOK
  <2>2. QED
    BY <1>1, <2>1, LifeOf, SoftLife, UnreadKept
<1>2. QED
  BY <1>1 DEF ChannelLife, Life

\* Only the record of one channel and the sets it is in change.
LEMMA OneStays ==
    ASSUME ChannelInv, ChannelLife, sess = "up", NEW c \in Channels, NEW r, ch' = [ch EXCEPT ![c] = r],
           UNCHANGED <<peer, ctrl, bindNext, hold, forward, task, asked>>,
           clearNext' \subseteq clearNext, permit' \subseteq permit, asyncQ' \subseteq asyncQ \cup {c},
           Life(c)', r.st = "none" => ch[c].st = "none", r.work = "open" => ch[c].work = "open",
           ch[c].handshakeOK => r.handshakeOK,
           r.isDead => ch[c].isDead \/ r.work # "open"
    PROVE  ChannelLife'
<1>1. ch'[c] = r /\ \A d \in Channels : d # c => ch'[d] = ch[d]
  BY DEF ChannelInv, ChanTypeOK
<1>2. OneRequest' /\ PeersShaped' /\ (hold'.kind = "fetch" => asked'[hold'.c] # "none")
  BY DEF ChannelLife, OneRequest, PeersShaped, InCtrl, AttachHeld
<1>3. ASSUME NEW d \in Channels, d # c PROVE SamePlaces(d) /\ Gains(d)
  BY <1>3 DEF SamePlaces, Gains, InCtrl, AttachHeld
<1>4. UnreadAlive(c)'
  BY <1>1, LifeOf DEF UnreadAlive
<1>5. QED
  BY <1>1, <1>2, <1>3, <1>4, OneMoves

\* A channel stays on its way where pipe, callbacks and worker do not move.
LEMMA QuietPlaces ==
    ASSUME UNCHANGED <<ctrl, bindNext, hold>>, NEW c
    PROVE  /\ InCtrl("attach", c)' <=> InCtrl("attach", c)
           /\ InCtrl("detach", c)' <=> InCtrl("detach", c)
           /\ AttachHeld(c)' <=> AttachHeld(c)
           /\ Attaching(c)' <=> Attaching(c)
  BY DEF InCtrl, AttachHeld, Attaching

\* A dead channel is not on its way to the worker.
LEMMA DeadNotAttaching == ASSUME NEW c, Life(c), ch[c].isDead \/ ch[c].st # "mapped" PROVE ~Attaching(c)
  BY DEF Life, AttachingAlive

\* childCleared is set once, after the stream and the tasks are gone.
LEMMA ClearNextLife ==
    ASSUME ChannelInv, ChannelLife, sess = "up", NEW c \in Channels, ClearNextLoop(c) PROVE ChannelLife'
<1> DEFINE m == [ch[c] EXCEPT !.childCleared = TRUE]
<1>0. /\ RecOK(ch[c]) /\ Life(c) /\ c \in clearNext /\ ch[c].child = "closed"
      /\ ch' = [ch EXCEPT ![c] = m] /\ clearNext' = clearNext \ {c}
      /\ UNCHANGED <<peer, ctrl, asyncQ, bindNext, hold, permit, forward, task, asked>>
  BY RecordsOK, LifeOf DEF ClearNextLoop, Detached
<1>1. /\ m.st = ch[c].st /\ m.work = ch[c].work /\ m.child = "closed" /\ m.free = "wait" /\ m.onClose # "cleared"
      /\ m.wWork = ch[c].wWork /\ m.wChild = ch[c].wChild /\ (m.bound <=> ch[c].bound)
      /\ (m.isDead <=> ch[c].isDead) /\ (m.handshakeOK <=> ch[c].handshakeOK)
      /\ (m.connecting <=> ch[c].connecting) /\ m.childCleared
  BY <1>0 DEF Life, DetachedOnce, RecOK, ChannelShape, ChannelFields
<1> HIDE DEF m
<1>2. ch'[c] = m
  BY <1>0 DEF ChannelInv, ChanTypeOK
<1>3. ~Attaching(c) /\ ch[c].handshakeOK
  BY <1>0, NotAttaching, Greeted
<1>4. ~Attaching(c)' /\ (InCtrl("detach", c)' <=> InCtrl("detach", c)) /\ ~InCtrl("attach", c)' /\ ~AttachHeld(c)'
  BY <1>0, <1>3, QuietPlaces DEF Attaching
<1>5. AttachingAlive(c)' /\ OnMainOnly(c)'
  BY <1>0, <1>1, <1>2, <1>3, <1>4 DEF AttachingAlive, OnMainOnly, Life
<1>6. OnWorker(c)' /\ DetachedOnce(c)'
  BY <1>0, <1>1, <1>2, <1>4 DEF Life, OnWorker, DetachedOnce
<1>7. FreedLast(c)'
  BY <1>0, <1>1, <1>2 DEF Life, FreedLast, DetachedOnce
<1>8. Life(c)'
  BY <1>5, <1>6, <1>7 DEF Life
<1>9. QED
  BY <1>0, <1>1, <1>8, OneStays

\* The close callback of DetachChannel sets it too.
LEMMA ChildClosedLife ==
    ASSUME ChannelInv, ChannelLife, sess = "up", NEW c \in Channels, ChildClosed(c) PROVE ChannelLife'
<1> DEFINE m == ChildGone(ch[c])
           b == ch[c].childCleared \/ ch[c].onClose = "cleared"
<1>0. /\ RecOK(ch[c]) /\ Life(c) /\ ch[c].child = "closing" /\ ch' = [ch EXCEPT ![c] = m]
      /\ asyncQ' \subseteq asyncQ \cup {c}
      /\ UNCHANGED <<peer, ctrl, bindNext, clearNext, hold, permit, forward, task, asked>>
  BY RecordsOK, LifeOf DEF ChildClosed
<1>1. ch[c].onClose # "delete" /\ ~ch[c].childCleared
  BY <1>0 DEF Life, OnWorker, RecOK, FreeStages
<1>2. /\ m.st = ch[c].st /\ m.work = ch[c].work /\ m.child = "closed" /\ m.free = ch[c].free
      /\ m.onClose # "cleared" /\ m.wWork = ch[c].wWork /\ m.wChild = 0 /\ (m.bound <=> ch[c].bound)
      /\ (m.isDead <=> ch[c].isDead) /\ (m.handshakeOK <=> ch[c].handshakeOK)
      /\ (m.connecting <=> ch[c].connecting) /\ (m.childCleared <=> ch[c].onClose = "cleared")
  <2> DEFINE o == IF ch[c].onClose \in {"cleared", "delete"} THEN "none" ELSE ch[c].onClose
             k == ch[c].ref - ch[c].wChild
  <2>1. o # "cleared"
    OBVIOUS
  <2>2. m = [ch[c] EXCEPT !.child = "closed", !.ref = k, !.wChild = 0, !.childCleared = b,
                          !.st = ch[c].st, !.onClose = o]
    BY <1>1 DEF ChildGone
  <2> HIDE DEF o, k, m, b
  <2>3. /\ m.st = ch[c].st /\ m.work = ch[c].work /\ m.child = "closed" /\ m.free = ch[c].free
        /\ m.onClose = o /\ m.wWork = ch[c].wWork /\ m.wChild = 0 /\ (m.bound <=> ch[c].bound)
        /\ (m.isDead <=> ch[c].isDead) /\ (m.handshakeOK <=> ch[c].handshakeOK)
        /\ (m.connecting <=> ch[c].connecting) /\ (m.childCleared <=> b)
    BY <1>0, <2>2 DEF RecOK, ChannelShape, ChannelFields
  <2>4. b <=> ch[c].onClose = "cleared"
    BY <1>1 DEF b
  <2>5. QED
    BY <2>1, <2>3, <2>4
<1> HIDE DEF m
<1>3. ch'[c] = m
  BY <1>0 DEF ChannelInv, ChanTypeOK
<1>4. ~Attaching(c) /\ ch[c].handshakeOK
  BY <1>0, NotAttaching, Greeted
<1>5. ~Attaching(c)' /\ (InCtrl("detach", c)' <=> InCtrl("detach", c)) /\ ~InCtrl("attach", c)' /\ ~AttachHeld(c)'
  BY <1>0, <1>4, QuietPlaces DEF Attaching
<1>6. AttachingAlive(c)' /\ OnMainOnly(c)'
  BY <1>0, <1>2, <1>3, <1>4, <1>5 DEF AttachingAlive, OnMainOnly, Life
<1>7. OnWorker(c)'
  BY <1>0, <1>2, <1>3, <1>5 DEF Life, OnWorker, DetachedOnce
<1>8. DetachedOnce(c)' /\ FreedLast(c)'
  BY <1>0, <1>2, <1>3, <1>5 DEF Life, DetachedOnce, FreedLast
<1>9. Life(c)'
  BY <1>6, <1>7, <1>8 DEF Life
<1>10. QED
  BY <1>0, <1>2, <1>9, OneStays

\* A channel leaves the map with its child stream closed and its permit withdrawn.
LEMMA FinallyLife ==
    ASSUME ChannelInv, ChannelLife, sess = "up", NEW c \in Channels, FreeChannelFinally(c) PROVE ChannelLife'
<1> DEFINE m == [ch[c] EXCEPT !.free = "done", !.st = "deleted"]
<1>0. /\ RecOK(ch[c]) /\ Life(c) /\ DOMAIN ch = Channels /\ ch[c].free = "finally" /\ permit' = permit \ {c}
      /\ UNCHANGED <<peer, ctrl, asyncQ, bindNext, clearNext, hold, forward, task, asked>>
  BY RecordsOK, LifeOf DEF FreeChannelFinally, NotifyInstanceChannelFree, ChannelInv, ChanTypeOK
<1>1. ch[c].child \in {"null", "closed"} /\ ch[c].isDead /\ ch[c].st # "none"
  BY <1>0 DEF Life, OnWorker, RecOK, FreeStages
<1>2. ch' = [ch EXCEPT ![c] = m]
  BY <1>0, <1>1 DEF FreeChannelFinally, RecOK, ChannelShape, ChannelFields
<1>3. /\ m.st = "deleted" /\ m.work = ch[c].work /\ m.child = ch[c].child /\ m.free = "done"
      /\ m.onClose = ch[c].onClose /\ m.wWork = ch[c].wWork /\ m.wChild = ch[c].wChild /\ (m.bound <=> ch[c].bound)
      /\ (m.isDead <=> ch[c].isDead) /\ (m.handshakeOK <=> ch[c].handshakeOK)
      /\ (m.connecting <=> ch[c].connecting) /\ (m.childCleared <=> ch[c].childCleared)
  BY <1>0 DEF RecOK, ChannelShape, ChannelFields
<1> HIDE DEF m
<1>4. ch'[c] = m
  BY <1>0, <1>2
<1>5. ~Attaching(c)' /\ (InCtrl("detach", c)' <=> InCtrl("detach", c)) /\ ~InCtrl("attach", c)' /\ ~AttachHeld(c)'
  BY <1>0, <1>1, DeadNotAttaching, QuietPlaces DEF Attaching
<1>6. AttachingAlive(c)' /\ OnMainOnly(c)'
  BY <1>0, <1>3, <1>4, <1>5 DEF AttachingAlive, OnMainOnly, Life
<1>7. OnWorker(c)' /\ DetachedOnce(c)' /\ FreedLast(c)'
  BY <1>0, <1>1, <1>3, <1>4, <1>5 DEF Life, OnWorker, DetachedOnce, FreedLast
<1>8. Life(c)'
  BY <1>6, <1>7 DEF Life
<1>9. QED
  BY <1>0, <1>1, <1>2, <1>3, <1>8, OneStays

\* The freeing goes on when the child is cleared, not before.
LEMMA CheckContinueLife ==
    ASSUME ChannelInv, ChannelLife, sess = "up", NEW c \in Channels, CheckFreeChannelContinue(c)
    PROVE  ChannelLife'
<1> DEFINE m == [ch[c] EXCEPT !.free = "finally", !.uvHandleRef = @ - 1]
<1>0. /\ RecOK(ch[c]) /\ Life(c) /\ DOMAIN ch = Channels /\ ch[c].free = "wait" /\ ch[c].childCleared
      /\ ch' = [ch EXCEPT ![c] = FreeChannelContinue(ch[c])]
      /\ UNCHANGED <<peer, ctrl, asyncQ, bindNext, clearNext, hold, permit, forward, task, asked>>
  BY RecordsOK, LifeOf DEF CheckFreeChannelContinue, ChannelInv, ChanTypeOK
<1>1. ch[c].child = "closed" /\ ch[c].work = "closed" /\ ch[c].st # "none"
  BY <1>0 DEF Life, OnMainOnly, OnWorker, RecOK, FreeStages
<1>2. ch' = [ch EXCEPT ![c] = m]
  BY <1>0, <1>1 DEF FreeChannelContinue
<1>3. /\ m.st = ch[c].st /\ m.work = ch[c].work /\ m.child = ch[c].child /\ m.free = "finally"
      /\ m.onClose = ch[c].onClose /\ m.wWork = ch[c].wWork /\ m.wChild = ch[c].wChild /\ (m.bound <=> ch[c].bound)
      /\ (m.isDead <=> ch[c].isDead) /\ (m.handshakeOK <=> ch[c].handshakeOK)
      /\ (m.connecting <=> ch[c].connecting) /\ (m.childCleared <=> ch[c].childCleared)
  BY <1>0 DEF RecOK, ChannelShape, ChannelFields
<1> HIDE DEF m
<1>4. ch'[c] = m
  BY <1>0, <1>2
<1>5. ~Attaching(c)' /\ (InCtrl("detach", c)' <=> InCtrl("detach", c)) /\ ~InCtrl("attach", c)' /\ ~AttachHeld(c)'
  BY <1>0, <1>1, NotAttaching, QuietPlaces DEF Attaching
<1>6. AttachingAlive(c)' /\ OnMainOnly(c)'
  BY <1>0, <1>1, <1>3, <1>4, <1>5 DEF AttachingAlive, OnMainOnly, Life
<1>7. OnWorker(c)' /\ DetachedOnce(c)' /\ FreedLast(c)'
  BY <1>0, <1>1, <1>3, <1>4, <1>5 DEF Life, OnWorker, DetachedOnce, FreedLast
<1>8. Life(c)'
  BY <1>6, <1>7 DEF Life
<1>9. QED
  BY <1>0, <1>1, <1>2, <1>3, <1>8, OneStays

\* The close callback never frees a channel that is being bound: its reference is
\* still counted.
LEMMA WorkClosedLife ==
    ASSUME ChannelInv, ChannelLife, sess = "up", NEW c \in Channels, WorkClosed(c) PROVE ChannelLife'
<1> DEFINE r == [ch[c] EXCEPT !.wWork = 0, !.ref = @ - ch[c].wWork]
           f == IF ch[c].wWork > 0 /\ r.ref = 0 THEN MarkDead(r) ELSE r
           g == [f EXCEPT !.work = "closed", !.bound = FALSE,
                          !.ref = IF f.bound THEN @ - 1 ELSE @,
                          !.uvHandleRef = IF f.free = "finally" /\ f.onClose = "uvref"
                                          THEN @ - 1 ELSE @,
                          !.onClose = IF @ = "uvref" THEN "none" ELSE @]
<1>0. /\ RecOK(ch[c]) /\ Life(c) /\ RefsCounted(ch[c], Held(c)) /\ Held(c) \in {0, 1} /\ ch[c].work = "closing"
      /\ UNCHANGED <<peer, ctrl, asyncQ, bindNext, clearNext, hold, permit, forward, task, asked>>
      /\ ch' = [ch EXCEPT ![c] = g]
  BY RecordsOK, LifeOf DEF WorkClosed, ChannelInv, Held
<1>1. ch[c].child = "null"
  BY <1>0 DEF Life, OnWorker
<1>2. Soft(r, ch[c]) /\ r.wWork = 0 /\ (r.isDead => ch[c].isDead) /\ r.ref = ch[c].ref - ch[c].wWork
  <2>1. r.ref \in Nat
    BY <1>0 DEF RecOK, ChannelShape, ChannelFields, RefsCounted
  <2>2. RecOK(r)
    BY <1>0, <2>1, ChannelBounds DEF RecOK, ChannelShape, ChannelFields, FreeStages
  <2>3. QED
    BY <1>0, <2>2 DEF Soft, RecOK, ChannelShape, ChannelFields
<1>3. r.ref = 0 => ~ch[c].bound
  <2>1. ch[c].bound => ch[c].ref = ch[c].wWork + ch[c].wChild + 1 + Held(c)
    BY <1>0 DEF RefsCounted
  <2>2. ch[c].wWork \in Nat /\ ch[c].wChild \in Nat /\ Held(c) \in Nat
    BY <1>0 DEF RecOK, ChannelShape
  <2>3. QED
    BY <1>2, <2>1, <2>2
<1> HIDE DEF r
<1>4. Soft(f, ch[c]) /\ f.wWork = 0 /\ (f.isDead => ch[c].isDead \/ ~ch[c].bound)
  <2>1. Soft(MarkDead(r), ch[c]) /\ MarkDead(r).wWork = 0
    BY <1>0, <1>2, MarkDeadSoft, SoftTrans DEF Soft
  <2>2. QED
    BY <1>2, <1>3, <2>1
<1> HIDE DEF f
<1>5. /\ g.st = f.st /\ g.work = "closed" /\ g.child = f.child /\ g.free = f.free
      /\ g.onClose \in {"none", f.onClose} /\ g.wWork = f.wWork /\ g.wChild = f.wChild /\ ~g.bound
      /\ (g.isDead <=> f.isDead) /\ (g.handshakeOK <=> f.handshakeOK)
      /\ (g.connecting <=> f.connecting) /\ (g.childCleared <=> f.childCleared)
  <2> DEFINE k == IF f.bound THEN f.ref - 1 ELSE f.ref
             u == IF f.free = "finally" /\ f.onClose = "uvref" THEN f.uvHandleRef - 1 ELSE f.uvHandleRef
             o == IF f.onClose = "uvref" THEN "none" ELSE f.onClose
  <2>1. g = [f EXCEPT !.work = "closed", !.bound = FALSE, !.ref = k, !.uvHandleRef = u, !.onClose = o]
    OBVIOUS
  <2>2. o \in {"none", f.onClose}
    OBVIOUS
  <2> HIDE DEF k, u, o, g
  <2>3. QED
    BY <1>4, <2>1, <2>2 DEF Soft, RecOK, ChannelShape, ChannelFields
<1> HIDE DEF g
<1>6. ch'[c] = g
  BY <1>0 DEF ChannelInv, ChanTypeOK
<1>7. /\ g.st = ch[c].st /\ g.work = "closed" /\ g.child = "null" /\ (g.free = ch[c].free \/ g.free = "operate")
      /\ g.onClose \in {"none", ch[c].onClose} /\ g.wWork = 0 /\ ~g.bound
      /\ (ch[c].wChild = 0 => g.wChild = 0)
      /\ (ch[c].handshakeOK => g.handshakeOK) /\ (ch[c].isDead => g.isDead)
      /\ (g.connecting => ch[c].connecting) /\ (g.childCleared <=> ch[c].childCleared)
      /\ g.isDead => ch[c].isDead \/ ~ch[c].bound
      /\ ch[c].st \in {"removed", "deleted"} => g.free = ch[c].free
      /\ ch[c].free # "no" => g.free = ch[c].free
  BY <1>0, <1>1, <1>4, <1>5 DEF Soft, RecOK, FreeStages, Life, FreedLast
<1>8. /\ Attaching(c)' <=> Attaching(c) 
      /\ InCtrl("detach", c)' <=> InCtrl("detach", c)
      /\ InCtrl("attach", c)' <=> InCtrl("attach", c)
      /\ AttachHeld(c)' <=> AttachHeld(c)
  BY <1>0, QuietPlaces
<1>9. AttachingAlive(c)'
  BY <1>0, <1>1, <1>6, <1>7, <1>8 DEF AttachingAlive, Life
<1>10. OnMainOnly(c)'
  BY <1>0, <1>1, <1>6, <1>7, <1>8 DEF OnMainOnly, Life
<1>11. OnWorker(c)' /\ DetachedOnce(c)'
  BY <1>0, <1>1, <1>6, <1>7, <1>8 DEF OnMainOnly, Life, OnWorker, DetachedOnce
<1>12. FreedLast(c)'
  BY <1>0, <1>1, <1>6, <1>7 DEF Life, FreedLast
<1>13. Life(c)'
  BY <1>9, <1>10, <1>11, <1>12 DEF Life
<1>14. QED
  BY <1>0, <1>1, <1>7, <1>13, OneStays

\* No request is in the control pipe twice.
CtrlUnique == \A i, j \in 1 .. Len(ctrl) : ctrl[i] = ctrl[j] => i = j

\* A new request in the control pipe.
LEMMA CtrlAppend ==
    ASSUME ctrl \in Seq({"attach", "detach"} \X Channels), CtrlUnique, NEW op \in {"attach", "detach"},
           NEW c \in Channels, ~InCtrl(op, c), ctrl' = Append(ctrl, <<op, c>>)
    PROVE  /\ CtrlUnique' /\ InCtrl(op, c)'
           /\ \A o, d : o # op \/ d # c => (InCtrl(o, d)' <=> InCtrl(o, d))
<1> DEFINE n == Len(ctrl)
<1>1. /\ n \in Nat /\ Len(ctrl') = n + 1 /\ ctrl'[n + 1] = <<op, c>>
      /\ \A i \in 1 .. n : ctrl'[i] = ctrl[i] /\ i # n + 1
  BY DEF InCtrl
<1>2. \A i \in 1 .. n : ctrl[i] # <<op, c>>
  BY DEF InCtrl
<1>3. \A i \in 1 .. n + 1 : i \in 1 .. n \/ i = n + 1
  BY <1>1
<1> HIDE DEF n
<1>4. CtrlUnique'
  BY <1>1, <1>2, <1>3 DEF CtrlUnique, n
<1>5. InCtrl(op, c)'
  <2>1. n + 1 \in 1 .. Len(ctrl')
    BY <1>1
  <2>2. QED
    BY <1>1, <2>1 DEF InCtrl
<1>6. ASSUME NEW o, NEW d, o # op \/ d # c PROVE InCtrl(o, d)' <=> InCtrl(o, d)
  <2>1. <<op, c>> # <<o, d>>
    BY <1>6
  <2>2. 1 .. n \subseteq 1 .. Len(ctrl')
    BY <1>1
  <2>3. QED
    BY <1>1, <1>3, <2>1, <2>2 DEF InCtrl, n
<1>7. QED
  BY <1>4, <1>5, <1>6

\* The first request leaves the control pipe.
LEMMA CtrlTail ==
    ASSUME ctrl \in Seq({"attach", "detach"} \X Channels), CtrlUnique, ctrl # <<>>,
           NEW op, NEW c, Head(ctrl) = <<op, c>>, ctrl' = Tail(ctrl)
    PROVE  /\ CtrlUnique' /\ InCtrl(op, c) /\ ~InCtrl(op, c)'
           /\ \A o, d : o # op \/ d # c => (InCtrl(o, d)' <=> InCtrl(o, d))
<1> DEFINE n == Len(ctrl)
<1>1. n \in Nat /\ n >= 1 /\ ctrl[1] = <<op, c>>
  OBVIOUS
<1>2. Len(ctrl') = n - 1 /\ \A i \in 1 .. n - 1 : ctrl'[i] = ctrl[i + 1]
  BY <1>1
<1>3. \A i \in 1 .. n - 1 : i + 1 \in 1 .. n /\ i + 1 # 1
  BY <1>1
<1>4. \A i \in 1 .. n : i = 1 \/ (i - 1 \in 1 .. n - 1 /\ (i - 1) + 1 = i)
  BY <1>1
<1>41. 1 \in 1 .. n
  BY <1>1
<1>42. \A i, j \in 1 .. n : ctrl[i] = ctrl[j] => i = j
  BY DEF CtrlUnique
<1> HIDE DEF n
<1>5. CtrlUnique'
  <2> SUFFICES ASSUME NEW i \in 1 .. n - 1, NEW j \in 1 .. n - 1, ctrl'[i] = ctrl'[j] PROVE i = j
    BY <1>2 DEF CtrlUnique
  <2>1. i + 1 = j + 1
    BY <1>2, <1>3, <1>42
  <2>2. QED
    BY <2>1
<1>6. InCtrl(op, c)
  BY <1>1, <1>41 DEF InCtrl, n
<1>7. ~InCtrl(op, c)'
  <2>1. ASSUME NEW i \in 1 .. n - 1 PROVE ctrl'[i] # <<op, c>>
    BY <1>1, <1>2, <1>3, <1>41, <1>42
  <2>2. QED
    BY <1>2, <2>1 DEF InCtrl
<1>8. ASSUME NEW o, NEW d, o # op \/ d # c PROVE InCtrl(o, d)' <=> InCtrl(o, d)
  <2>1. ctrl[1] # <<o, d>>
    BY <1>1, <1>8
  <2>2. ASSUME NEW i \in 1 .. n, ctrl[i] = <<o, d>> PROVE InCtrl(o, d)'
    <3>1. i - 1 \in 1 .. n - 1 /\ (i - 1) + 1 = i
      BY <1>4, <2>1, <2>2
    <3>2. ctrl'[i - 1] = <<o, d>>
      BY <1>2, <2>2, <3>1
    <3>3. QED
      BY <1>2, <3>1, <3>2 DEF InCtrl
  <2>3. ASSUME NEW i \in 1 .. n - 1, ctrl'[i] = <<o, d>> PROVE InCtrl(o, d)
    <3>1. i + 1 \in 1 .. n /\ ctrl[i + 1] = <<o, d>>
      BY <1>2, <1>3, <2>3
    <3>2. QED
      BY <3>1 DEF InCtrl, n
  <2>4. QED
    BY <1>2, <2>2, <2>3 DEF InCtrl, n
<1>9. QED
  BY <1>5, <1>6, <1>7, <1>8

\* The control pipe while the session lives.
LEMMA UniqueOf ==
    ASSUME ChannelInv, ChannelLife, sess = "up"
    PROVE  CtrlUnique /\ ctrl \in Seq({"attach", "detach"} \X Channels) /\ DOMAIN ch = Channels
  BY DEF ChannelLife, OneRequest, CtrlUnique, ChannelInv, ChanTypeOK

\* The callback of BindChannelToSession sends the one attach.
LEMMA BindNextLife ==
    ASSUME ChannelInv, ChannelLife, sess = "up", NEW c \in Channels, BindNextLoop(c) PROVE ChannelLife'
<1>0. /\ Life(c) /\ c \in bindNext /\ ch[c].work = "closed" /\ bindNext' = bindNext \ {c}
      /\ ctrl' = Append(ctrl, <<"attach", c>>)
      /\ UNCHANGED <<ch, peer, asyncQ, clearNext, hold, permit, forward, task, asked>>
  BY LifeOf DEF BindNextLoop, FindAliveSession
<1>1. ~InCtrl("attach", c) /\ ~AttachHeld(c)
  BY <1>0 DEF ChannelLife, OneRequest
<1>2. /\ CtrlUnique' /\ InCtrl("attach", c)'
      /\ \A o, d : o # "attach" \/ d # c => (InCtrl(o, d)' <=> InCtrl(o, d))
  BY <1>0, <1>1, UniqueOf, CtrlAppend
<1>3. \A d \in Channels : AttachHeld(d)' <=> AttachHeld(d)
  BY <1>0 DEF AttachHeld
<1>4. OneRequest'
  <2>1. ASSUME NEW d \in Channels
        PROVE  /\ d \in bindNext' => ~InCtrl("attach", d)'
               /\ AttachHeld(d)' => d \notin bindNext' /\ ~InCtrl("attach", d)'
    BY <1>0, <1>1, <1>2, <1>3 DEF ChannelLife, OneRequest
  <2>2. QED
    BY <1>2, <2>1 DEF OneRequest, CtrlUnique
<1>5. Attaching(c) /\ Attaching(c)' /\ (InCtrl("detach", c)' <=> InCtrl("detach", c))
  BY <1>0, <1>2 DEF Attaching
<1>6. Life(c)'
  <2>1. AttachingAlive(c)'
    BY <1>0, <1>5 DEF Life, AttachingAlive
  <2>2. OnMainOnly(c)' /\ OnWorker(c)' /\ DetachedOnce(c)' /\ FreedLast(c)'
    BY <1>0, <1>5 DEF Life, OnMainOnly, OnWorker, DetachedOnce, FreedLast
  <2>3. QED
    BY <2>1, <2>2 DEF Life
<1>7. UnreadAlive(c)'
  BY <1>0, LifeOf, UnreadKept
<1>8. PeersShaped' /\ (hold'.kind = "fetch" => asked'[hold'.c] # "none")
  BY <1>0 DEF ChannelLife, PeersShaped
<1>9. ASSUME NEW d \in Channels, d # c PROVE SamePlaces(d) /\ Gains(d)
  BY <1>0, <1>2, <1>3, <1>9 DEF SamePlaces, Gains
<1>10. QED
  BY <1>0, <1>4, <1>6, <1>7, <1>8, <1>9, OneMoves

\* FreeChannelOpeate sends the one detach.
LEMMA OpeateLife ==
    ASSUME ChannelInv, ChannelLife, sess = "up", NEW c \in Channels, FreeChannelOpeate(c) PROVE ChannelLife'
<1>0. /\ RecOK(ch[c]) /\ Life(c) /\ RefsCounted(ch[c], Held(c)) /\ Held(c) \in {0, 1} /\ DOMAIN ch = Channels
      /\ ch[c].free = "operate" /\ ch[c].ref = 0
      /\ UNCHANGED <<peer, asyncQ, bindNext, clearNext, hold, permit, forward, task, asked>>
  BY RecordsOK, LifeOf DEF FreeChannelOpeate, NoReference, ChannelInv, Held, ChanTypeOK
<1>1. ch[c].isDead /\ ch[c].st # "none" /\ ch[c].wWork = 0
  BY <1>0 DEF RecOK, FreeStages, ChannelShape, RefsCounted
<1>2. ~Attaching(c)
  BY <1>0, <1>1, DeadNotAttaching
<1>3. CASE ch[c].child = "null"
  <2> DEFINE m == FreeChannelContinue(ch[c])
  <2>1. ch' = [ch EXCEPT ![c] = m] /\ UNCHANGED ctrl
    BY <1>3 DEF FreeChannelOpeate
  <2>2. /\ m.st = ch[c].st /\ m.child = ch[c].child /\ m.free = "finally" /\ m.wWork = 0
        /\ m.onClose \in {"uvref", ch[c].onClose} /\ m.wChild = ch[c].wChild /\ (m.bound <=> ch[c].bound)
        /\ (m.isDead <=> ch[c].isDead) /\ (m.handshakeOK <=> ch[c].handshakeOK)
        /\ (m.connecting <=> ch[c].connecting) /\ (m.childCleared <=> ch[c].childCleared)
        /\ m.work # "open" /\ (m.work = "closed" => ch[c].work = "closed")
    <3>1. CASE ch[c].work = "open"
      <4>1. m = [ch[c] EXCEPT !.free = "finally", !.work = "closing", !.onClose = "uvref"]
        BY <3>1 DEF FreeChannelContinue
      <4>2. QED
        BY <1>0, <1>1, <4>1 DEF RecOK, ChannelShape, ChannelFields
    <3>2. CASE ch[c].work # "open"
      <4>1. m = [ch[c] EXCEPT !.free = "finally", !.uvHandleRef = @ - 1]
        BY <3>2 DEF FreeChannelContinue
      <4>2. QED
        BY <1>0, <1>1, <3>2, <4>1 DEF RecOK, ChannelShape, ChannelFields
    <3>3. QED
      BY <3>1, <3>2
  <2> HIDE DEF m
  <2>3. ch'[c] = m
    BY <1>0, <2>1
  <2>4. ~Attaching(c)' /\ (InCtrl("detach", c)' <=> InCtrl("detach", c)) /\ ~InCtrl("attach", c)' /\ ~AttachHeld(c)'
    BY <1>0, <1>2, <2>1, QuietPlaces DEF Attaching
  <2>5. AttachingAlive(c)' /\ OnMainOnly(c)'
    BY <1>0, <1>1, <2>2, <2>3, <2>4 DEF AttachingAlive, OnMainOnly, Life
  <2>6. OnWorker(c)' /\ DetachedOnce(c)' /\ FreedLast(c)'
    BY <1>0, <1>1, <1>3, <2>2, <2>3, <2>4 DEF Life, OnMainOnly, OnWorker, DetachedOnce, FreedLast
  <2>7. Life(c)'
    BY <2>5, <2>6 DEF Life
  <2>8. QED
    BY <1>0, <1>1, <2>1, <2>2, <2>7, OneStays
<1>4. CASE ch[c].child # "null"
  <2> DEFINE m == [ch[c] EXCEPT !.free = "wait", !.childCleared = ch[c].childCleared]
  <2>1. ch' = [ch EXCEPT ![c] = m] /\ ctrl' = Append(ctrl, <<"detach", c>>)
    BY <1>0, <1>4 DEF FreeChannelOpeate, FindAliveSession
  <2>2. /\ m.st = ch[c].st /\ m.child = ch[c].child /\ m.free = "wait" /\ m.wWork = ch[c].wWork
        /\ m.onClose = ch[c].onClose /\ m.wChild = ch[c].wChild /\ (m.bound <=> ch[c].bound)
        /\ (m.isDead <=> ch[c].isDead) /\ (m.handshakeOK <=> ch[c].handshakeOK)
        /\ (m.connecting <=> ch[c].connecting) /\ (m.childCleared <=> ch[c].childCleared)
        /\ m.work = ch[c].work
    BY <1>0 DEF RecOK, ChannelShape, ChannelFields
  <2> HIDE DEF m
  <2>3. ch'[c] = m /\ \A d \in Channels : d # c => ch'[d] = ch[d]
    BY <1>0, <2>1
  <2>4. /\ ~InCtrl("detach", c) /\ ~ch[c].childCleared /\ c \notin clearNext /\ ch[c].onClose # "cleared"
        /\ ch[c].handshakeOK /\ ch[c].work = "closed" /\ (ch[c].child = "closed" => ch[c].wChild = 0)
        /\ ~ch[c].bound /\ ch[c].st \notin {"removed", "deleted"} /\ (c \in permit => ch[c].st = "mapped")
    BY <1>0, <1>4 DEF Life, DetachedOnce, OnWorker, OnMainOnly, FreedLast
  <2>5. /\ CtrlUnique' /\ InCtrl("detach", c)'
        /\ \A o, d : o # "detach" \/ d # c => (InCtrl(o, d)' <=> InCtrl(o, d))
    BY <2>1, <2>4, UniqueOf, CtrlAppend
  <2>6. \A d \in Channels : AttachHeld(d)' <=> AttachHeld(d)
    BY <1>0 DEF AttachHeld
  <2>7. OneRequest'
    <3>1. ASSUME NEW d \in Channels
          PROVE  /\ d \in bindNext' => ~InCtrl("attach", d)'
                 /\ AttachHeld(d)' => d \notin bindNext' /\ ~InCtrl("attach", d)'
      BY <1>0, <2>5, <2>6 DEF ChannelLife, OneRequest
    <3>2. QED
      BY <2>5, <3>1 DEF OneRequest, CtrlUnique
  <2>8. ~Attaching(c)' /\ ~InCtrl("attach", c)' /\ ~AttachHeld(c)'
    BY <1>0, <1>2, <2>5, <2>6 DEF Attaching
  <2>9. Life(c)'
    <3>1. AttachingAlive(c)' /\ OnMainOnly(c)'
      BY <1>1, <1>4, <2>2, <2>3, <2>4, <2>8 DEF AttachingAlive, OnMainOnly
    <3>2. OnWorker(c)' /\ DetachedOnce(c)' /\ FreedLast(c)'
      BY <1>0, <1>1, <1>4, <2>2, <2>3, <2>4 DEF OnWorker, DetachedOnce, FreedLast
    <3>3. QED
      BY <3>1, <3>2 DEF Life
  <2>10. UnreadAlive(c)'
    BY <1>0, <2>2, <2>3, LifeOf DEF UnreadAlive
  <2>11. PeersShaped' /\ (hold'.kind = "fetch" => asked'[hold'.c] # "none")
    BY <1>0 DEF ChannelLife, PeersShaped
  <2>12. ASSUME NEW d \in Channels, d # c PROVE SamePlaces(d) /\ Gains(d) /\ peer'[d] = peer[d]
    BY <1>0, <2>5, <2>6, <2>12 DEF SamePlaces, Gains
  <2>13. QED
    BY <2>3, <2>7, <2>9, <2>10, <2>11, <2>12, OneMoves
<1>5. QED
  BY <1>3, <1>4

\* AttachChannel gives the worker a channel that nobody has freed.
LEMMA AttachLife ==
    ASSUME ChannelInv, ChannelLife, sess = "up", AttachChannel PROVE ChannelLife'
<1>0. /\ hold # Nobody /\ hold' = Nobody /\ hold.kind = "attach"
      /\ UNCHANGED <<peer, ctrl, asyncQ, bindNext, clearNext, permit, forward, task, asked>>
  BY HoldKind DEF AttachChannel
<1>01. PICK c \in Channels : c = hold.c
  BY <1>0 DEF ChannelInv, HoldOK
<1>1. c \in Channels /\ RecOK(ch[c]) /\ Life(c) /\ AttachHeld(c) /\ DOMAIN ch = Channels
  BY <1>0, <1>01, RecordsOK, LifeOf DEF ChannelInv, HoldOK, AttachHeld, ChanTypeOK
<1>2. PICK opened \in {"open", "closing"} : ch' = [ch EXCEPT ![c].child = opened, ![c].ref = @ - 1]
  BY <1>01 DEF AttachChannel
<1> DEFINE m == [ch[c] EXCEPT !.child = opened, !.ref = @ - 1]
<1>3. ch' = [ch EXCEPT ![c] = m]
  BY <1>2
<1>4. /\ m.st = ch[c].st /\ m.child = opened /\ m.free = ch[c].free /\ m.wWork = ch[c].wWork
      /\ m.onClose = ch[c].onClose /\ m.wChild = ch[c].wChild /\ (m.bound <=> ch[c].bound)
      /\ (m.isDead <=> ch[c].isDead) /\ (m.handshakeOK <=> ch[c].handshakeOK)
      /\ (m.connecting <=> ch[c].connecting) /\ (m.childCleared <=> ch[c].childCleared)
      /\ m.work = ch[c].work
  BY <1>1 DEF RecOK, ChannelShape, ChannelFields
<1> HIDE DEF m
<1>5. ch'[c] = m /\ \A d \in Channels : d # c => ch'[d] = ch[d]
  BY <1>1, <1>3
<1>6. /\ ch[c].st = "mapped" /\ ~ch[c].isDead /\ ch[c].child = "null" /\ ch[c].handshakeOK
      /\ ch[c].work = "closed" /\ ~ch[c].connecting /\ ch[c].free = "no"
  BY <1>1 DEF Life, AttachingAlive, Attaching, RecOK, FreeStages
<1>7. /\ c \notin task /\ c \notin permit /\ c \notin forward /\ c \notin clearNext /\ c \notin asyncQ
      /\ ch[c].wChild = 0 /\ ~InCtrl("detach", c) /\ ch[c].onClose # "cleared" /\ ~ch[c].childCleared
      /\ ~ch[c].bound /\ ch[c].wWork = 0
  BY <1>1, <1>6 DEF Life, OnMainOnly, FreedLast
<1>8. \A d \in Channels : ~AttachHeld(d)' /\ (d # c => ~AttachHeld(d))
  BY <1>0, <1>01 DEF AttachHeld, Nobody
<1>9. \A o, d : InCtrl(o, d)' <=> InCtrl(o, d)
  BY <1>0 DEF InCtrl
<1>10. OneRequest'
  <2>1. CtrlUnique'
    BY <1>0, UniqueOf DEF CtrlUnique
  <2>2. QED
    BY <1>0, <1>8, <1>9, <2>1 DEF ChannelLife, OneRequest, CtrlUnique
<1>11. c \notin bindNext /\ ~InCtrl("attach", c)
  BY <1>1 DEF ChannelLife, OneRequest
<1>12. Life(c)'
  <2>1. ~Attaching(c)' /\ ~InCtrl("attach", c)' /\ ~AttachHeld(c)' /\ ~InCtrl("detach", c)'
    BY <1>0, <1>1, <1>7, <1>8, <1>9, <1>11 DEF Attaching
  <2>2. AttachingAlive(c)' /\ OnMainOnly(c)'
    BY <1>4, <1>5, <1>6, <2>1 DEF AttachingAlive, OnMainOnly
  <2>3. OnWorker(c)' /\ DetachedOnce(c)' /\ FreedLast(c)'
    BY <1>0, <1>4, <1>5, <1>6, <1>7, <2>1 DEF OnWorker, DetachedOnce, FreedLast
  <2>4. QED
    BY <2>2, <2>3 DEF Life
<1>13. UnreadAlive(c)'
  BY <1>0, <1>1, <1>4, <1>5, <1>6, LifeOf DEF UnreadAlive
<1>14. PeersShaped' /\ hold'.kind # "fetch"
  BY <1>0 DEF ChannelLife, PeersShaped, Nobody
<1>15. ASSUME NEW d \in Channels, d # c PROVE SamePlaces(d) /\ Gains(d) /\ peer'[d] = peer[d]
  BY <1>0, <1>8, <1>9, <1>15 DEF SamePlaces, Gains
<1>16. QED
  BY <1>1, <1>5, <1>10, <1>12, <1>13, <1>14, <1>15, OneMoves

\* ReadCtrlFromMain takes the attach or the detach of a channel in the map.
LEMMA ReadCtrlLife ==
    ASSUME ChannelInv, ChannelLife, sess = "up", ReadCtrlFromMain PROVE ChannelLife'
<1>0. /\ hold = Nobody /\ ctrl # <<>> /\ ctrl' = Tail(ctrl) /\ DOMAIN ch = Channels
      /\ UNCHANGED <<peer, asyncQ, bindNext, permit, forward, asked>>
  BY UniqueOf DEF ReadCtrlFromMain, Working
<1>1. PICK op \in {"attach", "detach"}, c \in Channels : Head(ctrl) = <<op, c>>
  <2>1. Head(ctrl) \in {"attach", "detach"} \X Channels
    BY <1>0, UniqueOf
  <2>2. QED
    BY <2>1
<1>2. /\ CtrlUnique' /\ InCtrl(op, c) /\ ~InCtrl(op, c)'
      /\ \A o, d : o # op \/ d # c => (InCtrl(o, d)' <=> InCtrl(o, d))
  BY <1>0, <1>1, UniqueOf, CtrlTail
<1>3. \A d \in Channels : ~AttachHeld(d)
  BY <1>0 DEF AttachHeld, Nobody
<1>4. RecOK(ch[c]) /\ Life(c) /\ UnreadAlive(c)
  BY RecordsOK, LifeOf
<1>5. PeersShaped'
  BY <1>0, LifeOf DEF PeersShaped
<1>6. CASE op = "attach"
  <2> DEFINE m == [ch[c] EXCEPT !.ref = @ + 1]
  <2>1. Attaching(c) /\ InCtrl("attach", c)
    BY <1>2, <1>6 DEF Attaching
  <2>2. InMap(c)
    BY <1>4, <2>1 DEF Life, AttachingAlive, InMap
  <2>3. /\ hold' = [kind |-> "attach", c |-> c, early |-> ~ch[c].isDead]
        /\ ch' = [ch EXCEPT ![c] = m] /\ UNCHANGED <<clearNext, task>>
    BY <1>1, <1>6, <2>2 DEF ReadCtrlFromMain
  <2>4. /\ m.st = ch[c].st /\ m.child = ch[c].child /\ m.free = ch[c].free /\ m.wWork = ch[c].wWork
        /\ m.onClose = ch[c].onClose /\ m.wChild = ch[c].wChild /\ (m.bound <=> ch[c].bound)
        /\ (m.isDead <=> ch[c].isDead) /\ (m.handshakeOK <=> ch[c].handshakeOK)
        /\ (m.connecting <=> ch[c].connecting) /\ (m.childCleared <=> ch[c].childCleared)
        /\ m.work = ch[c].work
    BY <1>4 DEF RecOK, ChannelShape, ChannelFields
  <2> HIDE DEF m
  <2>5. ch'[c] = m /\ \A d \in Channels : d # c => ch'[d] = ch[d]
    BY <1>0, <2>3
  <2>6. hold'.kind = "attach" /\ hold'.c = c
    BY <2>3
  <2>7. AttachHeld(c)' /\ \A d \in Channels : d # c => ~AttachHeld(d)'
    BY <2>6 DEF AttachHeld
  <2>8. c \notin bindNext
    BY <2>1 DEF ChannelLife, OneRequest
  <2>9. OneRequest'
    <3>1. ASSUME NEW d \in Channels
          PROVE  /\ d \in bindNext' => ~InCtrl("attach", d)'
                 /\ AttachHeld(d)' => d \notin bindNext' /\ ~InCtrl("attach", d)'
      BY <1>0, <1>2, <1>6, <2>7, <2>8 DEF ChannelLife, OneRequest
    <3>2. QED
      BY <1>2, <3>1 DEF OneRequest, CtrlUnique
  <2>10. Attaching(c)' /\ (InCtrl("detach", c)' <=> InCtrl("detach", c))
    BY <1>2, <1>6, <2>7 DEF Attaching
  <2>11. AttachingAlive(c)'
    BY <1>4, <2>1, <2>4, <2>5 DEF Life, AttachingAlive
  <2>12. OnMainOnly(c)' /\ OnWorker(c)' /\ DetachedOnce(c)' /\ FreedLast(c)'
    BY <1>0, <1>4, <2>3, <2>4, <2>5, <2>10 DEF Life, OnMainOnly, OnWorker, DetachedOnce, FreedLast
  <2>13. UnreadAlive(c)'
    BY <1>0, <1>4, <2>4, <2>5 DEF UnreadAlive
  <2>14. ASSUME NEW d \in Channels, d # c PROVE SamePlaces(d) /\ Gains(d) /\ peer'[d] = peer[d]
    BY <1>0, <1>2, <1>3, <2>3, <2>7, <2>14 DEF SamePlaces, Gains
  <2>15. QED
    BY <1>5, <2>5, <2>6, <2>9, <2>11, <2>12, <2>13, <2>14, OneMoves DEF Life
<1>7. CASE op = "detach"
  <2>1. /\ ch[c].free = "wait" /\ c \notin clearNext /\ ch[c].onClose # "cleared" /\ ~ch[c].childCleared
        /\ ch[c].child # "null" /\ ch[c].st # "none"
    BY <1>2, <1>4, <1>7 DEF Life, DetachedOnce, OnWorker, OnMainOnly, RecOK, FreeStages
  <2>2. InMap(c)
    BY <1>4, <2>1 DEF Life, FreedLast, RecOK, ChannelShape, InMap
  <2>3. UNCHANGED hold /\ task' = task \ {c}
    BY <1>1, <1>7, <2>1, <2>2 DEF ReadCtrlFromMain
  <2>4. ~Attaching(c)
    BY <1>4, <2>1, NotAttaching
  <2>5. \A d \in Channels : ~AttachHeld(d)'
    BY <1>3, <2>3 DEF AttachHeld
  <2>6. OneRequest'
    <3>1. ASSUME NEW d \in Channels
          PROVE  /\ d \in bindNext' => ~InCtrl("attach", d)'
                 /\ AttachHeld(d)' => d \notin bindNext' /\ ~InCtrl("attach", d)'
      BY <1>0, <1>2, <1>7, <2>5 DEF ChannelLife, OneRequest
    <3>2. QED
      BY <1>2, <3>1 DEF OneRequest, CtrlUnique
  <2>7. ~Attaching(c)' /\ ~InCtrl("detach", c)' /\ ~InCtrl("attach", c)' /\ ~AttachHeld(c)'
    BY <1>0, <1>2, <1>7, <2>4, <2>5 DEF Attaching
  <2>8. ASSUME clearNext' \subseteq clearNext \cup {c}, NEW d \in Channels, d # c
        PROVE  SamePlaces(d) /\ Gains(d) /\ peer'[d] = peer[d]
    BY <1>0, <1>2, <1>3, <2>3, <2>5, <2>8 DEF SamePlaces, Gains
  <2>9. hold'.kind # "fetch"
    BY <1>0, <2>3 DEF Nobody
  <2>10. CASE ch[c].child = "open"
    <3> DEFINE m == [ch[c] EXCEPT !.child = "closing", !.onClose = "cleared"]
    <3>1. ch' = [ch EXCEPT ![c] = m] /\ clearNext' = clearNext
      <4>1. /\ ch' = [ch EXCEPT ![c].child = "closing", ![c].onClose = "cleared"]
            /\ clearNext' = clearNext
        BY <1>1, <1>7, <2>1, <2>2, <2>10 DEF ReadCtrlFromMain
      <4>2. QED
        BY <1>0, <4>1
    <3>2. /\ m.st = ch[c].st /\ m.child = "closing" /\ m.free = ch[c].free /\ m.wWork = ch[c].wWork
          /\ m.onClose = "cleared" /\ m.wChild = ch[c].wChild /\ (m.bound <=> ch[c].bound)
          /\ (m.isDead <=> ch[c].isDead) /\ (m.handshakeOK <=> ch[c].handshakeOK)
          /\ (m.connecting <=> ch[c].connecting) /\ (m.childCleared <=> ch[c].childCleared)
          /\ m.work = ch[c].work
      BY <1>4 DEF RecOK, ChannelShape, ChannelFields
    <3> HIDE DEF m
    <3>3. ch'[c] = m /\ \A d \in Channels : d # c => ch'[d] = ch[d]
      BY <1>0, <3>1
    <3>4. AttachingAlive(c)' /\ OnMainOnly(c)'
      BY <1>4, <2>1, <2>7, <3>2, <3>3 DEF Life, AttachingAlive, OnMainOnly
    <3>5. OnWorker(c)' /\ DetachedOnce(c)' /\ FreedLast(c)'
      BY <1>0, <1>4, <2>1, <2>3, <2>7, <3>1, <3>2, <3>3 DEF Life, OnWorker, DetachedOnce, FreedLast
    <3>6. UnreadAlive(c)'
      BY <1>0, <1>4, <3>2, <3>3 DEF UnreadAlive
    <3>7. QED
      BY <1>5, <2>6, <2>8, <2>9, <3>1, <3>3, <3>4, <3>5, <3>6, OneMoves DEF Life
  <2>11. CASE ch[c].child # "open"
    <3>1. ch' = ch /\ clearNext' = clearNext \cup {c}
      BY <1>1, <1>7, <2>1, <2>2, <2>11 DEF ReadCtrlFromMain
    <3>2. ch[c].child \in {"closing", "closed"}
      BY <1>4, <2>1, <2>11 DEF RecOK, ChannelShape, StreamStates
    <3>3. AttachingAlive(c)' /\ OnMainOnly(c)'
      BY <1>4, <2>1, <2>7, <3>1 DEF Life, AttachingAlive, OnMainOnly
    <3>4. OnWorker(c)' /\ DetachedOnce(c)' /\ FreedLast(c)'
      BY <1>0, <1>4, <2>1, <2>3, <2>7, <3>1, <3>2 DEF Life, OnWorker, DetachedOnce, FreedLast
    <3>5. UnreadAlive(c)'
      BY <1>0, <1>4, <3>1, UnreadKept
    <3>6. QED
      BY <1>5, <2>6, <2>8, <2>9, <3>1, <3>3, <3>4, <3>5, OneMoves DEF Life
  <2>12. QED
    BY <2>10, <2>11
<1>8. QED
  BY <1>6, <1>7

\* AcceptClient: a new channel is in no place.
LEMMA AcceptLife ==
    ASSUME ChannelInv, ChannelLife, sess = "up", NEW c \in Channels, AcceptClient(c) PROVE ChannelLife'
<1> DEFINE r == [NewChannel EXCEPT !.st = "mapped", !.uvHandleRef = 1, !.work = "open"]
<1>1. PICK accepted \in BOOLEAN :
        /\ ch' = [ch EXCEPT ![c] = IF accepted THEN SendChannel(r, "main") ELSE MarkDead(r)]
        /\ peer' = [peer EXCEPT ![c].on = accepted]
  BY DEF AcceptClient
<1>2. /\ RecOK(r) /\ r.st = "mapped" /\ r.free = "no" /\ ~r.isDead /\ r.work = "open" /\ r.child = "null"
      /\ r.onClose = "none" /\ ~r.childCleared /\ ~r.bound /\ ~r.connecting /\ r.wChild = 0
  BY ChannelBounds DEF RecOK, ChannelShape, ChannelFields, StreamStates, FreeStages, NewChannel
<1> HIDE DEF r
<1> DEFINE q == IF accepted THEN SendChannel(r, "main") ELSE MarkDead(r)
<1>3. Soft(q, r) /\ (accepted => ~q.isDead)
  BY <1>2, SendSoft, MarkDeadSoft
<1>4. ~q.handshakeOK
  <2>1. SendChannel(r, "main").handshakeOK = r.handshakeOK /\ MarkDead(r).handshakeOK = r.handshakeOK
    BY <1>2 DEF SendChannel, MarkDead, RecOK, ChannelShape, ChannelFields
  <2>2. ~r.handshakeOK
    BY DEF r, NewChannel
  <2>3. QED
    BY <2>1, <2>2
<1> HIDE DEF q
<1>5. /\ q.st = "mapped" /\ q.free \in {"no", "operate"} /\ q.work \in {"open", "closing"} /\ q.child = "null"
      /\ q.onClose = "none" /\ ~q.childCleared /\ ~q.bound /\ ~q.connecting /\ q.wChild = 0
  BY <1>2, <1>3, <1>4 DEF Soft
<1>6. ch'[c] = q /\ \A d \in Channels : d # c => ch'[d] = ch[d]
  BY <1>1 DEF ChannelInv, ChanTypeOK, q
<1>7. /\ ch[c].st = "none" /\ Life(c) /\ UnreadAlive(c)
      /\ UNCHANGED <<ctrl, asyncQ, bindNext, clearNext, hold, permit, forward, task, asked>>
  BY LifeOf DEF AcceptClient
<1>8. /\ ~Attaching(c)' /\ ~InCtrl("attach", c)' /\ ~AttachHeld(c)'
      /\ InCtrl("detach", c)' <=> InCtrl("detach", c)
  BY <1>7, DeadNotAttaching, QuietPlaces DEF Attaching
<1>9. /\ c \notin task /\ c \notin permit /\ c \notin forward /\ c \notin clearNext /\ c \notin asyncQ
      /\ asked[c] = "none" /\ ~InCtrl("detach", c)
  BY <1>7 DEF Life, OnMainOnly
<1>10. AttachingAlive(c)' /\ OnMainOnly(c)'
  BY <1>5, <1>6, <1>7, <1>8, <1>9 DEF AttachingAlive, OnMainOnly
<1>11. OnWorker(c)' /\ DetachedOnce(c)' /\ FreedLast(c)'
  BY <1>5, <1>6, <1>7, <1>8, <1>9 DEF OnWorker, DetachedOnce, FreedLast
<1>12. /\ DOMAIN peer' = Channels /\ \A d \in Channels : DOMAIN peer'[d] = {"on", "sent", "q", "recv"}
       /\ \A d \in Channels : d # c => peer'[d] = peer[d]
       /\ (peer'[c].on <=> accepted) /\ peer'[c].sent = peer[c].sent /\ peer'[c].q = peer[c].q
  BY <1>1, LifeOf DEF PeersShaped
<1>13. PeersShaped' /\ (hold'.kind = "fetch" => asked'[hold'.c] # "none")
  BY <1>7, <1>12 DEF ChannelLife, PeersShaped
<1>14. UnreadAlive(c)'
  <2>1. peer[c].sent = 0 /\ peer[c].q = <<>>
    BY <1>7 DEF UnreadAlive
  <2>2. QED
    BY <1>3, <1>5, <1>6, <1>12, <2>1 DEF UnreadAlive
<1>15. OneRequest'
  BY <1>7, LifeOf DEF OneRequest, InCtrl, AttachHeld
<1>16. ASSUME NEW d \in Channels, d # c PROVE SamePlaces(d) /\ Gains(d)
  BY <1>7, QuietPlaces DEF SamePlaces, Gains
<1>17. QED
  BY <1>6, <1>10, <1>11, <1>12, <1>13, <1>14, <1>15, <1>16, OneMoves DEF Life

\* ChannelHandShake binds a channel that is alive.
LEMMA HandShakeLife ==
    ASSUME ChannelInv, ChannelLife, sess = "up", NEW c \in Channels, ChannelHandShake(c) PROVE ChannelLife'
<1> DEFINE r == [ch[c] EXCEPT !.handshakeOK = TRUE]
           b == [r EXCEPT !.ref = @ + 1, !.bound = TRUE, !.work = "closing"]
<1>0. /\ RecOK(ch[c]) /\ Life(c) /\ DOMAIN ch = Channels /\ Readable(c) /\ ~ch[c].handshakeOK /\ peer[c].q # <<>>
      /\ peer' = [peer EXCEPT ![c].q = <<>>] /\ DOMAIN asked = Channels
      /\ UNCHANGED <<ctrl, asyncQ, clearNext, hold, permit, forward, task, asked>>
  BY RecordsOK, LifeOf DEF ChannelHandShake, ChannelInv, ChanTypeOK, PeersShaped
<1>1. ch[c].child = "null" /\ ch[c].work = "open" /\ ch[c].st = "mapped" /\ ~Attaching(c)
  BY <1>0, NotAttaching DEF Life, OnMainOnly, Readable
<1>2. Soft(r, ch[c]) /\ (r.isDead <=> ch[c].isDead) /\ ~r.bound
  BY <1>0 DEF Soft, RecOK, ChannelShape, ChannelFields, FreeStages
<1>3. ASSUME NEW m, ch' = [ch EXCEPT ![c] = m], Soft(m, ch[c]), UNCHANGED bindNext PROVE ChannelLife'
  <2>1. ch'[c] = m /\ \A d \in Channels : d # c => ch'[d] = ch[d]
    BY <1>0, <1>3
  <2>2. ASSUME NEW d \in Channels
        PROVE  /\ Soft(ch'[d], ch[d]) /\ Gains(d)
               /\ ch'[d].isDead => ch[d].isDead \/ ~Attaching(d)
               /\ d # c /\ ch'[d].isDead => ch[d].isDead \/ ch[d].handshakeOK
    BY <1>0, <1>1, <1>3, <2>1, SoftSelf, RecordsOK DEF Gains
  <2>3. hold.kind = "fetch" => asked'[hold.c] # "none"
    BY <1>0 DEF ChannelLife
  <2>4. QED
    BY <1>0, <1>1, <1>3, <2>2, <2>3, ReadStep
<1>4. CASE ch' = [ch EXCEPT ![c] = r] /\ UNCHANGED bindNext
  BY <1>2, <1>3, <1>4
<1>5. CASE ch' \in {[ch EXCEPT ![c] = MarkDead(ch[c])], [ch EXCEPT ![c] = MarkDead(r)],
                   [ch EXCEPT ![c] = MarkDead(EchoClient(r, "main"))]} /\ UNCHANGED bindNext
  <2> HIDE DEF r
  <2>1. Soft(MarkDead(ch[c]), ch[c]) /\ Soft(MarkDead(r), ch[c])
    BY <1>0, <1>2, MarkDeadSoft, SoftTrans DEF Soft
  <2>2. Soft(EchoClient(r, "main"), ch[c])
    BY <1>2, EchoSoft, SoftTrans DEF Soft
  <2>3. Soft(MarkDead(EchoClient(r, "main")), ch[c])
    BY <2>2, MarkDeadSoft, SoftTrans DEF Soft
  <2>4. QED
    BY <1>3, <1>5, <2>1, <2>3
<1>6. CASE ch' = [ch EXCEPT ![c] = b] /\ bindNext' = bindNext \cup {c} /\ Head(peer[c].q) = "hs key"
  <2>1. /\ b.st = ch[c].st /\ b.child = ch[c].child /\ b.free = ch[c].free /\ b.wWork = ch[c].wWork
        /\ b.onClose = ch[c].onClose /\ b.wChild = ch[c].wChild /\ b.bound
        /\ (b.isDead <=> ch[c].isDead) /\ b.handshakeOK
        /\ (b.connecting <=> ch[c].connecting) /\ (b.childCleared <=> ch[c].childCleared)
        /\ b.work = "closing"
    BY <1>0 DEF RecOK, ChannelShape, ChannelFields
  <2> HIDE DEF b, r
  <2>2. ch'[c] = b /\ \A d \in Channels : d # c => ch'[d] = ch[d]
    BY <1>0, <1>6
  <2>3. ~ch[c].isDead
    BY <1>0, <1>1, <1>6, LifeOf DEF UnreadAlive
  <2>4. /\ ~ch[c].connecting /\ c \notin task /\ c \notin permit /\ c \notin forward /\ c \notin clearNext
        /\ c \notin asyncQ /\ asked[c] = "none" /\ ch[c].wChild = 0 /\ ~InCtrl("detach", c)
        /\ ch[c].onClose # "cleared" /\ ~ch[c].childCleared /\ ch[c].free = "no"
    BY <1>0, <1>1, <2>3 DEF Life, OnMainOnly, RecOK, FreeStages
  <2>5. \A o, d : InCtrl(o, d)' <=> InCtrl(o, d)
    BY <1>0 DEF InCtrl
  <2>6. \A d \in Channels : AttachHeld(d)' <=> AttachHeld(d)
    BY <1>0 DEF AttachHeld
  <2>7. ~InCtrl("attach", c)' /\ ~InCtrl("detach", c)' /\ ~AttachHeld(c)'
    BY <1>1, <2>4, <2>5, <2>6 DEF Attaching
  <2>8. OneRequest'
    <3>1. CtrlUnique'
      BY <1>0, UniqueOf DEF CtrlUnique
    <3>2. ASSUME NEW d \in Channels
          PROVE  /\ d \in bindNext' => ~InCtrl("attach", d)'
                 /\ AttachHeld(d)' => d \notin bindNext' /\ ~InCtrl("attach", d)'
      BY <1>6, <2>5, <2>6, <2>7 DEF ChannelLife, OneRequest
    <3>3. QED
      BY <3>1, <3>2 DEF OneRequest, CtrlUnique
  <2>9. AttachingAlive(c)' /\ OnMainOnly(c)'
    BY <1>0, <1>1, <2>1, <2>2, <2>3, <2>4, <2>7 DEF AttachingAlive, OnMainOnly
  <2>10. OnWorker(c)' /\ DetachedOnce(c)' /\ FreedLast(c)'
    BY <1>0, <1>1, <2>1, <2>2, <2>4, <2>7 DEF OnWorker, DetachedOnce, FreedLast
  <2>11. UnreadAlive(c)' /\ \A d \in Channels : d # c => peer'[d] = peer[d]
    BY <1>0, <1>1, <2>1, <2>2, PacketRead
  <2>12. PeersShaped' /\ (hold'.kind = "fetch" => asked'[hold'.c] # "none")
    BY <1>0 DEF ChannelLife, PeersShaped
  <2>13. ASSUME NEW d \in Channels, d # c PROVE SamePlaces(d) /\ Gains(d)
    BY <1>0, <1>6, <2>5, <2>6, <2>13 DEF SamePlaces, Gains
  <2>14. QED
    BY <2>2, <2>8, <2>9, <2>10, <2>11, <2>12, <2>13, OneMoves DEF Life
<1>7. QED
  <2>1. CASE Head(peer[c].q) = "hs key"
    <3>1. BindChannelToSession(c, r)
      BY <2>1 DEF ChannelHandShake
    <3> HIDE DEF r
    <3>2. QED
      BY <1>5, <1>6, <2>1, <3>1 DEF BindChannelToSession
  <2>2. CASE Head(peer[c].q) = "hs nokey"
    BY <1>4, <2>2 DEF ChannelHandShake
  <2>3. CASE Head(peer[c].q) \notin {"hs key", "hs nokey"}
    BY <1>5, <2>3 DEF ChannelHandShake
  <2>4. QED
    BY <2>1, <2>2, <2>3

\* Every step keeps the inductive invariant of FreedChannelReleased.
LEMMA LifeStep == ASSUME ChannelInv, ChannelLife, [ChanNext]_chanVars PROVE ChannelLife'
<1>0. CASE sess' # "up"
  BY <1>0 DEF ChannelLife
<1>1. CASE UNCHANGED chanVars /\ sess = "up"
  <2>1. UNCHANGED <<ch, peer, sess, ctrl, asyncQ, bindNext, clearNext, hold, permit, forward, task, asked>>
    BY <1>1 DEF chanVars
  <2>2. ASSUME NEW c \in Channels PROVE Soft(ch'[c], ch[c]) /\ Gains(c) /\ UnreadAlive(c)' /\ (AttachHeld(c)' <=> AttachHeld(c))
    BY <1>1, <2>1, SoftSelf, RecordsOK, LifeOf, UnreadKept DEF Gains, AttachHeld
  <2>3. PeersShaped' /\ (hold'.kind = "fetch" => asked'[hold'.c] # "none")
    BY <1>1, <2>1 DEF ChannelLife, PeersShaped
  <2>4. QED
    BY <1>1, <2>1, <2>2, <2>3, SoftStep
<1>2. ASSUME NEW c \in Channels, sess = "up", MainSteps(c) PROVE ChannelLife'
  BY <1>2, WorkClosedLife, BindNextLife, AsyncLife, OpeateLife, CheckContinueLife, FinallyLife DEF MainSteps
<1>3. ASSUME NEW c \in Channels, sess = "up", sess' = "up", StreamSteps(c) PROVE ChannelLife'
  BY <1>3, HandShakeLife, DoCommandLife, ReadFailsLife, WriteCallbackLife DEF StreamSteps
<1>4. ASSUME NEW c \in Channels, sess = "up", WorkerSteps(c) PROVE ChannelLife'
  BY <1>4, ChildClosedLife, ClearNextLife, FetchLife DEF WorkerSteps
<1>5. CASE sess' = "up" /\ ChanNext
  <2>1. sess' = sess
    <3>1. ASSUME NEW c \in Channels, AcceptClient(c) \/ ClientSteps(c) \/ OrderConnecTargetResult(c) \/ WorkerSteps(c)
          PROVE  sess' = sess
      BY <3>1 DEF AcceptClient, ClientSteps, ClientHandshake, ClientCommand, ClientHangup,
                  OrderConnecTargetResult, WorkerSteps, ChildClosed, ClearNextLoop, FetchCommand
    <3>2. ASSUME NEW c \in Channels, MainSteps(c) PROVE sess' = sess
      BY <3>2 DEF MainSteps, WorkClosed, BindNextLoop, AsyncMainLoopTask, FreeChannelOpeate,
                  CheckFreeChannelContinue, FreeChannelFinally
    <3>3. ASSUME NEW c \in Channels, StreamSteps(c) PROVE sess' = sess
      <4>1. CASE DoCommand(c)
        <5>1. sess' = sess \/ sess' = "dead"
          BY <4>1 DEF DoCommand, SessionIsFreed
        <5>2. QED
          BY <1>5, <5>1
      <4>2. CASE ChannelHandShake(c) \/ ReadStreamFails(c)
        BY <4>2 DEF ChannelHandShake, ReadStreamFails
      <4>3. CASE \E thread \in {"main", "worker"}, ok \in BOOLEAN : WriteCallback(c, thread, ok)
        BY <4>3 DEF WriteCallback
      <4>4. QED
        BY <3>3, <4>1, <4>2, <4>3 DEF StreamSteps
    <3>4. ReadCtrlFromMain \/ AttachChannel \/ DispatchChannelCommand \/ OtherRemovesForward => sess' = sess
      BY DEF ReadCtrlFromMain, AttachChannel, DispatchChannelCommand, OtherRemovesForward
    <3>5. ~SessionDies /\ ~WorkerStops
      BY <1>5 DEF SessionDies, SessionIsFreed, WorkerStops
    <3>6. QED
      BY <1>5, <3>1, <3>2, <3>3, <3>4, <3>5 DEF ChanNext
  <2>2. sess = "up"
    BY <1>5, <2>1
  <2>3. ~SessionDies /\ ~WorkerStops
    BY <1>5 DEF SessionDies, SessionIsFreed, WorkerStops
  <2>4. QED
    BY <1>2, <1>3, <1>4, <1>5, <2>2, <2>3, AcceptLife, ClientLife, ConnectResultLife, ReadCtrlLife, AttachLife,
       DispatchLife, OtherRemovesLife DEF ChanNext
<1>6. QED
  BY <1>0, <1>1, <1>5 DEF chanVars

\* No channel is anywhere in the first state.
LEMMA LifeInit == ChanInit => ChannelLife
<1> SUFFICES ASSUME ChanInit PROVE ChannelLife
  OBVIOUS
<1>1. hold.kind = "none" /\ Len(ctrl) = 0 /\ \A o, c : ~InCtrl(o, c)
  BY DEF ChanInit, Nobody, InCtrl
<1>2. OneRequest /\ PeersShaped
  BY <1>1 DEF OneRequest, PeersShaped, ChanInit, AttachHeld
<1>3. ASSUME NEW c \in Channels PROVE UnreadAlive(c)
  BY DEF ChanInit, UnreadAlive, NewChannel
<1>4. ASSUME NEW c \in Channels PROVE Life(c)
  <2>1. ~Attaching(c)
    BY <1>1 DEF ChanInit, Attaching, AttachHeld
  <2>2. AttachingAlive(c) /\ OnMainOnly(c) /\ OnWorker(c)
    BY <1>1, <2>1 DEF ChanInit, NewChannel, AttachingAlive, Attaching, OnMainOnly, OnWorker
  <2>3. DetachedOnce(c) /\ FreedLast(c)
    BY <1>1 DEF ChanInit, NewChannel, DetachedOnce, FreedLast
  <2>4. QED
    BY <2>2, <2>3 DEF Life
<1>5. QED
  BY <1>1, <1>2, <1>3, <1>4 DEF ChannelLife, Life

\* FreedChannelReleased for any number of channels, writes and packets: while
\* the session lives, a channel outside the map has no task, permit, stream or write.
THEOREM FreedChannelsReleased == ChanSpec => []FreedChannelReleased
<1>1. ChannelInv /\ ChannelLife => FreedChannelReleased
  <2> SUFFICES ASSUME ChannelInv, ChannelLife, sess = "up", NEW c \in Channels
               PROVE  /\ ch[c].st \in {"removed", "deleted"} =>
                           /\ c \notin task /\ c \notin clearNext
                           /\ ch[c].child \in {"null", "closed"} /\ ch[c].wChild = 0 /\ ch[c].wWork = 0
                      /\ c \in permit => InMap(c)
    BY DEF FreedChannelReleased
  <2>1. Life(c)
    BY LifeOf
  <2>2. QED
    BY <2>1 DEF Life, OnMainOnly, OnWorker, FreedLast, InMap
<1>2. QED
  BY <1>1, ChannelInitInv, ChannelStepInv, LifeInit, LifeStep, PTL DEF ChanSpec
=============================================================================
