------------------------- MODULE HdcTransfer_proofs -------------------------
(***************************************************************************)
(* Proofs about HdcTransfer, for any number of files and blocks: the       *)
(* inductive invariant TransferInv (end of HdcTransfer), and from it       *)
(* TransferResources and ReportedIsIntact.                                 *)
(*                                                                         *)
(* A handler is a chain of operators on a state x of both tasks.  Within   *)
(* it the references may be off by the one that the handler holds: Working *)
(* is what every state of the chain satisfies, RefsBut(x, a, k) says that  *)
(* end a holds k references too many, and Good is what holds again when    *)
(* the handler returns.  Sent, Like and Calm name what sending a message,  *)
(* a step that the invariant does not see, and a step that moves neither   *)
(* token nor block leave as it was.                                        *)
(***************************************************************************)
EXTENDS HdcTransfer, FiniteSetTheorems, TLAPS

-----------------------------------------------------------------------------
(* File transfer: what each operator of the model keeps                    *)

\* The plans for which the invariant is stated, as numbers.
PlanFits == /\ Len(xcfg.sizes) \in Nat \ {0} /\ (\A f \in Files : xcfg.sizes[f] \in Nat)
            /\ isApp => ~xcfg.shrinks /\ ~isDir
            /\ xcfg.shrinks => Len(xcfg.sizes) = 1
            /\ ~isApp /\ ~isDir => Len(xcfg.sizes) = 1

\* Plans have sizes, and only files and directories may shrink.
LEMMA XferPlans == ASSUME xcfg \in Plans, Tractable PROVE PlanFits
<1>1. PICK n \in 1 .. MaxFiles : xcfg.sizes \in [1 .. n -> 0 .. MaxBlocks]
  BY DEF Plans
<1>2. Len(xcfg.sizes) = n /\ n \in Nat \ {0} /\ \A f \in 1 .. n : xcfg.sizes[f] \in Nat
  BY <1>1, TransferBounds
<1>3. /\ xcfg.shrinks => xcfg.kind \in {"file", "dir"}
      /\ xcfg.kind \in {"file", "sideload", "uninstall"} => Len(xcfg.sizes) = 1
      /\ xcfg.kind \in {"file", "dir", "install", "sideload", "uninstall"}
  BY DEF Plans
<1> QED BY <1>2, <1>3 DEF PlanFits, Files, isApp, isDir, Tractable

\* The transfer has begun.
Working(x) == Core(x) /\ Master(x).task # "none"

\* What the slave's error flags promise.
SlaveErrors(x) ==
  /\ Slave(x).closeNotify => Slave(x).ioFinish
  /\ Slave(x).lastErrno /\ ~isApp /\ ~Slave(x).singalStop => Closing(x, "m")
  /\ ~xcfg.shrinks /\ Slave(x).closeNotify /\ ~Slave(x).lastErrno => \A r \in x.req : r.op # "write"

\* The ends are each other's other end.
LEMMA XferEnds == /\ OtherEnd("m") = "s" /\ OtherEnd("s") = "m" /\ Ends = {"m", "s"}
                  /\ \A a \in Ends : OtherEnd(a) \in Ends /\ OtherEnd(a) # a
BY DEF Ends, OtherEnd

\* A step that sends nothing, asks for nothing, moves no block and no file.
LEMMA XferQuiet ==
  ASSUME NEW x, Working(x), NEW y, TransferShape(y), OneFile(y), SlaveErrors(y),
         y.net = x.net, y.req \subseteq x.req, y.made = x.made, y.data = x.data, x.told \subseteq y.told,
         y.forkFailed = x.forkFailed, x.emptyFailed => y.emptyFailed,
         y.summary = x.summary \/ (y.summary = "ok" /\ ~y.emptyFailed => AllDone(x)),
         Queue(y) = Queue(x), Master(y).openFd = Master(x).openFd, Master(y).fileSize = Master(x).fileSize,
         Master(y).indexIO = Master(x).indexIO, Master(y).lastErrno = Master(x).lastErrno,
         Master(y).closeNotify => Master(x).closeNotify,
         Slave(y).openFd = Slave(x).openFd, Slave(y).fileSize = Slave(x).fileSize,
         Slave(y).indexIO = Slave(x).indexIO, Slave(x).ioFinish => Slave(y).ioFinish,
         \A a \in Ends : /\ y.ctx[a].isFdOpen => x.ctx[a].isFdOpen
                         /\ \/ y.ctx[a].task = x.ctx[a].task
                            \/ x.ctx[a].task # "none" /\ y.ctx[a].task \notin {"none", "run"}
  PROVE  Working(y)
<1> USE DEF Working, Core
<1>1. /\ Cur(y) = Cur(x) /\ (InQueue(y) <=> InQueue(x)) /\ (MasterReady(y) <=> MasterReady(x))
      /\ (SlaveReady(y) <=> SlaveReady(x)) /\ (Begun(y) <=> Begun(x))
  BY DEF Cur, InQueue, MasterReady, SlaveReady, Begun
<1>2. /\ NoData(x) => NoData(y)
      /\ \A f : Arrived(y, f) = Arrived(x, f)
      /\ \A f : Done(x, f) => Done(y, f)
      /\ \A i : IsData(y, i) <=> IsData(x, i)
  <2>1. \A i : IsData(y, i) <=> IsData(x, i)
    BY DEF IsData
  <2>2. \A f : Arrived(y, f) = Arrived(x, f)
    BY DEF Arrived
  <2> QED BY <2>1, <2>2 DEF NoData, Done
<1>3. \A a \in Ends : /\ Closing(x, a) => Closing(y, a)
                      /\ \A i : /\ Live(y, a, i) => Live(x, a, i)
                                /\ TokenAt(y, a, i) => TokenAt(x, a, i)
  BY DEF Closing, Live, TokenAt, Control
<1>4. (NoMessage(x) => NoMessage(y)) /\ (TokenIn(y) => TokenIn(x)) /\ (Free(x) => Free(y))
      /\ (SlaveClosed(x) => SlaveClosed(y))
  <2>1. NoMessage(x) => NoMessage(y)
    BY <1>3 DEF NoMessage
  <2>2. TokenIn(y) => TokenIn(x)
    BY DEF TokenIn
  <2>3. SlaveClosed(x) => SlaveClosed(y)
    BY <1>3 DEF SlaveClosed, Slave, Ends
  <2> QED BY <2>1, <2>2, <2>3 DEF Free
<1>5. WokenFirst(y) /\ Master(y).task # "none"
  <2>1. Master(y).task # "none"
    BY DEF Master, Ends
  <2>2. Slave(y).task = "none" <=> Slave(x).task = "none"
    BY DEF Slave, Ends
  <2> QED BY <2>1, <2>2 DEF WokenFirst
<1>6. OneToken(y)
  <2>1. \A r, p \in y.req : r.op # "write" /\ p.op # "write" => r = p
    BY DEF OneToken
  <2>2. \A a, b \in Ends : \A i \in 1 .. Len(y.net[a]), j \in 1 .. Len(y.net[b]) :
          TokenAt(y, a, i) /\ TokenAt(y, b, j) => a = b /\ i = j
    BY <1>3 DEF OneToken
  <2> QED BY <2>1, <2>2, <1>4 DEF OneToken
<1>7. /\ \A f : OpenFacts(x, f) => OpenFacts(y, f)
      /\ ReadFacts(x) => ReadFacts(y)
      /\ PackageFacts(x) => PackageFacts(y)
  <2>1. ~Master(x).isFdOpen => ~Master(y).isFdOpen
    BY DEF Master, Ends
  <2> QED BY <1>1, <1>2, <1>4, <2>1 DEF OpenFacts, ReadFacts, PackageFacts
<1>8. RequestFacts(y)
  BY <1>1, <1>7 DEF RequestFacts, TransferShape, CtxShape, NetShape, ReqShape, QueueShape
<1>9. MessageFacts(y)
  <2>1. ~Slave(x).isFdOpen => ~Slave(y).isFdOpen
    BY DEF Slave, Ends
  <2>2. \A c : SlaveMessage(x, c) => SlaveMessage(y, c)
    BY <2>1, <1>1, <1>7 DEF SlaveMessage
  <2>3. \A c : MasterMessage(x, c) => MasterMessage(y, c)
    BY <1>1, <1>2, <1>4, <1>7 DEF MasterMessage
  <2> QED BY <2>2, <2>3, <1>3 DEF MessageFacts, Ends
<1>10. Blocks(y)
  <2>1. \A j, n, p : BlockFits(x, j, n, p) => BlockFits(y, j, n, p)
    BY <1>1, <1>2 DEF BlockFits
  <2> QED BY <2>1, <1>1, <1>2 DEF Blocks
<1>11. DiskFits(y)
  BY <1>1, <1>2 DEF DiskFits
<1>12. ErrorsKnown(y)
  BY <1>1, <1>2, <1>4 DEF ErrorsKnown, SlaveErrors
<1>13. FinishMeans(y)
  <2>1. AllDone(x) => AllDone(y)
    BY <1>2 DEF AllDone
  <2>2. \A i : Live(y, "m", i) => Live(x, "m", i)
    BY <1>3 DEF Ends
  <2>3. y.summary = "ok" /\ ~y.emptyFailed => AllDone(y)
    BY <2>1 DEF FinishMeans
  <2>4. ~isApp /\ ~xcfg.shrinks /\ Master(y).task # "none" => \A f \in Files : f > Cur(y) => Done(y, f)
    BY <1>1, <1>2, <1>5 DEF FinishMeans
  <2> QED BY <2>1, <2>2, <2>3, <2>4, <1>1, <1>2 DEF FinishMeans
<1> QED BY <1>5, <1>6, <1>8, <1>9, <1>10, <1>11, <1>12, <1>13

\* A queue of messages is a sequence, whatever the messages are.
LEMMA XferSeq ==
  ASSUME NEW q, Len(q) \in Nat, q = [i \in 1 .. Len(q) |-> q[i]], NEW c
  PROVE  /\ Len(Append(q, c)) = Len(q) + 1 /\ Append(q, c)[Len(q) + 1] = c
         /\ \A i \in 1 .. Len(q) : Append(q, c)[i] = q[i]
         /\ Append(q, c) = [i \in 1 .. (Len(q) + 1) |-> Append(q, c)[i]]
         /\ q # <<>> => /\ Len(Tail(q)) = Len(q) - 1 /\ Len(q) > 0 /\ Head(q) = q[1]
                        /\ \A i \in 1 .. (Len(q) - 1) : Tail(q)[i] = q[i + 1]
                        /\ Tail(q) = [i \in 1 .. (Len(q) - 1) |-> Tail(q)[i]]
<1> DEFINE S == {q[i] : i \in 1 .. Len(q)} \cup {c}
<1>1. q \in [1 .. Len(q) -> S]
  OBVIOUS
<1>2. q \in Seq(S) /\ c \in S
  BY <1>1
<1> HIDE DEF S
<1>3. Append(q, c) \in Seq(S) /\ Len(Append(q, c)) = Len(q) + 1 /\ Append(q, c)[Len(q) + 1] = c
      /\ \A i \in 1 .. Len(q) : Append(q, c)[i] = q[i]
  BY <1>2
<1>4. ASSUME q # <<>>
      PROVE  Tail(q) \in Seq(S) /\ Len(Tail(q)) = Len(q) - 1 /\ Len(q) > 0 /\ Head(q) = q[1]
             /\ \A i \in 1 .. (Len(q) - 1) : Tail(q)[i] = q[i + 1]
  BY <1>2, <1>4
<1>5. \A s \in Seq(S) : s = [i \in 1 .. Len(s) |-> s[i]]
  OBVIOUS
<1> QED BY <1>3, <1>4, <1>5

\* A message that may be sent to b.
MaySend(x, b, c) ==
  /\ c.cmd \in Commands(b) \ {"WAKEUP_SLAVETASK"}
  /\ b = "m" => Slave(x).task # "none"
  /\ ~Closing(x, b) /\ Control(x, b, c) =>
       /\ Free(x) /\ ~x.forkFailed /\ ~Master(x).lastErrno
       /\ IF b = "s" THEN SlaveMessage(x, c) ELSE MasterMessage(x, c)
  /\ c.cmd = "FINISH" =>
       /\ c.arg \in {0, 1} /\ ~isApp
       /\ b = "m" => /\ c.arg = 1 /\ ~Closing(x, "m") /\ ~xcfg.shrinks => Done(x, Cur(x))
                     /\ c.arg = 0 => Master(x).lastErrno
       /\ b = "s" => /\ c.arg = 1 => Master(x).lastErrno
                     /\ c.arg = 0 => AllDone(x)
  /\ c.cmd = "DATA" =>
       /\ Free(x) /\ ~x.forkFailed /\ ~Master(x).lastErrno /\ InQueue(x) /\ SlaveReady(x) /\ MasterReady(x)
       /\ BlockFits(x, c.arg.index, c.arg.n, RecvIOPayload(c.arg.payload))
       /\ \A i \in 1 .. Len(x.net["s"]) : IsData(x, i) => x.net["s"][i].arg.index # c.arg.index
       /\ \A r \in x.req : r.op = "write" => r.index[1] # c.arg.index

\* Appending a message to a queue.
LEMMA XferAppendFacts ==
  ASSUME NEW x, TransferShape(x), NEW b \in Ends, NEW c, c.cmd \in Commands(b)
  PROVE  LET y == [x EXCEPT !.net[b] = Append(@, c)]
             n == Len(x.net[b]) + 1
         IN  /\ TransferShape(y) /\ y.ctx = x.ctx /\ y.req = x.req /\ y.fds = x.fds /\ y.made = x.made
             /\ y.data = x.data /\ y.told = x.told /\ y.summary = x.summary /\ y.forkFailed = x.forkFailed
             /\ y.emptyFailed = x.emptyFailed
             /\ Len(y.net[b]) = n /\ y.net[b][n] = c /\ (\A i \in 1 .. (n - 1) : y.net[b][i] = x.net[b][i])
             /\ \A a \in Ends : a # b => y.net[a] = x.net[a]
             /\ n \in Nat /\ y.net = [x.net EXCEPT ![b] = Append(@, c)]
<1> DEFINE y == [x EXCEPT !.net[b] = Append(@, c)]
           n == Len(x.net[b]) + 1
<1>1. Len(x.net[b]) \in Nat /\ x.net[b] = [i \in 1 .. Len(x.net[b]) |-> x.net[b][i]]
  BY DEF TransferShape, CtxShape, NetShape, ReqShape, QueueShape
<1>2. /\ y.ctx = x.ctx /\ y.req = x.req /\ y.fds = x.fds /\ y.made = x.made
      /\ y.data = x.data /\ y.told = x.told /\ y.summary = x.summary /\ y.forkFailed = x.forkFailed
      /\ y.emptyFailed = x.emptyFailed /\ y.net = [x.net EXCEPT ![b] = Append(@, c)]
      /\ DOMAIN y = DOMAIN x
  BY DEF TransferShape, CtxShape, NetShape, ReqShape, QueueShape, NoTransfer
<1>3. /\ Len(y.net[b]) = n /\ y.net[b][n] = c /\ (\A i \in 1 .. (n - 1) : y.net[b][i] = x.net[b][i])
      /\ \A a \in Ends : a # b => y.net[a] = x.net[a]
      /\ y.net[b] = [i \in 1 .. Len(y.net[b]) |-> y.net[b][i]] /\ n \in Nat
  BY <1>1, <1>2, XferSeq DEF TransferShape, CtxShape, NetShape, ReqShape, QueueShape
<1> HIDE DEF y
<1>4. \A a \in Ends :
        /\ Len(y.net[a]) \in Nat /\ y.net[a] = [i \in 1 .. Len(y.net[a]) |-> y.net[a][i]]
        /\ \A i \in 1 .. Len(y.net[a]) : y.net[a][i].cmd \in Commands(a)
  <2> TAKE a \in Ends
  <2>1. CASE a = b
    <3>1. \A i \in 1 .. Len(y.net[b]) : i \in 1 .. (n - 1) \/ i = n
      BY <1>1, <1>3
    <3>2. \A i \in 1 .. (n - 1) : x.net[b][i].cmd \in Commands(b)
      BY <1>1 DEF TransferShape, CtxShape, NetShape, ReqShape, QueueShape
    <3>3. \A i \in 1 .. Len(y.net[b]) : y.net[b][i].cmd \in Commands(b)
      BY <1>3, <3>1, <3>2
    <3>4. Len(y.net[b]) \in Nat
      BY <1>1, <1>3
    <3> QED BY <1>3, <2>1, <3>3, <3>4
  <2>2. CASE a # b
    BY <1>3, <2>2 DEF TransferShape, CtxShape, NetShape, ReqShape, QueueShape
  <2> QED BY <2>1, <2>2
<1>5. TransferShape(y)
  <2>1. DOMAIN y.net = Ends
    BY <1>2 DEF TransferShape, CtxShape, NetShape, ReqShape, QueueShape
  <2>2. \A a \in Ends : CtxShape(y.ctx[a])
    BY <1>2 DEF TransferShape
  <2>3. \A a \in Ends : NetShape(y.net[a], a)
    BY <1>4 DEF NetShape
  <2>4. Slave(y) = Slave(x) /\ Queue(y) = Queue(x)
    BY <1>2 DEF Slave, Queue, Master
  <2>5. /\ DOMAIN y = DOMAIN NoTransfer /\ DOMAIN y.ctx = Ends /\ DOMAIN y.fds = Ends
        /\ IsFiniteSet(y.req) /\ (\A r \in y.req : ReqShape(r))
        /\ y.forkFailed \in BOOLEAN /\ y.emptyFailed \in BOOLEAN
    BY <1>2 DEF TransferShape
  <2>6. Slave(y).taskQueue = <<>> /\ QueueShape(Queue(y))
    BY <2>4 DEF TransferShape
  <2> HIDE DEF n
  <2> QED BY <2>1, <2>2, <2>3, <2>5, <2>6 DEF TransferShape
<1> QED BY <1>2, <1>3, <1>5 DEF y

\* Sending a message that may be sent keeps the invariant, and is all there is
\* to say about the other queue, the requests and the tasks.
LEMMA XferSend ==
  ASSUME NEW x, Working(x), NEW b \in Ends, NEW c, MaySend(x, b, c)
  PROVE  /\ Working([x EXCEPT !.net[b] = Append(@, c)])
         /\ ~Control(x, b, c) /\ Free(x) => Free([x EXCEPT !.net[b] = Append(@, c)])
<1> USE DEF Working, Core
<1> DEFINE y == [x EXCEPT !.net[b] = Append(@, c)]
           n == Len(x.net[b]) + 1
<1>0. c.cmd \in Commands(b) /\ c.cmd # "WAKEUP_SLAVETASK"
  BY DEF MaySend
<1>1. /\ TransferShape(y) /\ y.ctx = x.ctx /\ y.req = x.req /\ y.fds = x.fds /\ y.made = x.made
      /\ y.data = x.data /\ y.told = x.told /\ y.summary = x.summary /\ y.forkFailed = x.forkFailed
      /\ y.emptyFailed = x.emptyFailed
      /\ Len(y.net[b]) = n /\ y.net[b][n] = c /\ (\A i \in 1 .. (n - 1) : y.net[b][i] = x.net[b][i])
      /\ (\A a \in Ends : a # b => y.net[a] = x.net[a])
      /\ n \in Nat
  BY <1>0, XferAppendFacts
<1>01. n - 1 = Len(x.net[b])
  BY DEF TransferShape, CtxShape, NetShape, ReqShape, QueueShape
<1> HIDE DEF y, n
<1>2. \A a \in Ends : \A i \in 1 .. Len(y.net[a]) :
        \/ i \in 1 .. Len(x.net[a]) /\ y.net[a][i] = x.net[a][i]
        \/ a = b /\ i = n /\ y.net[a][i] = c /\ i \notin 1 .. Len(x.net[a])
  BY <1>1, <1>01
<1>3. \A a \in Ends : \A i \in 1 .. Len(x.net[a]) : i \in 1 .. Len(y.net[a]) /\ y.net[a][i] = x.net[a][i]
  BY <1>1, <1>01
<1>4. /\ Master(y) = Master(x) /\ Slave(y) = Slave(x) /\ Queue(y) = Queue(x) /\ Cur(y) = Cur(x)
      /\ (InQueue(y) <=> InQueue(x)) /\ (MasterReady(y) <=> MasterReady(x))
      /\ (SlaveReady(y) <=> SlaveReady(x)) /\ (Begun(y) <=> Begun(x))
      /\ (\A f : Arrived(y, f) = Arrived(x, f)) /\ (\A f : Done(y, f) <=> Done(x, f))
      /\ (TokenIn(y) <=> TokenIn(x)) /\ (AllDone(y) <=> AllDone(x))
  BY <1>1 DEF Master, Slave, Queue, Cur, InQueue, MasterReady, SlaveReady, Begun, Arrived, Done, TokenIn, AllDone
<1>5. \A a \in Ends : \A i \in 1 .. Len(x.net[a]) :
        (Live(y, a, i) <=> Live(x, a, i)) /\ (TokenAt(y, a, i) <=> TokenAt(x, a, i))
  <2> TAKE a \in Ends
  <2> TAKE i \in 1 .. Len(x.net[a])
  <2>1. Live(y, a, i) <=> Live(x, a, i)
    <3>1. \A j \in 1 .. (i - 1) : j \in 1 .. Len(x.net[a])
      BY DEF TransferShape, CtxShape, NetShape, ReqShape, QueueShape
    <3> QED BY <1>1, <1>3, <3>1 DEF Live
  <2> QED BY <1>3, <1>4, <2>1 DEF TokenAt, Control
<1>6. /\ Live(y, b, n) <=> ~Closing(x, b)
      /\ TokenAt(y, b, n) <=> ~Closing(x, b) /\ Control(x, b, c)
  <2>1. Live(y, b, n) <=> ~Closing(x, b)
    BY <1>1, <1>01 DEF Live, Closing
  <2>2. n \in 1 .. Len(y.net[b])
    BY <1>1, <1>01 DEF TransferShape, CtxShape, NetShape, ReqShape, QueueShape
  <2> QED BY <1>1, <1>4, <2>1, <2>2 DEF TokenAt, Control
<1>7. \A a \in Ends : Closing(x, a) => Closing(y, a)
  BY <1>1, <1>3 DEF Closing
<1>8. SlaveClosed(x) => SlaveClosed(y)
  BY <1>4, <1>7 DEF SlaveClosed, Ends
<1>9. WokenFirst(y)
  <2>1. Slave(y).task = "none" => y.net["m"] = <<>>
    <3>1. Slave(y).task = "none" => b = "s" /\ x.net["m"] = <<>>
      BY <1>4 DEF MaySend, WokenFirst, Ends
    <3> QED BY <1>1, <3>1 DEF Ends
  <2>2. Slave(y).task = "none" => y.net["s"] # <<>> /\ y.net["s"][1].cmd = "WAKEUP_SLAVETASK"
    <3> SUFFICES ASSUME Slave(y).task = "none" PROVE y.net["s"] # <<>> /\ y.net["s"][1].cmd = "WAKEUP_SLAVETASK"
      OBVIOUS
    <3>1. x.net["s"] # <<>> /\ x.net["s"][1].cmd = "WAKEUP_SLAVETASK"
      BY <1>4 DEF WokenFirst
    <3>2. Len(x.net["s"]) \in Nat /\ x.net["s"] = [i \in 1 .. Len(x.net["s"]) |-> x.net["s"][i]]
      BY DEF TransferShape, CtxShape, NetShape, ReqShape, QueueShape, Ends
    <3>3. 1 \in 1 .. Len(x.net["s"])
      BY <3>1, <3>2, XferSeq
    <3>4. 1 \in 1 .. Len(y.net["s"]) /\ y.net["s"][1] = x.net["s"][1]
      BY <1>3, <3>3 DEF Ends
    <3>5. y.net["s"] # <<>>
      BY <3>4
    <3> QED BY <3>1, <3>4, <3>5
  <2>3. \A i \in 1 .. Len(y.net["s"]) : y.net["s"][i].cmd = "WAKEUP_SLAVETASK" => i = 1 /\ Slave(y).task = "none"
    BY <1>0, <1>2, <1>4 DEF WokenFirst, Ends
  <2>4. Master(y).task # "none" /\ (Slave(y).task = "none" => \A r \in y.req : r.end = "m")
    BY <1>1, <1>4 DEF WokenFirst
  <2> QED BY <2>1, <2>2, <2>3, <2>4 DEF WokenFirst
<1>10. OneFile(y)
  BY <1>1, ZenonT(40) DEF OneFile
<1>100. \A a \in Ends : \A i \in 1 .. Len(y.net[a]) : TokenAt(y, a, i) =>
          \/ i \in 1 .. Len(x.net[a]) /\ TokenAt(x, a, i) /\ y.net[a][i] = x.net[a][i]
          \/ a = b /\ i = n /\ ~Closing(x, b) /\ Control(x, b, c)
  <2> TAKE a \in Ends
  <2> TAKE i \in 1 .. Len(y.net[a])
  <2>1. CASE i \in 1 .. Len(x.net[a]) /\ y.net[a][i] = x.net[a][i]
    BY <1>5, <2>1
  <2>2. CASE a = b /\ i = n
    BY <1>6, <2>2
  <2> QED BY <1>2, <2>1, <2>2
<1>11. ASSUME ~(~Closing(x, b) /\ Control(x, b, c)) PROVE (NoMessage(x) => NoMessage(y))
  BY <1>100, <1>11 DEF NoMessage
<1>12. ASSUME ~Closing(x, b) /\ Control(x, b, c)
       PROVE  OneToken(y) /\ RequestFacts(y) /\ MessageFacts(y) /\ Blocks(y) /\ ErrorsKnown(y)
  <2>1. /\ Free(x) /\ ~x.forkFailed /\ ~Master(x).lastErrno /\ c.cmd # "DATA"
        /\ IF b = "s" THEN SlaveMessage(x, c) ELSE MasterMessage(x, c)
    BY <1>12 DEF MaySend, Control
  <2>2. \A a \in Ends : \A i \in 1 .. Len(y.net[a]) : TokenAt(y, a, i) => a = b /\ i = n
    BY <1>100, <2>1 DEF Free, NoMessage
  <2>3. OneToken(y)
    BY <1>1, <1>4, <2>1, <2>2 DEF OneToken, Free, TokenIn
  <2>4. NoData(x) => NoData(y)
    BY <1>1, <1>2, <2>1 DEF NoData, IsData, Ends
  <2>5. RequestFacts(y)
    BY <1>1, <2>1 DEF RequestFacts, Free, TokenIn
  <2>6. MessageFacts(y)
    <3>1. /\ \A f : OpenFacts(x, f) => OpenFacts(y, f)
          /\ ReadFacts(x) => ReadFacts(y)
          /\ PackageFacts(x) => PackageFacts(y)
      BY <1>1, <1>4, <1>8, <2>4 DEF OpenFacts, ReadFacts, PackageFacts
    <3>2. IF b = "s" THEN SlaveMessage(y, c) ELSE MasterMessage(y, c)
      BY <1>4, <1>8, <2>1, <2>4, <3>1 DEF SlaveMessage, MasterMessage
    <3> QED BY <1>1, <2>2, <3>2 DEF MessageFacts, Ends
  <2>7. Blocks(y)
    <3>1. \A i \in 1 .. Len(y.net["s"]) : IsData(y, i) => i \in 1 .. Len(x.net["s"]) /\ IsData(x, i) /\ y.net["s"][i] = x.net["s"][i]
      BY <1>2, <2>1 DEF IsData, Ends
    <3>2. \A j, k, p : BlockFits(x, j, k, p) => BlockFits(y, j, k, p)
      BY <1>1, <1>4 DEF BlockFits
    <3>3. \A i \in 1 .. Len(y.net["s"]) : IsData(y, i) =>
            BlockFits(y, y.net["s"][i].arg.index, y.net["s"][i].arg.n, RecvIOPayload(y.net["s"][i].arg.payload))
      BY <3>1, <3>2 DEF Blocks
    <3>4. \A i, j \in 1 .. Len(y.net["s"]) :
            IsData(y, i) /\ IsData(y, j) /\ y.net["s"][i].arg.index = y.net["s"][j].arg.index => i = j
      BY <3>1, SMTT(30) DEF Blocks
    <3>5. \A r \in y.req : r.op = "write" =>
            /\ r.file = Cur(y) /\ r.index = <<r.index[1], r.index[2], r.index[3]>>
            /\ BlockFits(y, r.index[1], r.index[2], r.index[3])
            /\ \A i \in 1 .. Len(y.net["s"]) : IsData(y, i) => y.net["s"][i].arg.index # r.index[1]
      BY <1>1, <1>4, <3>1, <3>2 DEF Blocks
    <3>6. \A r, p \in y.req : r.op = "write" /\ p.op = "write" /\ r.index[1] = p.index[1] => r = p
      BY <1>1 DEF Blocks
    <3>7. ~NoData(y) => InQueue(y) /\ SlaveReady(y) /\ MasterReady(y)
      BY <1>4, <2>4 DEF Blocks
    <3> QED BY <3>3, <3>4, <3>5, <3>6, <3>7 DEF Blocks
  <2>8. ErrorsKnown(y)
    BY <1>1, <1>4, <1>7, <2>1 DEF ErrorsKnown, Ends
  <2> QED BY <2>3, <2>5, <2>6, <2>7, <2>8
<1>13. ASSUME ~(~Closing(x, b) /\ Control(x, b, c)) /\ c.cmd # "DATA"
       PROVE  OneToken(y) /\ RequestFacts(y) /\ MessageFacts(y) /\ Blocks(y) /\ ErrorsKnown(y)
  <2>1. \A a \in Ends : \A i \in 1 .. Len(y.net[a]) : TokenAt(y, a, i) =>
          i \in 1 .. Len(x.net[a]) /\ TokenAt(x, a, i) /\ y.net[a][i] = x.net[a][i]
    BY <1>100, <1>13
  <2>2. (NoMessage(x) => NoMessage(y)) /\ (Free(x) => Free(y))
    BY <1>4, <1>11, <1>13 DEF Free
  <2>3. OneToken(y)
    BY <1>1, <1>4, <2>1, <2>2 DEF OneToken
  <2>4. NoData(x) <=> NoData(y)
    <3>1. NoData(x) => NoData(y)
      BY <1>1, <1>2, <1>13 DEF NoData, IsData, Ends
    <3>2. NoData(y) => NoData(x)
      BY <1>1, <1>3 DEF NoData, IsData, Ends
    <3> QED BY <3>1, <3>2
  <2>5. /\ \A f : OpenFacts(x, f) => OpenFacts(y, f)
        /\ ReadFacts(x) => ReadFacts(y)
        /\ PackageFacts(x) => PackageFacts(y)
    BY <1>1, <1>4, <1>8, <2>4 DEF OpenFacts, ReadFacts, PackageFacts
  <2>6. RequestFacts(y)
    BY <1>1, <1>4, <2>5 DEF RequestFacts
  <2>7. MessageFacts(y)
    <3>1. \A d : SlaveMessage(x, d) => SlaveMessage(y, d)
      BY <1>4, <2>5 DEF SlaveMessage
    <3>2. \A d : MasterMessage(x, d) => MasterMessage(y, d)
      BY <1>4, <1>8, <2>4, <2>5 DEF MasterMessage
    <3> QED BY <2>1, <3>1, <3>2 DEF MessageFacts, Ends
  <2>8. Blocks(y)
    <3>1. \A i \in 1 .. Len(y.net["s"]) : IsData(y, i) => i \in 1 .. Len(x.net["s"]) /\ IsData(x, i) /\ y.net["s"][i] = x.net["s"][i]
      BY <1>2, <1>13 DEF IsData, Ends
    <3>2. \A j, k, p : BlockFits(x, j, k, p) => BlockFits(y, j, k, p)
      BY <1>1, <1>4 DEF BlockFits
    <3>3. \A i \in 1 .. Len(y.net["s"]) : IsData(y, i) =>
            BlockFits(y, y.net["s"][i].arg.index, y.net["s"][i].arg.n, RecvIOPayload(y.net["s"][i].arg.payload))
      BY <3>1, <3>2 DEF Blocks
    <3>4. \A i, j \in 1 .. Len(y.net["s"]) :
            IsData(y, i) /\ IsData(y, j) /\ y.net["s"][i].arg.index = y.net["s"][j].arg.index => i = j
      BY <3>1 DEF Blocks
    <3>5. \A r \in y.req : r.op = "write" =>
            /\ r.file = Cur(y) /\ r.index = <<r.index[1], r.index[2], r.index[3]>>
            /\ BlockFits(y, r.index[1], r.index[2], r.index[3])
            /\ \A i \in 1 .. Len(y.net["s"]) : IsData(y, i) => y.net["s"][i].arg.index # r.index[1]
      BY <1>1, <1>4, <3>1, <3>2 DEF Blocks
    <3>6. \A r, p \in y.req : r.op = "write" /\ p.op = "write" /\ r.index[1] = p.index[1] => r = p
      BY <1>1 DEF Blocks
    <3>7. ~NoData(y) => InQueue(y) /\ SlaveReady(y) /\ MasterReady(y)
      BY <1>4, <2>4 DEF Blocks
    <3> QED BY <3>3, <3>4, <3>5, <3>6, <3>7 DEF Blocks
  <2>9. ErrorsKnown(y)
    BY <1>1, <1>4, <1>7, <2>2, <2>4 DEF ErrorsKnown, Ends
  <2> QED BY <2>3, <2>6, <2>7, <2>8, <2>9
<1>14. ASSUME c.cmd = "DATA"
       PROVE  OneToken(y) /\ RequestFacts(y) /\ MessageFacts(y) /\ Blocks(y) /\ ErrorsKnown(y)
  <2>0. /\ Free(x) /\ ~x.forkFailed /\ ~Master(x).lastErrno /\ InQueue(x) /\ SlaveReady(x) /\ MasterReady(x)
        /\ BlockFits(x, c.arg.index, c.arg.n, RecvIOPayload(c.arg.payload))
        /\ \A i \in 1 .. Len(x.net["s"]) : IsData(x, i) => x.net["s"][i].arg.index # c.arg.index
        /\ \A r \in x.req : r.op = "write" => r.index[1] # c.arg.index
    BY <1>14 DEF MaySend
  <2>1. b = "s" /\ ~Control(x, b, c)
    BY <1>0, <1>14, XferEnds DEF Commands, ToMasterCommands, Control
  <2>2. NoMessage(y) /\ Free(y)
    BY <1>4, <1>11, <2>0, <2>1 DEF Free
  <2>3. OneToken(y) /\ RequestFacts(y) /\ MessageFacts(y)
    <3>1. OneToken(y)
      BY <2>2 DEF OneToken, Free, TokenIn, NoMessage
    <3>2. RequestFacts(y)
      BY <2>2 DEF RequestFacts, Free, TokenIn
    <3>3. MessageFacts(y)
      BY <2>2 DEF MessageFacts, Free, NoMessage, Ends
    <3> QED BY <3>1, <3>2, <3>3
  <2>4. Blocks(y)
    <3>1. \A i \in 1 .. Len(y.net["s"]) : IsData(y, i) =>
            \/ i \in 1 .. Len(x.net["s"]) /\ IsData(x, i) /\ y.net["s"][i] = x.net["s"][i]
            \/ i = n /\ y.net["s"][i] = c
      BY <1>2, <2>1 DEF IsData, Ends
    <3>2. \A j, k, p : BlockFits(x, j, k, p) => BlockFits(y, j, k, p)
      BY <1>1, <1>4 DEF BlockFits
    <3>3. \A i \in 1 .. Len(y.net["s"]) : IsData(y, i) =>
            BlockFits(y, y.net["s"][i].arg.index, y.net["s"][i].arg.n, RecvIOPayload(y.net["s"][i].arg.payload))
      BY <2>0, <3>1, <3>2 DEF Blocks
    <3>4. \A i, j \in 1 .. Len(y.net["s"]) :
            IsData(y, i) /\ IsData(y, j) /\ y.net["s"][i].arg.index = y.net["s"][j].arg.index => i = j
      BY <2>0, <3>1 DEF Blocks
    <3>5. \A r \in y.req : r.op = "write" =>
            /\ r.file = Cur(y) /\ r.index = <<r.index[1], r.index[2], r.index[3]>>
            /\ BlockFits(y, r.index[1], r.index[2], r.index[3])
            /\ \A i \in 1 .. Len(y.net["s"]) : IsData(y, i) => y.net["s"][i].arg.index # r.index[1]
      BY <1>1, <1>4, <2>0, <3>1, <3>2 DEF Blocks
    <3>6. \A r, p \in y.req : r.op = "write" /\ p.op = "write" /\ r.index[1] = p.index[1] => r = p
      BY <1>1 DEF Blocks
    <3> QED BY <1>4, <2>0, <3>3, <3>4, <3>5, <3>6 DEF Blocks
  <2>5. ErrorsKnown(y)
    BY <1>1, <1>4, <1>7, <2>0 DEF ErrorsKnown, Ends
  <2> QED BY <2>3, <2>4, <2>5
<1>15. DiskFits(y)
  BY <1>1, <1>4 DEF DiskFits
<1>16. FinishMeans(y)
  <2>1. \A i \in 1 .. Len(y.net["m"]) : y.net["m"][i].cmd = "FINISH" =>
       /\ y.net["m"][i].arg \in {0, 1} /\ ~isApp
       /\ y.net["m"][i].arg = 1 /\ Live(y, "m", i) /\ ~xcfg.shrinks => Done(y, Cur(y))
       /\ y.net["m"][i].arg = 0 => Master(y).lastErrno
    <3> SUFFICES ASSUME NEW i \in 1 .. Len(y.net["m"]), y.net["m"][i].cmd = "FINISH"
                 PROVE  /\ y.net["m"][i].arg \in {0, 1} /\ ~isApp
                        /\ y.net["m"][i].arg = 1 /\ Live(y, "m", i) /\ ~xcfg.shrinks => Done(y, Cur(y))
                        /\ y.net["m"][i].arg = 0 => Master(y).lastErrno
      OBVIOUS
    <3>1. CASE i \in 1 .. Len(x.net["m"]) /\ y.net["m"][i] = x.net["m"][i]
      BY <1>4, <1>5, <3>1 DEF FinishMeans, Ends
    <3>2. CASE "m" = b /\ i = n /\ y.net["m"][i] = c
      BY <1>4, <1>6, <3>2 DEF MaySend
    <3> QED BY <1>2, <3>1, <3>2 DEF Ends
  <2>2. \A i \in 1 .. Len(y.net["s"]) : y.net["s"][i].cmd = "FINISH" =>
       /\ y.net["s"][i].arg \in {0, 1} /\ ~isApp
       /\ y.net["s"][i].arg = 1 => Master(y).lastErrno
       /\ y.net["s"][i].arg = 0 => AllDone(y)
    <3> SUFFICES ASSUME NEW i \in 1 .. Len(y.net["s"]), y.net["s"][i].cmd = "FINISH"
                 PROVE  /\ y.net["s"][i].arg \in {0, 1} /\ ~isApp
                        /\ y.net["s"][i].arg = 1 => Master(y).lastErrno
                        /\ y.net["s"][i].arg = 0 => AllDone(y)
      OBVIOUS
    <3>1. CASE i \in 1 .. Len(x.net["s"]) /\ y.net["s"][i] = x.net["s"][i]
      BY <1>4, <3>1 DEF FinishMeans
    <3>2. CASE "s" = b /\ i = n /\ y.net["s"][i] = c
      BY <1>4, <3>2 DEF MaySend
    <3> QED BY <1>2, <3>1, <3>2 DEF Ends
  <2>3. y.summary = "ok" /\ ~y.emptyFailed => AllDone(y)
    BY <1>1, <1>4 DEF FinishMeans
  <2>4. ~isApp /\ ~xcfg.shrinks /\ Master(y).task # "none" => \A f \in Files : f > Cur(y) => Done(y, f)
    BY <1>4 DEF FinishMeans
  <2> QED BY <2>1, <2>2, <2>3, <2>4 DEF FinishMeans
<1>17. OneToken(y) /\ RequestFacts(y) /\ MessageFacts(y) /\ Blocks(y) /\ ErrorsKnown(y)
  BY <1>12, <1>13, <1>14
<1>18. ~Control(x, b, c) /\ Free(x) => Free(y)
  BY <1>4, <1>11 DEF Free
<1> QED BY <1>1, <1>4, <1>9, <1>10, <1>15, <1>16, <1>17, <1>18 DEF y

\* The part of a task that the invariant speaks of, without its stage.
Kept(c, d) ==
  /\ d.isFdOpen = c.isFdOpen /\ d.openFd = c.openFd /\ d.fileSize = c.fileSize /\ d.indexIO = c.indexIO
  /\ d.ioFinish = c.ioFinish /\ d.lastErrno = c.lastErrno /\ d.closeNotify = c.closeNotify
  /\ d.singalStop = c.singalStop /\ d.taskQueue = c.taskQueue
SameDisk(x, y) == /\ y.fds = x.fds /\ y.made = x.made /\ y.data = x.data /\ y.told = x.told
                  /\ y.summary = x.summary /\ y.forkFailed = x.forkFailed /\ y.emptyFailed = x.emptyFailed

\* Taking the first message of a queue; what it was the token for is free now.
LEMMA XferPop ==
  ASSUME NEW x, Working(x), NEW a \in Ends, x.net[a] # <<>>,
         x.net[a][1].cmd = "CHANNEL_CLOSE" => x.ctx[a].task \notin {"none", "run"},
         NEW y, TransferShape(y), y.req = x.req, SameDisk(x, y), y.net = [x.net EXCEPT ![a] = Tail(@)],
         \A e \in Ends : Kept(x.ctx[e], y.ctx[e]) /\ (e # a => y.ctx[e].task = x.ctx[e].task),
         \/ y.ctx[a].task = x.ctx[a].task /\ x.ctx[a].task # "none"
         \/ a = "s" /\ x.ctx[a].task = "none" /\ y.ctx[a].task = "run"
  PROVE  /\ Working(y) /\ (NoData(x) => NoData(y)) /\ (\A e \in Ends : Closing(x, e) => Closing(y, e))
         /\ TokenAt(x, a, 1) => /\ Free(y) /\ ~y.forkFailed /\ ~Master(y).lastErrno
                                /\ IF a = "s" THEN SlaveMessage(y, x.net[a][1]) ELSE MasterMessage(y, x.net[a][1])
<1> USE DEF Working, Core
<1>1. /\ Len(x.net[a]) \in Nat /\ Len(x.net[a]) > 0 /\ Len(y.net[a]) = Len(x.net[a]) - 1
      /\ \A i \in 1 .. Len(y.net[a]) : y.net[a][i] = x.net[a][i + 1] /\ i + 1 \in 1 .. Len(x.net[a])
      /\ \A e \in Ends : e # a => y.net[e] = x.net[e]
  <2>1. Len(x.net[a]) \in Nat /\ x.net[a] = [i \in 1 .. Len(x.net[a]) |-> x.net[a][i]]
    BY DEF TransferShape, CtxShape, NetShape, ReqShape, QueueShape
  <2>2. y.net[a] = Tail(x.net[a]) /\ \A e \in Ends : e # a => y.net[e] = x.net[e]
    BY DEF TransferShape, CtxShape, NetShape, ReqShape, QueueShape
  <2>3. Len(Tail(x.net[a])) = Len(x.net[a]) - 1 /\ Len(x.net[a]) > 0
        /\ \A i \in 1 .. (Len(x.net[a]) - 1) : Tail(x.net[a])[i] = x.net[a][i + 1]
    BY <2>1, XferSeq
  <2>4. y.net[a] = Tail(x.net[a]) /\ Len(y.net[a]) = Len(x.net[a]) - 1
    BY <2>2, <2>3
  <2>5. \A i \in 1 .. Len(y.net[a]) : i \in 1 .. (Len(x.net[a]) - 1) /\ i + 1 \in 1 .. Len(x.net[a])
    BY <2>1, <2>4
  <2> QED BY <2>1, <2>2, <2>3, <2>4, <2>5
<1> DEFINE At(e, i) == IF e = a THEN i + 1 ELSE i
<1>2. \A e \in Ends : \A i \in 1 .. Len(y.net[e]) :
        At(e, i) \in 1 .. Len(x.net[e]) /\ y.net[e][i] = x.net[e][At(e, i)]
  BY <1>1
<1>3. \A e \in Ends : \A i, j \in 1 .. Len(y.net[e]) : At(e, i) = At(e, j) => i = j
  OBVIOUS
<1>4. /\ Cur(y) = Cur(x) /\ Queue(y) = Queue(x)
      /\ (InQueue(y) <=> InQueue(x)) /\ (MasterReady(y) <=> MasterReady(x))
      /\ (SlaveReady(y) <=> SlaveReady(x)) /\ (Begun(y) <=> Begun(x))
      /\ (\A f : Arrived(y, f) = Arrived(x, f)) /\ (\A f : Done(y, f) <=> Done(x, f))
      /\ (TokenIn(y) <=> TokenIn(x)) /\ (AllDone(y) <=> AllDone(x))
      /\ Kept(Master(x), Master(y)) /\ Kept(Slave(x), Slave(y))
  <2>1. Kept(Master(x), Master(y)) /\ Kept(Slave(x), Slave(y))
    BY DEF Master, Slave, Ends
  <2>2. Cur(y) = Cur(x) /\ Queue(y) = Queue(x) /\ (InQueue(y) <=> InQueue(x))
    BY <2>1 DEF Kept, Cur, Queue, InQueue
  <2>3. (\A f : Arrived(y, f) = Arrived(x, f)) /\ (\A f : Done(y, f) <=> Done(x, f)) /\ (AllDone(y) <=> AllDone(x))
    BY DEF SameDisk, Arrived, Done, AllDone
  <2> QED BY <2>1, <2>2, <2>3 DEF Kept, SameDisk, MasterReady, SlaveReady, Begun, TokenIn
<1>5. \A e \in Ends : \A i \in 1 .. Len(y.net[e]) :
        (Live(y, e, i) => Live(x, e, At(e, i))) /\ (TokenAt(y, e, i) => TokenAt(x, e, At(e, i)))
  <2> TAKE e \in Ends
  <2> TAKE i \in 1 .. Len(y.net[e])
  <2>1. ASSUME Live(y, e, i) PROVE Live(x, e, At(e, i))
    <3>1. x.ctx[e].task \in {"none", "run"}
      BY <2>1 DEF Live
    <3>2. CASE e # a
      BY <1>1, <2>1, <3>1, <3>2 DEF Live
    <3>3. CASE e = a
      <4> SUFFICES ASSUME NEW j \in 1 .. i PROVE x.net[a][j].cmd # "CHANNEL_CLOSE"
        BY <3>1, <3>3 DEF Live
      <4>1. CASE j = 1
        BY <3>1, <3>3, <4>1
      <4>2. CASE j # 1
        <5>1. j - 1 \in 1 .. (i - 1) /\ j - 1 \in 1 .. Len(y.net[a])
          BY <3>3, <4>2, <1>1
        <5>2. y.net[a][j - 1].cmd # "CHANNEL_CLOSE" /\ y.net[a][j - 1] = x.net[a][j - 1 + 1]
          BY <2>1, <3>3, <5>1, <1>1 DEF Live
        <5>3. j - 1 + 1 = j
          OBVIOUS
        <5> QED BY <5>2, <5>3
      <4> QED BY <4>1, <4>2
    <3> QED BY <3>2, <3>3
  <2>2. \A c : Control(y, e, c) => Control(x, e, c)
    BY <1>4 DEF Control
  <2> QED BY <1>2, <2>1, <2>2 DEF TokenAt
<1> HIDE DEF At
<1>6. \A e \in Ends : Closing(x, e) => Closing(y, e)
  <2> SUFFICES ASSUME NEW e \in Ends, Closing(x, e), y.ctx[e].task \in {"none", "run"} PROVE Closing(y, e)
    BY DEF Closing
  <2>1. x.ctx[e].task \in {"none", "run"}
    OBVIOUS
  <2>2. PICK i \in 1 .. Len(x.net[e]) : x.net[e][i].cmd = "CHANNEL_CLOSE"
    BY <2>1 DEF Closing
  <2>3. CASE e # a
    BY <1>1, <2>2, <2>3 DEF Closing
  <2>4. CASE e = a
    <3>1. i # 1
      BY <2>1, <2>2, <2>4
    <3>2. i - 1 \in 1 .. Len(y.net[a]) /\ y.net[a][i - 1] = x.net[a][i - 1 + 1] /\ i - 1 + 1 = i
      BY <1>1, <2>4, <3>1
    <3> QED BY <2>2, <2>4, <3>2, ZenonT(40) DEF Closing
  <2> QED BY <2>3, <2>4
<1>7. SlaveClosed(x) => SlaveClosed(y)
  BY <1>4, <1>6 DEF SlaveClosed, Ends, Kept
<1>8. (NoMessage(x) => NoMessage(y)) /\ (Free(x) => Free(y))
  BY <1>2, <1>4, <1>5 DEF NoMessage, Free
<1>9. TokenAt(x, a, 1) => Free(y)
  <2> SUFFICES ASSUME TokenAt(x, a, 1) PROVE Free(y)
    OBVIOUS
  <2>1. 1 \in 1 .. Len(x.net[a])
    BY <1>1
  <2>2. ~TokenIn(x)
    BY <2>1 DEF OneToken, NoMessage
  <2>3. ASSUME NEW e \in Ends, NEW i \in 1 .. Len(y.net[e]), TokenAt(y, e, i) PROVE FALSE
    <3>1. TokenAt(x, e, At(e, i)) /\ At(e, i) \in 1 .. Len(x.net[e])
      BY <1>2, <1>5, <2>3
    <3>2. e = a /\ At(e, i) = 1
      BY <2>1, <3>1 DEF OneToken
    <3> QED BY <3>2 DEF At
  <2> QED BY <1>4, <2>2, <2>3 DEF Free, NoMessage
<1>10. WokenFirst(y) /\ Master(y).task # "none"
  <2>0. Master(y).task # "none"
    BY DEF Master, Ends
  <2>1. Slave(y).task = "none" => /\ Slave(x).task = "none" /\ a = "m"
    BY XferEnds DEF Slave
  <2>2. Slave(x).task = "none" => x.net["m"] = <<>> /\ (\A r \in x.req : r.end = "m")
    BY DEF WokenFirst
  <2>3. Slave(y).task # "none"
    BY <2>1, <2>2
  <2>4. \A i \in 1 .. Len(y.net["s"]) : y.net["s"][i].cmd # "WAKEUP_SLAVETASK"
    <3> SUFFICES ASSUME NEW i \in 1 .. Len(y.net["s"]), y.net["s"][i].cmd = "WAKEUP_SLAVETASK" PROVE FALSE
      OBVIOUS
    <3>1. At("s", i) \in 1 .. Len(x.net["s"]) /\ x.net["s"][At("s", i)].cmd = "WAKEUP_SLAVETASK"
      BY <1>2 DEF Ends
    <3>2. At("s", i) = 1 /\ Slave(x).task = "none"
      BY <3>1 DEF WokenFirst
    <3>3. a = "s"
      BY <2>2, <3>2, XferEnds
    <3> QED BY <3>2, <3>3 DEF At
  <2> QED BY <2>0, <2>3, <2>4 DEF WokenFirst
<1>11. OneFile(y)
  <2>1. \A e \in Ends : y.ctx[e].task = "deleted" => x.ctx[e].task = "deleted"
    OBVIOUS
  <2>2. \A e \in Ends : /\ y.ctx[e].isFdOpen = x.ctx[e].isFdOpen /\ y.ctx[e].openFd = x.ctx[e].openFd
                        /\ y.ctx[e].ioFinish = x.ctx[e].ioFinish
    BY DEF Kept
  <2> SUFFICES ASSUME NEW e \in Ends
               PROVE  /\ y.fds[e] = IF y.ctx[e].isFdOpen THEN {y.ctx[e].openFd} ELSE {}
                      /\ y.ctx[e].ioFinish => ~y.ctx[e].isFdOpen
                      /\ y.ctx[e].task = "deleted" => ~y.ctx[e].isFdOpen /\ \A r \in y.req : r.end # e
    BY DEF OneFile
  <2>3. /\ x.fds[e] = IF x.ctx[e].isFdOpen THEN {x.ctx[e].openFd} ELSE {}
        /\ x.ctx[e].ioFinish => ~x.ctx[e].isFdOpen
        /\ x.ctx[e].task = "deleted" => ~x.ctx[e].isFdOpen /\ \A r \in x.req : r.end # e
    BY DEF OneFile
  <2> QED BY <2>1, <2>2, <2>3 DEF SameDisk
<1>12. OneToken(y)
  <2>1. \A d, e \in Ends : \A i \in 1 .. Len(y.net[d]), j \in 1 .. Len(y.net[e]) :
       TokenAt(y, d, i) /\ TokenAt(y, e, j) => d = e /\ i = j
    <3> TAKE d, e \in Ends
    <3> TAKE i \in 1 .. Len(y.net[d]), j \in 1 .. Len(y.net[e])
    <3> HAVE TokenAt(y, d, i) /\ TokenAt(y, e, j)
    <3>1. TokenAt(x, d, At(d, i)) /\ At(d, i) \in 1 .. Len(x.net[d])
      BY <1>2, <1>5
    <3>2. TokenAt(x, e, At(e, j)) /\ At(e, j) \in 1 .. Len(x.net[e])
      BY <1>2, <1>5
    <3>3. d = e /\ At(d, i) = At(e, j)
      BY <3>1, <3>2 DEF OneToken
    <3> QED BY <1>3, <3>3
  <2> QED BY <1>4, <1>8, <2>1 DEF OneToken
<1>13. NoData(x) => NoData(y)
  BY <1>2 DEF NoData, IsData, Ends
<1>14. /\ \A f : OpenFacts(x, f) => OpenFacts(y, f)
       /\ ReadFacts(x) => ReadFacts(y)
       /\ PackageFacts(x) => PackageFacts(y)
  BY <1>4, <1>7, <1>13 DEF OpenFacts, ReadFacts, PackageFacts, Kept, SameDisk
<1>15. RequestFacts(y)
  <2>1. \A e \in Ends : y.ctx[e].isFdOpen = x.ctx[e].isFdOpen
    BY DEF Kept
  <2> QED BY <1>4, <1>14, <2>1 DEF RequestFacts, Kept, TransferShape, CtxShape, NetShape, ReqShape, QueueShape
<1>16. MessageFacts(y)
  <2>1. \A d : SlaveMessage(x, d) => SlaveMessage(y, d)
    BY <1>4, <1>14 DEF SlaveMessage, Kept
  <2>2. \A d : MasterMessage(x, d) => MasterMessage(y, d)
    BY <1>4, <1>7, <1>13, <1>14 DEF MasterMessage, Kept
  <2> QED BY <1>2, <1>5, <2>1, <2>2 DEF MessageFacts, Ends
<1>160. TokenAt(x, a, 1) => /\ ~y.forkFailed /\ ~Master(y).lastErrno
                            /\ IF a = "s" THEN SlaveMessage(y, x.net[a][1]) ELSE MasterMessage(y, x.net[a][1])
  <2> SUFFICES ASSUME TokenAt(x, a, 1)
               PROVE  /\ ~y.forkFailed /\ ~Master(y).lastErrno
                      /\ IF a = "s" THEN SlaveMessage(y, x.net[a][1]) ELSE MasterMessage(y, x.net[a][1])
    OBVIOUS
  <2>1. \A d : SlaveMessage(x, d) => SlaveMessage(y, d)
    BY <1>4, <1>14 DEF SlaveMessage, Kept
  <2>2. \A d : MasterMessage(x, d) => MasterMessage(y, d)
    BY <1>4, <1>7, <1>13, <1>14 DEF MasterMessage, Kept
  <2>3. 1 \in 1 .. Len(x.net[a]) /\ ~Free(x)
    BY <1>1 DEF Free, NoMessage
  <2>4. ~x.forkFailed /\ ~Master(x).lastErrno
    BY <2>3, SMTT(30) DEF ErrorsKnown
  <2> QED BY <1>4, <2>1, <2>2, <2>3, <2>4, XferEnds DEF MessageFacts, SameDisk, Kept
<1>17. Blocks(y)
  <2>1. \A i \in 1 .. Len(y.net["s"]) : IsData(y, i) =>
          At("s", i) \in 1 .. Len(x.net["s"]) /\ IsData(x, At("s", i)) /\ y.net["s"][i] = x.net["s"][At("s", i)]
    BY <1>2 DEF IsData, Ends
  <2>2. \A j, k, p : BlockFits(x, j, k, p) => BlockFits(y, j, k, p)
    BY <1>4 DEF BlockFits, Kept
  <2>3. \A i \in 1 .. Len(y.net["s"]) : IsData(y, i) =>
          BlockFits(y, y.net["s"][i].arg.index, y.net["s"][i].arg.n, RecvIOPayload(y.net["s"][i].arg.payload))
    BY <2>1, <2>2 DEF Blocks
  <2>4. \A i, j \in 1 .. Len(y.net["s"]) :
          IsData(y, i) /\ IsData(y, j) /\ y.net["s"][i].arg.index = y.net["s"][j].arg.index => i = j
    BY <1>3, <2>1, ZenonT(40) DEF Blocks, Ends
  <2>5. \A r \in y.req : r.op = "write" =>
          /\ r.file = Cur(y) /\ r.index = <<r.index[1], r.index[2], r.index[3]>>
          /\ BlockFits(y, r.index[1], r.index[2], r.index[3])
          /\ \A i \in 1 .. Len(y.net["s"]) : IsData(y, i) => y.net["s"][i].arg.index # r.index[1]
    BY <1>4, <2>1, <2>2 DEF Blocks
  <2>6. \A r, p \in y.req : r.op = "write" /\ p.op = "write" /\ r.index[1] = p.index[1] => r = p
    BY DEF Blocks
  <2>7. ~NoData(y) => InQueue(y) /\ SlaveReady(y) /\ MasterReady(y)
    BY <1>4, <1>13 DEF Blocks
  <2> QED BY <2>3, <2>4, <2>5, <2>6, <2>7 DEF Blocks
<1>18. DiskFits(y)
  BY <1>4 DEF DiskFits, Kept, SameDisk
<1>19. ErrorsKnown(y)
  BY <1>4, <1>6, <1>8, <1>13 DEF ErrorsKnown, Kept, SameDisk, Ends
<1>20. FinishMeans(y)
  <2>1. \A i \in 1 .. Len(y.net["m"]) : y.net["m"][i].cmd = "FINISH" =>
       /\ y.net["m"][i].arg \in {0, 1} /\ ~isApp
       /\ y.net["m"][i].arg = 1 /\ Live(y, "m", i) /\ ~xcfg.shrinks => Done(y, Cur(y))
       /\ y.net["m"][i].arg = 0 => Master(y).lastErrno
    <3> TAKE i \in 1 .. Len(y.net["m"])
    <3>1. At("m", i) \in 1 .. Len(x.net["m"]) /\ y.net["m"][i] = x.net["m"][At("m", i)]
          /\ (Live(y, "m", i) => Live(x, "m", At("m", i)))
      BY <1>2, <1>5 DEF Ends
    <3> QED BY <1>4, <3>1 DEF FinishMeans, Kept
  <2>2. \A i \in 1 .. Len(y.net["s"]) : y.net["s"][i].cmd = "FINISH" =>
       /\ y.net["s"][i].arg \in {0, 1} /\ ~isApp
       /\ y.net["s"][i].arg = 1 => Master(y).lastErrno
       /\ y.net["s"][i].arg = 0 => AllDone(y)
    BY <1>2, <1>4 DEF FinishMeans, Kept, Ends
  <2> QED BY <1>4, <1>10, <2>1, <2>2 DEF FinishMeans, SameDisk
<1> QED BY <1>6, <1>9, <1>10, <1>11, <1>12, <1>13, <1>15, <1>16, <1>160, <1>17, <1>18, <1>19, <1>20

\* Nothing is the token: a step on the tasks and the disk that sends nothing
\* and asks for nothing leaves it so.
LEMMA XferIdle ==
  ASSUME NEW x, Working(x), Free(x), NEW y, y.net = x.net, y.req = x.req,
         \A e \in Ends : y.ctx[e].task = x.ctx[e].task, Queue(y) # <<>> => Queue(x) # <<>>
  PROVE  /\ Free(y) /\ OneToken(y) /\ RequestFacts(y) /\ MessageFacts(y) /\ WokenFirst(y) /\ Master(y).task # "none"
         /\ \A e \in Ends : (Closing(x, e) => Closing(y, e)) /\ \A i : Live(y, e, i) <=> Live(x, e, i)
         /\ NoData(x) <=> NoData(y)
<1> USE DEF Working, Core
<1>1. \A e \in Ends : (Closing(x, e) => Closing(y, e)) /\ \A i : Live(y, e, i) <=> Live(x, e, i)
  BY DEF Closing, Live
<1>2. \A e \in Ends : \A i : TokenAt(y, e, i) => TokenAt(x, e, i)
  BY <1>1 DEF TokenAt, Control
<1>3. Free(y)
  BY <1>2 DEF Free, NoMessage, TokenIn
<1>4. OneToken(y)
  BY <1>3 DEF OneToken, Free, TokenIn, NoMessage
<1>5. RequestFacts(y)
  BY <1>3 DEF RequestFacts, Free, TokenIn
<1>6. MessageFacts(y)
  BY <1>3 DEF MessageFacts, Free, NoMessage, Ends
<1>7. WokenFirst(y) /\ Master(y).task # "none"
  <2>1. Master(y).task # "none" /\ Slave(y).task = Slave(x).task
    BY DEF Master, Slave, Ends
  <2> QED BY <2>1 DEF WokenFirst
<1>8. NoData(x) <=> NoData(y)
  BY DEF NoData, IsData
<1> QED BY <1>1, <1>3, <1>4, <1>5, <1>6, <1>7, <1>8

\* Without blocks under way there is nothing to say about them.
LEMMA XferNoBlocks == ASSUME NEW x, NoData(x) PROVE Blocks(x)
BY DEF NoData, Blocks, IsData

\* While nothing is the token and no block is under way, files come and go.
LEMMA XferBetween ==
  ASSUME NEW x, Working(x), Free(x), NoData(x), ~Master(x).lastErrno,
         NEW y, TransferShape(y), OneFile(y), DiskFits(y), SlaveErrors(y), y.net = x.net, y.req = x.req,
         \A e \in Ends : y.ctx[e].task = x.ctx[e].task, Queue(y) # <<>> => Queue(x) # <<>>,
         ~Master(y).lastErrno, ~Master(y).closeNotify,
         y.summary = x.summary, y.emptyFailed = x.emptyFailed, x.told \subseteq y.told, x.made \subseteq y.made,
         y.data = x.data, Cur(y) = Cur(x) \/ (Queue(x) # <<>> /\ Cur(y) = Cur(x) - 1),
         ~isApp /\ ~xcfg.shrinks /\ Cur(y) # Cur(x) /\ InQueue(x) => Done(y, Cur(x))
  PROVE  Working(y) /\ Free(y) /\ NoData(y) /\ (\A e \in Ends : Closing(x, e) => Closing(y, e))
<1> USE DEF Working, Core
<1>1. /\ Free(y) /\ OneToken(y) /\ RequestFacts(y) /\ MessageFacts(y) /\ WokenFirst(y) /\ Master(y).task # "none"
      /\ \A e \in Ends : (Closing(x, e) => Closing(y, e)) /\ \A i : Live(y, e, i) <=> Live(x, e, i)
      /\ NoData(y)
  BY XferIdle
<1>2. Blocks(y)
  BY <1>1, XferNoBlocks
<1>3. ErrorsKnown(y)
  BY <1>1 DEF ErrorsKnown, SlaveErrors
<1>4. FinishMeans(y)
  <2>1. \A f : Done(x, f) => Done(y, f)
    BY DEF Done, Arrived
  <2>2. AllDone(x) => AllDone(y)
    BY <2>1 DEF AllDone
  <2>3. ~isApp /\ ~xcfg.shrinks /\ Master(y).task # "none" => \A f \in Files : f > Cur(y) => Done(y, f)
    <3> SUFFICES ASSUME ~isApp, ~xcfg.shrinks, NEW f \in Files, f > Cur(y) PROVE Done(y, f)
      OBVIOUS
    <3>1. f > Cur(x) => Done(x, f)
      BY DEF FinishMeans
    <3>2. Cur(x) \in Nat /\ f \in Int
      BY DEF Cur, TransferShape, CtxShape, NetShape, ReqShape, QueueShape, Files
    <3>3. f > Cur(x) \/ (f = Cur(x) /\ Cur(y) # Cur(x) /\ InQueue(x))
      BY <3>2 DEF InQueue
    <3> QED BY <2>1, <3>1, <3>3
  <2>4. \A i \in 1 .. Len(y.net["m"]) : y.net["m"][i].cmd = "FINISH" =>
       /\ y.net["m"][i].arg \in {0, 1} /\ ~isApp
       /\ y.net["m"][i].arg = 1 /\ Live(y, "m", i) /\ ~xcfg.shrinks => Done(y, Cur(y))
       /\ y.net["m"][i].arg = 0 => Master(y).lastErrno
    <3> SUFFICES ASSUME NEW i \in 1 .. Len(y.net["m"]), y.net["m"][i].cmd = "FINISH"
                 PROVE  /\ y.net["m"][i].arg = 1 /\ ~isApp
                        /\ Live(y, "m", i) /\ ~xcfg.shrinks => Done(y, Cur(y))
      OBVIOUS
    <3>1. /\ x.net["m"][i].arg = 1 /\ ~isApp
          /\ Live(x, "m", i) /\ ~xcfg.shrinks => Done(x, Cur(x))
      BY DEF FinishMeans
    <3>2. Live(y, "m", i) => Live(x, "m", i)
      BY <1>1 DEF Ends
    <3>3. CASE Cur(y) = Cur(x)
      BY <2>1, <3>1, <3>2, <3>3
    <3>4. CASE Queue(x) # <<>>
      BY <3>1, <3>2, <3>4 DEF Free, NoMessage, TokenAt, Control, Ends
    <3> QED BY <3>3, <3>4
  <2>5. \A i \in 1 .. Len(y.net["s"]) : y.net["s"][i].cmd = "FINISH" =>
       /\ y.net["s"][i].arg \in {0, 1} /\ ~isApp
       /\ y.net["s"][i].arg = 1 => Master(y).lastErrno
       /\ y.net["s"][i].arg = 0 => AllDone(y)
    BY <2>2 DEF FinishMeans
  <2>6. y.summary = "ok" /\ ~y.emptyFailed => AllDone(y)
    BY <2>2 DEF FinishMeans
  <2> QED BY <2>3, <2>4, <2>5, <2>6 DEF FinishMeans
<1> QED BY <1>1, <1>2, <1>3, <1>4

\* No block under way is the empty one that ends a file.
NoEmpty(x) == /\ \A i \in 1 .. Len(x.net["s"]) : IsData(x, i) => x.net["s"][i].arg.n # 0
              /\ \A r \in x.req : r.op = "write" => r.index[2] # 0

\* A request that becomes the token.
LEMMA XferAsk ==
  ASSUME NEW x, Working(x), Free(x), ~x.forkFailed, ~Master(x).lastErrno,
         NEW y, TransferShape(y), y.net = x.net, SameDisk(x, y),
         NEW r, r.op # "write", y.req = x.req \cup {r}, x.ctx[r.end].task # "deleted",
         \A e \in Ends : Kept(x.ctx[e], y.ctx[e]) /\ y.ctx[e].task = x.ctx[e].task,
         r.op = "open" => /\ OpenFacts(x, r.file) /\ ~x.ctx[r.end].isFdOpen
                          /\ r.end = "s" => Begun(x) /\ Slave(x).fileSize = xcfg.sizes[Cur(x)],
         r.op = "read" => /\ ReadFacts(x) /\ r.file = Cur(x) /\ r.index = Master(x).indexIO
                          /\ r.index < xcfg.sizes[Cur(x)] \/ (xcfg.sizes[Cur(x)] = 0 /\ r.index = 0)
                          /\ NoEmpty(x),
         r.op = "install" => PackageFacts(x),
         r.end = "s" => Slave(x).task # "none"
  PROVE  Working(y) /\ r \notin x.req
<1> USE DEF Working, Core
<1>0. r \notin x.req
  BY DEF Free, TokenIn
<1>1. /\ Cur(y) = Cur(x) /\ Queue(y) = Queue(x)
      /\ (InQueue(y) <=> InQueue(x)) /\ (MasterReady(y) <=> MasterReady(x))
      /\ (SlaveReady(y) <=> SlaveReady(x)) /\ (Begun(y) <=> Begun(x))
      /\ (\A f : Arrived(y, f) = Arrived(x, f)) /\ (\A f : Done(y, f) <=> Done(x, f))
      /\ (AllDone(y) <=> AllDone(x))
      /\ Kept(Master(x), Master(y)) /\ Kept(Slave(x), Slave(y))
      /\ Master(y).task = Master(x).task /\ Slave(y).task = Slave(x).task
  <2>1. Kept(Master(x), Master(y)) /\ Kept(Slave(x), Slave(y))
        /\ Master(y).task = Master(x).task /\ Slave(y).task = Slave(x).task
    BY DEF Master, Slave, Ends
  <2>2. Cur(y) = Cur(x) /\ Queue(y) = Queue(x) /\ (InQueue(y) <=> InQueue(x))
    BY <2>1 DEF Kept, Cur, Queue, InQueue
  <2>3. (\A f : Arrived(y, f) = Arrived(x, f)) /\ (\A f : Done(y, f) <=> Done(x, f)) /\ (AllDone(y) <=> AllDone(x))
    BY DEF SameDisk, Arrived, Done, AllDone
  <2> QED BY <2>1, <2>2, <2>3 DEF Kept, SameDisk, MasterReady, SlaveReady, Begun
<1>2. \A e \in Ends : (Closing(x, e) <=> Closing(y, e)) /\ \A i : (Live(y, e, i) <=> Live(x, e, i))
  BY DEF Closing, Live
<1>3. \A e \in Ends : \A i \in 1 .. Len(y.net[e]) : ~TokenAt(y, e, i)
  BY <1>1, <1>2 DEF Free, NoMessage, TokenAt, Control
<1>4. NoMessage(y) /\ (NoData(x) <=> NoData(y)) /\ (SlaveClosed(x) <=> SlaveClosed(y))
  <2>1. NoData(x) <=> NoData(y)
    BY DEF NoData, IsData
  <2> QED BY <1>1, <1>2, <1>3, <2>1 DEF NoMessage, SlaveClosed, Ends, Kept
<1>5. WokenFirst(y)
  BY <1>1 DEF WokenFirst, TransferShape, CtxShape, NetShape, ReqShape, QueueShape, Ends
<1>6. OneFile(y)
  <2> SUFFICES ASSUME NEW e \in Ends
               PROVE  /\ y.fds[e] = IF y.ctx[e].isFdOpen THEN {y.ctx[e].openFd} ELSE {}
                      /\ y.ctx[e].ioFinish => ~y.ctx[e].isFdOpen
                      /\ y.ctx[e].task = "deleted" => ~y.ctx[e].isFdOpen /\ \A p \in y.req : p.end # e
    BY DEF OneFile
  <2>1. /\ y.ctx[e].isFdOpen = x.ctx[e].isFdOpen /\ y.ctx[e].openFd = x.ctx[e].openFd
        /\ y.ctx[e].ioFinish = x.ctx[e].ioFinish /\ y.ctx[e].task = x.ctx[e].task
    BY DEF Kept
  <2>3. /\ x.fds[e] = IF x.ctx[e].isFdOpen THEN {x.ctx[e].openFd} ELSE {}
        /\ x.ctx[e].ioFinish => ~x.ctx[e].isFdOpen
        /\ x.ctx[e].task = "deleted" => ~x.ctx[e].isFdOpen /\ \A p \in x.req : p.end # e
    BY DEF OneFile
  <2> QED BY <2>1, <2>3 DEF SameDisk
<1>7. OneToken(y)
  BY <1>3, <1>4 DEF OneToken, Free, TokenIn
<1>8. RequestFacts(y)
  <2>1. \A p \in y.req : p.op # "write" => p = r
    BY DEF Free, TokenIn
  <2>2. /\ r.op = "open" => /\ OpenFacts(y, r.file) /\ ~y.ctx[r.end].isFdOpen
                            /\ r.end = "s" => Begun(y) /\ Slave(y).fileSize = xcfg.sizes[Cur(y)]
        /\ r.op = "read" => /\ ReadFacts(y) /\ r.file = Cur(y) /\ r.index = Master(y).indexIO
                            /\ r.index < xcfg.sizes[Cur(y)] \/ (xcfg.sizes[Cur(y)] = 0 /\ r.index = 0)
        /\ r.op = "install" => PackageFacts(y)
    <3>1. r.end \in Ends
      BY DEF TransferShape, CtxShape, NetShape, ReqShape, QueueShape
    <3>2. y.ctx[r.end].isFdOpen = x.ctx[r.end].isFdOpen
      BY <3>1 DEF Kept
    <3> QED BY <1>1, <1>4, <3>2 DEF OpenFacts, ReadFacts, PackageFacts, Kept, SameDisk
  <2> QED BY <2>1, <2>2 DEF RequestFacts
<1>9. MessageFacts(y)
  BY <1>3 DEF MessageFacts, Ends
<1>10. Blocks(y)
  <2>1. CASE NoData(x)
    BY <1>4, <2>1, XferNoBlocks
  <2>2. CASE ~NoData(x) /\ r.op # "read"
    BY <2>2 DEF OpenFacts, PackageFacts, TransferShape, CtxShape, NetShape, ReqShape, QueueShape
  <2>3. CASE ~NoData(x) /\ r.op = "read"
    <3>1. ASSUME NEW j, NEW k, NEW p, BlockFits(x, j, k, p), k # 0 PROVE BlockFits(y, j, k, p)
      BY <1>1, <3>1 DEF BlockFits, Kept
    <3>2. \A i : IsData(x, i) <=> IsData(y, i)
      BY DEF IsData
    <3>3. NoEmpty(x)
      BY <2>3
    <3>4. \A i \in 1 .. Len(y.net["s"]) : IsData(y, i) =>
            BlockFits(y, y.net["s"][i].arg.index, y.net["s"][i].arg.n, RecvIOPayload(y.net["s"][i].arg.payload))
      BY <3>1, <3>2, <3>3 DEF Blocks, NoEmpty
    <3>5. \A i, j \in 1 .. Len(y.net["s"]) :
            IsData(y, i) /\ IsData(y, j) /\ y.net["s"][i].arg.index = y.net["s"][j].arg.index => i = j
      BY <3>2 DEF Blocks
    <3>6. \A p \in y.req : p.op = "write" =>
            /\ p.file = Cur(y) /\ p.index = <<p.index[1], p.index[2], p.index[3]>>
            /\ BlockFits(y, p.index[1], p.index[2], p.index[3])
            /\ \A i \in 1 .. Len(y.net["s"]) : IsData(y, i) => y.net["s"][i].arg.index # p.index[1]
      <4> SUFFICES ASSUME NEW p \in x.req, p.op = "write"
                   PROVE  /\ p.file = Cur(y) /\ p.index = <<p.index[1], p.index[2], p.index[3]>>
                          /\ BlockFits(y, p.index[1], p.index[2], p.index[3])
                          /\ \A i \in 1 .. Len(y.net["s"]) : IsData(y, i) => y.net["s"][i].arg.index # p.index[1]
        OBVIOUS
      <4>1. BlockFits(x, p.index[1], p.index[2], p.index[3]) /\ p.index[2] # 0
        BY <3>3 DEF Blocks, NoEmpty
      <4>2. BlockFits(y, p.index[1], p.index[2], p.index[3])
        BY <3>1, <4>1
      <4> QED BY <1>1, <3>2, <4>2 DEF Blocks
    <3>7. \A q, p \in y.req : q.op = "write" /\ p.op = "write" /\ q.index[1] = p.index[1] => q = p
      BY DEF Blocks
    <3> QED BY <1>1, <2>3, <3>4, <3>5, <3>6, <3>7 DEF Blocks, ReadFacts
  <2> QED BY <2>1, <2>2, <2>3
<1>11. DiskFits(y)
  BY <1>1 DEF DiskFits, Kept, SameDisk
<1>12. ErrorsKnown(y)
  BY <1>1, <1>2 DEF ErrorsKnown, Kept, SameDisk, Ends
<1>13. FinishMeans(y)
  BY <1>1, <1>2 DEF FinishMeans, Kept, SameDisk, Ends
<1> QED BY <1>0, <1>1, <1>5, <1>6, <1>7, <1>8, <1>9, <1>10, <1>11, <1>12, <1>13

\* Two states that differ in nothing the invariant speaks of.
Like(x, y) == /\ TransferShape(y) /\ y.net = x.net /\ y.req = x.req /\ SameDisk(x, y)
              /\ \A e \in Ends : Kept(x.ctx[e], y.ctx[e]) /\ y.ctx[e].task = x.ctx[e].task

\* Such states satisfy the same facts.
LEMMA XferLike ==
  ASSUME NEW x, Working(x), NEW y, Like(x, y)
  PROVE  /\ Working(y) /\ (Free(x) <=> Free(y)) /\ (NoData(x) <=> NoData(y)) /\ (NoEmpty(x) <=> NoEmpty(y))
         /\ (\A e \in Ends : Closing(x, e) <=> Closing(y, e)) /\ (SlaveClosed(x) <=> SlaveClosed(y))
         /\ (\A f : OpenFacts(x, f) <=> OpenFacts(y, f)) /\ (ReadFacts(x) <=> ReadFacts(y))
         /\ (PackageFacts(x) <=> PackageFacts(y)) /\ (Begun(x) <=> Begun(y)) /\ (AllDone(x) <=> AllDone(y))
         /\ (\A f : Done(x, f) <=> Done(y, f)) /\ Queue(y) = Queue(x) /\ Cur(y) = Cur(x)
         /\ (Held(x) <=> Held(y)) /\ (InQueue(x) <=> InQueue(y)) /\ (SlaveReady(x) <=> SlaveReady(y))
         /\ (MasterReady(x) <=> MasterReady(y)) /\ (\A f : Arrived(y, f) = Arrived(x, f))
<1> USE DEF Working, Core, Like
<1>1. Kept(Master(x), Master(y)) /\ Kept(Slave(x), Slave(y))
      /\ Master(y).task = Master(x).task /\ Slave(y).task = Slave(x).task
  BY DEF Master, Slave, Ends
<1>2. Cur(y) = Cur(x) /\ Queue(y) = Queue(x) /\ (InQueue(y) <=> InQueue(x))
  BY <1>1 DEF Kept, Cur, Queue, InQueue
<1>3. (\A f : Arrived(y, f) = Arrived(x, f)) /\ (\A f : Done(y, f) <=> Done(x, f)) /\ (AllDone(y) <=> AllDone(x))
  BY DEF SameDisk, Arrived, Done, AllDone
<1>4. (MasterReady(y) <=> MasterReady(x)) /\ (SlaveReady(y) <=> SlaveReady(x)) /\ (Begun(y) <=> Begun(x))
  BY <1>1, <1>2 DEF Kept, SameDisk, MasterReady, SlaveReady, Begun
<1>5. \A e \in Ends : (Closing(x, e) <=> Closing(y, e)) /\ \A i : (Live(y, e, i) <=> Live(x, e, i))
  BY DEF Closing, Live
<1>6. \A e \in Ends : \A i : TokenAt(y, e, i) <=> TokenAt(x, e, i)
  BY <1>2, <1>5 DEF TokenAt, Control
<1>7. (NoMessage(x) <=> NoMessage(y)) /\ (TokenIn(x) <=> TokenIn(y))
  BY <1>6 DEF NoMessage, TokenIn
<1>8. (NoData(x) <=> NoData(y)) /\ (NoEmpty(x) <=> NoEmpty(y)) /\ (\A i : IsData(x, i) <=> IsData(y, i))
  BY DEF NoData, IsData, NoEmpty
<1>9. SlaveClosed(x) <=> SlaveClosed(y)
  BY <1>1, <1>5 DEF SlaveClosed, Ends, Kept
<1>10. /\ \A f : OpenFacts(x, f) <=> OpenFacts(y, f)
       /\ ReadFacts(x) <=> ReadFacts(y)
       /\ PackageFacts(x) <=> PackageFacts(y)
  BY <1>1, <1>2, <1>4, <1>8, <1>9 DEF OpenFacts, ReadFacts, PackageFacts, Kept, SameDisk
<1>11. Held(x) <=> Held(y)
  BY <1>1, <1>8, <1>9 DEF Held, Kept
<1>12. OneFile(y)
  <2> SUFFICES ASSUME NEW e \in Ends
               PROVE  /\ y.fds[e] = IF y.ctx[e].isFdOpen THEN {y.ctx[e].openFd} ELSE {}
                      /\ y.ctx[e].ioFinish => ~y.ctx[e].isFdOpen
                      /\ y.ctx[e].task = "deleted" => ~y.ctx[e].isFdOpen /\ \A p \in y.req : p.end # e
    BY DEF OneFile
  <2>1. /\ y.ctx[e].isFdOpen = x.ctx[e].isFdOpen /\ y.ctx[e].openFd = x.ctx[e].openFd
        /\ y.ctx[e].ioFinish = x.ctx[e].ioFinish /\ y.ctx[e].task = x.ctx[e].task
    BY DEF Kept
  <2>2. /\ x.fds[e] = IF x.ctx[e].isFdOpen THEN {x.ctx[e].openFd} ELSE {}
        /\ x.ctx[e].ioFinish => ~x.ctx[e].isFdOpen
        /\ x.ctx[e].task = "deleted" => ~x.ctx[e].isFdOpen /\ \A p \in x.req : p.end # e
    BY DEF OneFile
  <2> QED BY <2>1, <2>2 DEF SameDisk
<1>13. SlaveErrors(y)
  BY <1>1, <1>5 DEF ErrorsKnown, SlaveErrors, Kept, Ends
<1>14. Working(y)
  <2>1. \A a \in Ends : y.ctx[a].isFdOpen => x.ctx[a].isFdOpen
    BY DEF Kept
  <2>2. /\ Queue(y) = Queue(x) /\ Master(y).openFd = Master(x).openFd /\ Master(y).fileSize = Master(x).fileSize
        /\ Master(y).indexIO = Master(x).indexIO /\ Master(y).lastErrno = Master(x).lastErrno
        /\ Master(y).closeNotify = Master(x).closeNotify
        /\ Slave(y).openFd = Slave(x).openFd /\ Slave(y).fileSize = Slave(x).fileSize
        /\ Slave(y).indexIO = Slave(x).indexIO /\ Slave(x).ioFinish = Slave(y).ioFinish
    BY <1>1, <1>2 DEF Kept
  <2> HIDE DEF Working, Core
  <2> QED BY <1>12, <1>13, <2>1, <2>2, XferQuiet DEF SameDisk
<1> QED BY <1>2, <1>3, <1>4, <1>5, <1>7, <1>8, <1>9, <1>10, <1>11, <1>14 DEF Free

\* The type invariant of a state with the same messages.
LEMMA XferShape ==
  ASSUME NEW x, TransferShape(x), NEW y, DOMAIN y = DOMAIN x, DOMAIN y.ctx = Ends, DOMAIN y.fds = Ends,
         y.net = x.net, y.forkFailed \in BOOLEAN, y.emptyFailed \in BOOLEAN,
         \A e \in Ends : CtxShape(y.ctx[e]), y.ctx["s"].taskQueue = <<>>,
         IsFiniteSet(y.req), \A r \in y.req : r \in x.req \/ ReqShape(r),
         Queue(y) = Queue(x) \/ QueueShape(Queue(y))
  PROVE  TransferShape(y)
BY DEF TransferShape, Slave

\* The parts of the type invariant.
LEMMA XferParts ==
  ASSUME NEW x, TransferShape(x)
  PROVE  /\ DOMAIN x = DOMAIN NoTransfer /\ DOMAIN x.ctx = Ends /\ DOMAIN x.fds = Ends /\ DOMAIN x.net = Ends
         /\ x.forkFailed \in BOOLEAN /\ x.emptyFailed \in BOOLEAN /\ IsFiniteSet(x.req)
         /\ (\A e \in Ends : CtxShape(x.ctx[e])) /\ x.ctx["s"].taskQueue = <<>> /\ QueueShape(Queue(x))
         /\ \A e \in Ends : DOMAIN x.ctx[e] = DOMAIN NewCtx("none")
BY DEF TransferShape, CtxShape, Slave

\* Counting references changes nothing else.
LEMMA XferRef ==
  ASSUME NEW x, TransferShape(x), NEW a \in Ends, NEW n \in Int
  PROVE  /\ Like(x, AddRef(x, a, n)) /\ Like(x, DropRef(x, a))
         /\ AddRef(x, a, n).ctx[a].refCount = x.ctx[a].refCount + n
         /\ DropRef(x, a).ctx[a].refCount = x.ctx[a].refCount - 1
         /\ \A e \in Ends : e # a => /\ AddRef(x, a, n).ctx[e].refCount = x.ctx[e].refCount
                                     /\ DropRef(x, a).ctx[e].refCount = x.ctx[e].refCount
<1>0. x.ctx[a].refCount \in Int /\ DOMAIN x = DOMAIN NoTransfer /\ DOMAIN x.ctx = Ends /\ DOMAIN x.ctx[a] = DOMAIN NewCtx("none")
  BY DEF TransferShape, CtxShape, NetShape, ReqShape, QueueShape
<1>1. ASSUME NEW v \in Int
      PROVE  LET y == [x EXCEPT !.ctx[a].refCount = v]
             IN  /\ Like(x, y) /\ y.ctx[a].refCount = v
                 /\ \A e \in Ends : e # a => y.ctx[e].refCount = x.ctx[e].refCount
  <2> DEFINE y == [x EXCEPT !.ctx[a].refCount = v]
  <2>1. /\ y.net = x.net /\ y.req = x.req /\ SameDisk(x, y) /\ DOMAIN y = DOMAIN x
        /\ y.ctx = [x.ctx EXCEPT ![a].refCount = v]
    BY <1>0 DEF SameDisk, NoTransfer
  <2> HIDE DEF y
  <2>2. /\ DOMAIN y.ctx = Ends /\ y.ctx[a] = [x.ctx[a] EXCEPT !.refCount = v] /\ \A e \in Ends : e # a => y.ctx[e] = x.ctx[e]
    BY <1>0, <2>1
  <2>3. y.ctx[a].refCount = v /\ DOMAIN y.ctx[a] = DOMAIN x.ctx[a] /\ Kept(x.ctx[a], y.ctx[a]) /\ y.ctx[a].task = x.ctx[a].task
    BY <1>0, <2>2 DEF Kept, NewCtx
  <2>4. \A e \in Ends : Kept(x.ctx[e], y.ctx[e]) /\ y.ctx[e].task = x.ctx[e].task
                        /\ DOMAIN y.ctx[e] = DOMAIN x.ctx[e] /\ y.ctx[e].refCount \in Int
    BY <2>2, <2>3 DEF Kept, TransferShape, CtxShape, NetShape, ReqShape, QueueShape
  <2>5. TransferShape(y)
    <3>1. \A e \in Ends : CtxShape(y.ctx[e]) /\ y.ctx["s"].taskQueue = <<>>
      BY <2>4, XferParts DEF CtxShape, Kept, Ends
    <3>2. Queue(y) = Queue(x)
      BY <2>4 DEF Queue, Master, Kept, Ends
    <3>3. DOMAIN y.fds = Ends /\ y.forkFailed \in BOOLEAN /\ y.emptyFailed \in BOOLEAN /\ IsFiniteSet(y.req)
      BY <2>1, XferParts DEF SameDisk
    <3> HIDE DEF Like
    <3> QED BY <2>1, <2>2, <3>1, <3>2, <3>3, XferShape, Zenon
  <2> QED BY <2>1, <2>2, <2>3, <2>4, <2>5 DEF Like, y
<1> QED BY <1>0, <1>1 DEF AddRef, DropRef

\* The references an end should hold, but for k more at end a.
Owed(x, e) == Cardinality({r \in x.req : r.end = e})
RefsBut(x, a, k) == \A e \in Ends : x.ctx[e].refCount = Owed(x, e) + Leaked(x, e) + (IF e = a THEN k ELSE 0)

\* The requests of an end are counted one by one.
LEMMA XferOwed ==
  ASSUME NEW x, IsFiniteSet(x.req), NEW e
  PROVE  /\ Owed(x, e) \in Nat
         /\ Owed(x, e) = 0 => \A r \in x.req : r.end # e
         /\ \A y, r : r \notin x.req /\ y.req = x.req \cup {r} =>
              Owed(y, e) = Owed(x, e) + (IF r.end = e THEN 1 ELSE 0)
         /\ \A y, r : r \in x.req /\ y.req = x.req \ {r} =>
              Owed(y, e) = Owed(x, e) - (IF r.end = e THEN 1 ELSE 0)
<1> DEFINE S == {r \in x.req : r.end = e}
<1>1. IsFiniteSet(S)
  BY FS_Subset
<1>2. Owed(x, e) \in Nat /\ (Owed(x, e) = 0 => S = {})
  BY <1>1, FS_CardinalityType, FS_EmptySet DEF Owed
<1>3. ASSUME NEW y, NEW r, r \notin x.req, y.req = x.req \cup {r}
      PROVE  Owed(y, e) = Owed(x, e) + (IF r.end = e THEN 1 ELSE 0)
  <2>1. CASE r.end = e
    <3>1. {q \in y.req : q.end = e} = S \cup {r} /\ r \notin S
      BY <1>3, <2>1
    <3> QED BY <1>1, <2>1, <3>1, FS_AddElement DEF Owed
  <2>2. CASE r.end # e
    <3>1. {q \in y.req : q.end = e} = S
      BY <1>3, <2>2
    <3>2. Owed(y, e) = Owed(x, e)
      BY <3>1 DEF Owed
    <3> QED BY <1>2, <2>2, <3>2
  <2> QED BY <2>1, <2>2
<1>4. ASSUME NEW y, NEW r, r \in x.req, y.req = x.req \ {r}
      PROVE  Owed(y, e) = Owed(x, e) - (IF r.end = e THEN 1 ELSE 0)
  <2>1. CASE r.end = e
    <3>1. {q \in y.req : q.end = e} = S \ {r} /\ r \in S
      BY <1>4, <2>1
    <3> QED BY <1>1, <2>1, <3>1, FS_RemoveElement DEF Owed
  <2>2. CASE r.end # e
    <3>1. {q \in y.req : q.end = e} = S
      BY <1>4, <2>2
    <3>2. Owed(y, e) = Owed(x, e)
      BY <3>1 DEF Owed
    <3> QED BY <1>2, <2>2, <3>2
  <2> QED BY <2>1, <2>2
<1> QED BY <1>2, <1>3, <1>4

\* What keeps requests, counts and the failed process keeps the balance.
LEMMA XferRefsSame ==
  ASSUME NEW x, NEW y, y.req = x.req, y.forkFailed = x.forkFailed,
         \A e \in Ends : y.ctx[e].refCount = x.ctx[e].refCount
  PROVE  \A a \in Ends, k \in Int : RefsBut(x, a, k) => RefsBut(y, a, k)
BY DEF RefsBut, Owed, Leaked

\* Taking a reference and dropping it.
LEMMA XferRefsMove ==
  ASSUME NEW x, TransferShape(x), NEW a \in Ends, NEW n \in Int, NEW k \in Int, RefsBut(x, a, k)
  PROVE  RefsBut(AddRef(x, a, n), a, k + n) /\ RefsBut(DropRef(x, a), a, k - 1)
<1> DEFINE y == AddRef(x, a, n)
           z == DropRef(x, a)
<1>1. /\ Like(x, y) /\ Like(x, z)
      /\ y.ctx[a].refCount = x.ctx[a].refCount + n
      /\ z.ctx[a].refCount = x.ctx[a].refCount - 1
      /\ \A e \in Ends : e # a => y.ctx[e].refCount = x.ctx[e].refCount /\ z.ctx[e].refCount = x.ctx[e].refCount
  BY XferRef
<1> HIDE DEF y, z
<1>2. \A e \in Ends : /\ Owed(y, e) = Owed(x, e) /\ Leaked(y, e) = Leaked(x, e)
                      /\ Owed(z, e) = Owed(x, e) /\ Leaked(z, e) = Leaked(x, e)
                      /\ Owed(x, e) \in Nat /\ Leaked(x, e) \in Nat
  <2>1. y.req = x.req /\ z.req = x.req /\ y.forkFailed = x.forkFailed /\ z.forkFailed = x.forkFailed
    BY <1>1 DEF Like, SameDisk
  <2>2. IsFiniteSet(x.req)
    BY XferParts
  <2> QED BY <2>1, <2>2, XferOwed DEF Owed, Leaked
<1>3. \A e \in Ends : x.ctx[e].refCount = Owed(x, e) + Leaked(x, e) + (IF e = a THEN k ELSE 0)
  BY DEF RefsBut
<1>4. RefsBut(y, a, k + n)
  BY <1>1, <1>2, <1>3 DEF RefsBut
<1>5. RefsBut(z, a, k - 1)
  BY <1>1, <1>2, <1>3 DEF RefsBut
<1> QED BY <1>4, <1>5 DEF y, z

\* The type invariant counts no request twice: adding and removing one.
LEMMA XferRefsReq ==
  ASSUME NEW x, TransferShape(x), NEW a \in Ends, NEW k \in Int, RefsBut(x, a, k), NEW y, y.forkFailed = x.forkFailed,
         NEW r, r.end \in Ends
  PROVE  /\ r \notin x.req /\ y.req = x.req \cup {r}
              /\ (\A e \in Ends : y.ctx[e].refCount = x.ctx[e].refCount + (IF e = r.end THEN 1 ELSE 0))
              => RefsBut(y, a, k)
         /\ r \in x.req /\ y.req = x.req \ {r} /\ r.end = a
              /\ (\A e \in Ends : y.ctx[e].refCount = x.ctx[e].refCount)
              => RefsBut(y, a, k + 1)
<1>1. \A e \in Ends : Leaked(y, e) = Leaked(x, e) /\ Owed(x, e) \in Nat /\ Leaked(x, e) \in Nat
  BY XferParts, XferOwed DEF Leaked
<1>2. \A e \in Ends : x.ctx[e].refCount = Owed(x, e) + Leaked(x, e) + (IF e = a THEN k ELSE 0)
  BY DEF RefsBut
<1>3. ASSUME r \notin x.req, y.req = x.req \cup {r},
             \A e \in Ends : y.ctx[e].refCount = x.ctx[e].refCount + (IF e = r.end THEN 1 ELSE 0)
      PROVE  RefsBut(y, a, k)
  <2>1. \A e \in Ends : Owed(y, e) = Owed(x, e) + (IF r.end = e THEN 1 ELSE 0)
    BY <1>3, XferParts, XferOwed
  <2> QED BY <1>1, <1>2, <1>3, <2>1 DEF RefsBut
<1>4. ASSUME r \in x.req, y.req = x.req \ {r}, r.end = a, \A e \in Ends : y.ctx[e].refCount = x.ctx[e].refCount
      PROVE  RefsBut(y, a, k + 1)
  <2>1. \A e \in Ends : Owed(y, e) = Owed(x, e) - (IF r.end = e THEN 1 ELSE 0)
    BY <1>4, XferParts, XferOwed
  <2> QED BY <1>1, <1>2, <1>4, <2>1 DEF RefsBut
<1> QED BY <1>3, <1>4

\* Asking the pool for something.
LEMMA XferRequest ==
  ASSUME NEW x, TransferShape(x), NEW a \in Ends, NEW op, NEW f, NEW i,
         ReqShape([end |-> a, op |-> op, file |-> f, index |-> i])
  PROVE  LET y == Request(x, a, op, f, i)
             r == [end |-> a, op |-> op, file |-> f, index |-> i]
         IN  /\ TransferShape(y) /\ y.net = x.net /\ SameDisk(x, y) /\ y.req = x.req \cup {r}
             /\ \A e \in Ends : Kept(x.ctx[e], y.ctx[e]) /\ y.ctx[e].task = x.ctx[e].task
             /\ r \notin x.req => \A b \in Ends, k \in Int : RefsBut(x, b, k) => RefsBut(y, b, k)
<1> DEFINE r == [end |-> a, op |-> op, file |-> f, index |-> i]
           w == AddRef(x, a, 1)
           y == [w EXCEPT !.req = @ \cup {r}]
<1>1. /\ Like(x, w) /\ w.ctx[a].refCount = x.ctx[a].refCount + 1
      /\ \A e \in Ends : e # a => w.ctx[e].refCount = x.ctx[e].refCount
  BY XferRef
<1>2. TransferShape(w) /\ w.net = x.net /\ SameDisk(x, w) /\ w.req = x.req
      /\ \A e \in Ends : Kept(x.ctx[e], w.ctx[e]) /\ w.ctx[e].task = x.ctx[e].task
  BY <1>1 DEF Like
<1> HIDE DEF w
<1>3. /\ DOMAIN y = DOMAIN w /\ y.req = x.req \cup {r} /\ y.ctx = w.ctx /\ y.net = w.net /\ SameDisk(w, y)
  BY <1>2, XferParts DEF SameDisk, NoTransfer
<1>4. r.end = a /\ ReqShape(r)
  OBVIOUS
<1> HIDE DEF y, r
<1>5. TransferShape(y)
  <2>1. IsFiniteSet(y.req)
    BY <1>3, XferParts, FS_AddElement
  <2>2. Queue(y) = Queue(w) /\ y.fds = w.fds /\ y.forkFailed = w.forkFailed /\ y.emptyFailed = w.emptyFailed
    BY <1>3 DEF Queue, Master, SameDisk
  <2>3. \A q \in y.req : q \in w.req \/ ReqShape(q)
    BY <1>2, <1>3, <1>4
  <2>4. DOMAIN w.ctx = Ends /\ DOMAIN w.fds = Ends
      /\ w.forkFailed \in BOOLEAN /\ w.emptyFailed \in BOOLEAN
      /\ (\A e \in Ends : CtxShape(w.ctx[e])) /\ w.ctx["s"].taskQueue = <<>>
    BY <1>2, XferParts
  <2>5. /\ DOMAIN y.ctx = Ends /\ DOMAIN y.fds = Ends /\ y.forkFailed \in BOOLEAN /\ y.emptyFailed \in BOOLEAN
        /\ (\A e \in Ends : CtxShape(y.ctx[e])) /\ y.ctx["s"].taskQueue = <<>>
    BY <1>3, <2>2, <2>4
  <2> QED BY <1>2, <1>3, <2>1, <2>2, <2>3, <2>5, XferShape, Zenon
<1>6. \A e \in Ends : y.ctx[e].refCount = x.ctx[e].refCount + (IF e = r.end THEN 1 ELSE 0)
  BY <1>1, <1>3, <1>4, XferParts DEF CtxShape
<1>7. r \notin x.req => \A b \in Ends, k \in Int : RefsBut(x, b, k) => RefsBut(y, b, k)
  <2>1. y.forkFailed = x.forkFailed
    BY <1>2, <1>3 DEF SameDisk
  <2> QED BY <1>3, <1>4, <1>6, <2>1, XferRefsReq
<1>8. SameDisk(x, y) /\ y.net = x.net
  BY <1>2, <1>3 DEF SameDisk
<1> QED BY <1>2, <1>3, <1>5, <1>7, <1>8 DEF Request, y, r, w

\* What sending a message leaves as it was.
Sent(x, y) == /\ Working(y) /\ y.ctx = x.ctx /\ y.req = x.req /\ SameDisk(x, y)
              /\ \A e \in Ends : Closing(x, e) => Closing(y, e)
              /\ \A b \in Ends, k \in Int : RefsBut(x, b, k) => RefsBut(y, b, k)

\* SendToAnother keeps the invariant when the message may be sent.
LEMMA XferSendTo ==
  ASSUME NEW x, Working(x), NEW a \in Ends, NEW cmd, NEW arg,
         ~x.ctx[a].singalStop => MaySend(x, OtherEnd(a), [cmd |-> cmd, arg |-> arg])
  PROVE  LET y == SendToAnother(x, a, cmd, arg)
         IN  /\ Sent(x, y)
             /\ cmd # "DATA" => (NoData(x) <=> NoData(y))
             /\ ~Control(x, OtherEnd(a), [cmd |-> cmd, arg |-> arg]) /\ Free(x) => Free(y)
             /\ cmd = "CHANNEL_CLOSE" /\ ~x.ctx[a].singalStop => Closing(y, OtherEnd(a))
             /\ NoEmpty(x) /\ (cmd = "DATA" => arg.n # 0) => NoEmpty(y)
<1> DEFINE b == OtherEnd(a)
           c == [cmd |-> cmd, arg |-> arg]
           y == [x EXCEPT !.net[b] = Append(@, c)]
<1>0. b \in Ends /\ c.cmd = cmd /\ c.arg = arg
  BY XferEnds
<1>1. CASE x.ctx[a].singalStop
  <2>1. SendToAnother(x, a, cmd, arg) = x
    BY <1>1 DEF SendToAnother
  <2> QED BY <1>1, <2>1 DEF Sent, SameDisk
<1>2. CASE ~x.ctx[a].singalStop
  <2>0. SendToAnother(x, a, cmd, arg) = y
    BY <1>2 DEF SendToAnother
  <2>1. MaySend(x, b, c)
    BY <1>2
  <2> HIDE DEF b, c
  <2>2. Working(y) /\ (~Control(x, b, c) /\ Free(x) => Free(y))
    BY <1>0, <2>1, XferSend
  <2>3. c.cmd \in Commands(b)
    BY <2>1 DEF MaySend
  <2>4. /\ y.ctx = x.ctx /\ y.req = x.req /\ y.fds = x.fds /\ y.made = x.made
        /\ y.data = x.data /\ y.told = x.told /\ y.summary = x.summary /\ y.forkFailed = x.forkFailed
        /\ y.emptyFailed = x.emptyFailed
        /\ Len(y.net[b]) = Len(x.net[b]) + 1 /\ y.net[b][Len(x.net[b]) + 1] = c
        /\ (\A i \in 1 .. Len(x.net[b]) : y.net[b][i] = x.net[b][i])
        /\ (\A e \in Ends : e # b => y.net[e] = x.net[e]) /\ Len(x.net[b]) \in Nat
    <3>1. TransferShape(x)
      BY DEF Working, Core
    <3>2. Len(x.net[b]) \in Nat /\ Len(x.net[b]) + 1 - 1 = Len(x.net[b])
      BY <1>0, <3>1 DEF TransferShape, NetShape
    <3>3. \A i \in 1 .. (Len(x.net[b]) + 1 - 1) : y.net[b][i] = x.net[b][i]
      BY <1>0, <2>3, <3>1, XferAppendFacts
    <3>4. /\ y.ctx = x.ctx /\ y.req = x.req /\ y.fds = x.fds /\ y.made = x.made
          /\ y.data = x.data /\ y.told = x.told /\ y.summary = x.summary /\ y.forkFailed = x.forkFailed
          /\ y.emptyFailed = x.emptyFailed
      BY <1>0, <2>3, <3>1, XferAppendFacts
    <3>5. Len(y.net[b]) = Len(x.net[b]) + 1 /\ y.net[b][Len(x.net[b]) + 1] = c
      <4>1. y.net[b] = Append(x.net[b], c)
        BY <1>0, <3>1, XferParts DEF NoTransfer
      <4>2. Len(x.net[b]) \in Nat /\ x.net[b] = [i \in 1 .. Len(x.net[b]) |-> x.net[b][i]]
        BY <1>0, <3>1 DEF TransferShape, NetShape
      <4> HIDE DEF y
      <4> QED BY <4>1, <4>2, XferSeq
    <3>6. \A e \in Ends : e # b => y.net[e] = x.net[e]
      BY <1>0, <2>3, <3>1, XferAppendFacts
    <3> HIDE DEF y
    <3> QED BY <3>2, <3>3, <3>4, <3>5, <3>6
  <2> HIDE DEF y
  <2>5. \A e \in Ends : \A i \in 1 .. Len(y.net[e]) :
          \/ i \in 1 .. Len(x.net[e]) /\ y.net[e][i] = x.net[e][i]
          \/ e = b /\ y.net[e][i] = c
    BY <2>4
  <2>6. \A e \in Ends : \A i \in 1 .. Len(x.net[e]) : i \in 1 .. Len(y.net[e]) /\ y.net[e][i] = x.net[e][i]
    BY <2>4
  <2>7. \A e \in Ends : Closing(x, e) => Closing(y, e)
    BY <2>4, <2>6 DEF Closing
  <2>8. c.cmd # "DATA" => (NoData(x) <=> NoData(y))
    <3>1. c.cmd # "DATA" /\ NoData(x) => NoData(y)
      BY <2>4, <2>5 DEF NoData, IsData, Ends
    <3>2. NoData(y) => NoData(x)
      BY <2>4, <2>6 DEF NoData, IsData, Ends
    <3> QED BY <3>1, <3>2
  <2>9. c.cmd = "CHANNEL_CLOSE" => Closing(y, b)
    BY <2>4 DEF Closing
  <2>10. NoEmpty(x) /\ (c.cmd = "DATA" => c.arg.n # 0) => NoEmpty(y)
    BY <2>4, <2>5 DEF NoEmpty, IsData, Ends
  <2>11. SameDisk(x, y)
    BY <2>4 DEF SameDisk
  <2>12. \A d \in Ends, k \in Int : RefsBut(x, d, k) => RefsBut(y, d, k)
    BY <2>4, XferRefsSame
  <2>13. Sent(x, y)
    BY <2>2, <2>4, <2>7, <2>11, <2>12 DEF Sent
  <2> QED BY <1>0, <2>0, <2>2, <2>8, <2>9, <2>10, <2>13 DEF b, c
<1> QED BY <1>1, <1>2

\* What a step that moves neither token nor block leaves as it was.
Calm(x, y) == /\ Working(y) /\ Queue(y) = Queue(x) /\ Cur(y) = Cur(x)
              /\ (Free(x) => Free(y)) /\ (NoData(x) => NoData(y)) /\ (NoEmpty(x) => NoEmpty(y))
              /\ (\A e \in Ends : Closing(x, e) => Closing(y, e)) /\ (SlaveClosed(x) => SlaveClosed(y))
              /\ (\A f : Done(x, f) => Done(y, f)) /\ (AllDone(x) => AllDone(y))
              /\ (\A f : OpenFacts(x, f) => OpenFacts(y, f)) /\ (ReadFacts(x) => ReadFacts(y))
              /\ (PackageFacts(x) => PackageFacts(y)) /\ (Begun(x) <=> Begun(y)) /\ (InQueue(x) <=> InQueue(y))
              /\ (MasterReady(x) <=> MasterReady(y)) /\ (SlaveReady(x) <=> SlaveReady(y))

\* The facts about the token survive what moves neither files nor blocks.
LEMMA XferCalm ==
  ASSUME NEW x, Working(x), NEW y, Working(y),
         y.net = x.net, y.req \subseteq x.req, y.made = x.made, y.data = x.data, x.told \subseteq y.told,
         Queue(y) = Queue(x), Master(y).openFd = Master(x).openFd, Master(y).fileSize = Master(x).fileSize,
         Master(y).indexIO = Master(x).indexIO, Master(y).lastErrno = Master(x).lastErrno,
         Slave(y).openFd = Slave(x).openFd, Slave(y).fileSize = Slave(x).fileSize,
         \A a \in Ends : /\ y.ctx[a].isFdOpen => x.ctx[a].isFdOpen
                         /\ \/ y.ctx[a].task = x.ctx[a].task
                            \/ x.ctx[a].task # "none" /\ y.ctx[a].task \notin {"none", "run"}
  PROVE  Calm(x, y)
<1>1. /\ Cur(y) = Cur(x) /\ (InQueue(y) <=> InQueue(x)) /\ (MasterReady(y) <=> MasterReady(x))
      /\ (SlaveReady(y) <=> SlaveReady(x)) /\ (Begun(y) <=> Begun(x))
  BY DEF Cur, InQueue, MasterReady, SlaveReady, Begun
<1>2. /\ NoData(x) => NoData(y)
      /\ NoEmpty(x) => NoEmpty(y)
      /\ \A f : Done(x, f) => Done(y, f)
      /\ AllDone(x) => AllDone(y)
  BY DEF IsData, Arrived, NoData, Done, NoEmpty, AllDone
<1>3. \A a \in Ends : /\ Closing(x, a) => Closing(y, a)
                      /\ \A i : TokenAt(y, a, i) => TokenAt(x, a, i)
  BY DEF Closing, Live, TokenAt, Control
<1>4. (Free(x) => Free(y)) /\ (SlaveClosed(x) => SlaveClosed(y))
  BY <1>3 DEF NoMessage, TokenIn, Free, SlaveClosed, Slave, Ends
<1>7. /\ \A f : OpenFacts(x, f) => OpenFacts(y, f)
      /\ ReadFacts(x) => ReadFacts(y)
      /\ PackageFacts(x) => PackageFacts(y)
  <2>1. ~Master(x).isFdOpen => ~Master(y).isFdOpen
    BY DEF Master, Ends
  <2> QED BY <1>1, <1>2, <1>4, <2>1 DEF OpenFacts, ReadFacts, PackageFacts
<1> QED BY <1>1, <1>2, <1>3, <1>4, <1>7 DEF Calm

\* The fields of a task that ending its file leaves alone.
CtxRest(c, d) == /\ d.task = c.task /\ d.openFd = c.openFd /\ d.fileSize = c.fileSize /\ d.indexIO = c.indexIO
                 /\ d.singalStop = c.singalStop /\ d.taskQueue = c.taskQueue

\* The file of an end is closed, the end takes it for finished.
LEMMA XferFileClosed ==
  ASSUME NEW x, Working(x), NEW a \in Ends, NEW y, TransferShape(y), SlaveErrors(y), y.net = x.net,
         y.req \subseteq x.req, y.made = x.made, y.data = x.data, x.told \subseteq y.told,
         y.forkFailed = x.forkFailed, x.emptyFailed => y.emptyFailed,
         y.summary = x.summary \/ (y.summary = "ok" /\ ~y.emptyFailed => AllDone(x)),
         \A e \in Ends : e # a => y.ctx[e] = x.ctx[e] /\ y.fds[e] = x.fds[e],
         y.fds[a] = {}, ~y.ctx[a].isFdOpen, CtxRest(x.ctx[a], y.ctx[a]), x.ctx[a].ioFinish => y.ctx[a].ioFinish,
         a = "m" => y.ctx[a].lastErrno = x.ctx[a].lastErrno /\ y.ctx[a].closeNotify = x.ctx[a].closeNotify
  PROVE  Calm(x, y)
<1>1. OneFile(y)
  <2> SUFFICES ASSUME NEW e \in Ends
               PROVE  /\ y.fds[e] = IF y.ctx[e].isFdOpen THEN {y.ctx[e].openFd} ELSE {}
                      /\ y.ctx[e].ioFinish => ~y.ctx[e].isFdOpen
                      /\ y.ctx[e].task = "deleted" => ~y.ctx[e].isFdOpen /\ \A p \in y.req : p.end # e
    BY DEF OneFile
  <2>1. /\ x.fds[e] = IF x.ctx[e].isFdOpen THEN {x.ctx[e].openFd} ELSE {}
        /\ x.ctx[e].ioFinish => ~x.ctx[e].isFdOpen
        /\ x.ctx[e].task = "deleted" => ~x.ctx[e].isFdOpen /\ \A p \in x.req : p.end # e
    BY DEF Working, Core, OneFile
  <2> QED BY <2>1 DEF CtxRest
<1>2. \A e \in Ends : /\ CtxRest(x.ctx[e], y.ctx[e]) /\ (x.ctx[e].ioFinish => y.ctx[e].ioFinish)
                      /\ y.ctx[e].isFdOpen => x.ctx[e].isFdOpen
                      /\ e = "m" => y.ctx[e].lastErrno = x.ctx[e].lastErrno /\ y.ctx[e].closeNotify = x.ctx[e].closeNotify
  BY DEF CtxRest
<1>3. /\ Queue(y) = Queue(x) /\ Master(y).openFd = Master(x).openFd /\ Master(y).fileSize = Master(x).fileSize
      /\ Master(y).indexIO = Master(x).indexIO /\ Master(y).lastErrno = Master(x).lastErrno
      /\ Master(y).closeNotify = Master(x).closeNotify
      /\ Slave(y).openFd = Slave(x).openFd /\ Slave(y).fileSize = Slave(x).fileSize
      /\ Slave(y).indexIO = Slave(x).indexIO /\ (Slave(x).ioFinish => Slave(y).ioFinish)
  BY <1>2 DEF CtxRest, Master, Slave, Queue, Ends
<1>4. \A e \in Ends : (y.ctx[e].isFdOpen => x.ctx[e].isFdOpen) /\ y.ctx[e].task = x.ctx[e].task
  BY <1>2 DEF CtxRest
<1>5. Working(y)
  BY <1>1, <1>3, <1>4, XferQuiet
<1> QED BY <1>3, <1>4, <1>5, XferCalm

\* TaskFinish only ever tells the other end to close.
LEMMA XferTaskFinish ==
  ASSUME NEW x, Working(x), NEW a \in Ends, a = "s" => Slave(x).task # "none"
  PROVE  LET y == TaskFinish(x, a)
         IN  /\ Sent(x, y) /\ (NoData(x) <=> NoData(y)) /\ (Free(x) => Free(y))
             /\ ~x.ctx[a].singalStop => Closing(y, OtherEnd(a))
<1> DEFINE c == [cmd |-> "CHANNEL_CLOSE", arg |-> 1]
<1>1. MaySend(x, OtherEnd(a), c) /\ ~Control(x, OtherEnd(a), c)
  BY XferEnds DEF MaySend, Control, Commands, ToSlaveCommands, ToMasterCommands
<1> QED BY <1>1, XferSendTo DEF TaskFinish

\* What a handler must keep besides the invariant: who holds files open.
LEMMA XferHeldKeep ==
  ASSUME NEW x, Held(x), NEW y, NoData(x) => NoData(y), Master(y).isFdOpen => Master(x).isFdOpen,
         \A r \in x.req : r.op = "read" => r \in y.req \/ ~Master(y).isFdOpen,
         \A r \in y.req : r.op = "open" /\ r.end = "m" => r \in x.req,
         SlaveClosed(x) => SlaveClosed(y)
  PROVE  Held(y)
BY DEF Held

\* Closing the file of an end.
LEMMA XferCloseCtxFd ==
  ASSUME NEW x, Working(x), NEW a \in Ends
  PROVE  LET y == CloseCtxFd(x, a)
         IN  /\ Calm(x, y) /\ ~y.ctx[a].isFdOpen /\ y.fds[a] = {} /\ y.req = x.req /\ y.net = x.net
             /\ y.made = x.made /\ y.data = x.data /\ y.told = x.told /\ y.summary = x.summary
             /\ y.forkFailed = x.forkFailed /\ y.emptyFailed = x.emptyFailed
             /\ \A e \in Ends : e # a => y.ctx[e] = x.ctx[e] /\ y.fds[e] = x.fds[e]
             /\ CtxRest(x.ctx[a], y.ctx[a]) /\ y.ctx[a].ioFinish = x.ctx[a].ioFinish
             /\ y.ctx[a].lastErrno = x.ctx[a].lastErrno /\ y.ctx[a].closeNotify = x.ctx[a].closeNotify
             /\ \A b \in Ends, k \in Int : RefsBut(x, b, k) => RefsBut(y, b, k)
             /\ Held(x) => Held(y)
<1> DEFINE y == CloseCtxFd(x, a)
<1>0. /\ TransferShape(x)
      /\ DOMAIN x = DOMAIN NoTransfer /\ DOMAIN x.ctx = Ends /\ DOMAIN x.fds = Ends /\ DOMAIN x.net = Ends
      /\ \A e \in Ends : CtxShape(x.ctx[e])
      /\ DOMAIN x.ctx[a] = DOMAIN NewCtx("none")
      /\ x.fds[a] = IF x.ctx[a].isFdOpen THEN {x.ctx[a].openFd} ELSE {}
      /\ SlaveErrors(x)
  BY XferParts DEF Working, Core, OneFile, ErrorsKnown, SlaveErrors
<1>01. ASSUME x.ctx[a].isFdOpen
       PROVE  /\ y.net = x.net /\ y.req = x.req /\ y.made = x.made /\ y.data = x.data /\ y.told = x.told
              /\ y.summary = x.summary /\ y.forkFailed = x.forkFailed /\ y.emptyFailed = x.emptyFailed
              /\ DOMAIN y = DOMAIN x
              /\ y.ctx = [x.ctx EXCEPT ![a].isFdOpen = FALSE] /\ y.fds = [x.fds EXCEPT ![a] = {}]
  <2>1. y = [x EXCEPT !.ctx[a].isFdOpen = FALSE, !.fds[a] = @ \ {x.ctx[a].openFd}]
    BY <1>01 DEF CloseCtxFd
  <2>2. x.fds[a] \ {x.ctx[a].openFd} = {}
    BY <1>0, <1>01
  <2>3. y.ctx = [x.ctx EXCEPT ![a].isFdOpen = FALSE] /\ y.fds = [x.fds EXCEPT ![a] = {}]
    BY <1>0, <2>1, <2>2 DEF NoTransfer
  <2> QED BY <1>0, <2>1, <2>3 DEF NoTransfer
<1>02. ASSUME ~x.ctx[a].isFdOpen PROVE y = x /\ x.fds[a] = {}
  BY <1>0, <1>02 DEF CloseCtxFd
<1> HIDE DEF y
<1>1. /\ y.net = x.net /\ y.req = x.req /\ y.made = x.made /\ y.data = x.data /\ y.told = x.told /\ y.summary = x.summary
      /\ y.forkFailed = x.forkFailed /\ y.emptyFailed = x.emptyFailed /\ DOMAIN y = DOMAIN x
  BY <1>01, <1>02
<1>2. /\ y.fds[a] = {} /\ DOMAIN y.ctx = Ends /\ DOMAIN y.fds = Ends
      /\ \A e \in Ends : e # a => y.ctx[e] = x.ctx[e] /\ y.fds[e] = x.fds[e]
  BY <1>0, <1>01, <1>02
<1>3. /\ CtxRest(x.ctx[a], y.ctx[a]) /\ y.ctx[a].ioFinish = x.ctx[a].ioFinish /\ ~y.ctx[a].isFdOpen
      /\ y.ctx[a].lastErrno = x.ctx[a].lastErrno /\ y.ctx[a].closeNotify = x.ctx[a].closeNotify
      /\ y.ctx[a].refCount = x.ctx[a].refCount /\ CtxShape(y.ctx[a])
  <2>1. CASE x.ctx[a].isFdOpen
    <3>1. y.ctx[a] = [x.ctx[a] EXCEPT !.isFdOpen = FALSE]
      BY <1>0, <1>01, <2>1
    <3> QED BY <1>0, <3>1 DEF CtxRest, NewCtx, CtxShape
  <2>2. CASE ~x.ctx[a].isFdOpen
    BY <1>0, <1>02, <2>2 DEF CtxRest
  <2> QED BY <2>1, <2>2
<1>4. TransferShape(y)
  <2>1. Queue(y) = Queue(x) /\ y.ctx["s"].taskQueue = x.ctx["s"].taskQueue
    BY <1>2, <1>3 DEF Queue, Master, CtxRest, Ends
  <2>2. \A e \in Ends : CtxShape(y.ctx[e])
    BY <1>0, <1>2, <1>3
  <2>3. y.forkFailed \in BOOLEAN /\ y.emptyFailed \in BOOLEAN /\ IsFiniteSet(y.req) /\ y.ctx["s"].taskQueue = <<>>
        /\ \A r \in y.req : r \in x.req
    BY <1>0, <1>1, <2>1, XferParts
  <2> QED BY <1>0, <1>1, <1>2, <2>1, <2>2, <2>3, XferShape, Zenon
<1>5. SlaveErrors(y)
  <2>1. /\ Slave(y).closeNotify = Slave(x).closeNotify /\ Slave(y).ioFinish = Slave(x).ioFinish
        /\ Slave(y).lastErrno = Slave(x).lastErrno /\ Slave(y).singalStop = Slave(x).singalStop
        /\ Master(y).task = Master(x).task
    BY <1>2, <1>3 DEF Slave, Master, Ends, CtxRest
  <2>2. Closing(x, "m") => Closing(y, "m")
    BY <1>1, <2>1 DEF Closing, Master
  <2> QED BY <1>0, <1>1, <2>1, <2>2 DEF SlaveErrors
<1>6. Calm(x, y)
  <2>1. y.req \subseteq x.req /\ x.told \subseteq y.told
    BY <1>1
  <2>2. \A e \in Ends : e # a => y.ctx[e] = x.ctx[e] /\ y.fds[e] = x.fds[e]
    BY <1>2
  <2>3. y.summary = x.summary \/ (y.summary = "ok" /\ ~y.emptyFailed => AllDone(x))
    BY <1>1
  <2> QED BY <1>1, <1>2, <1>3, <1>4, <1>5, <2>1, <2>2, <2>3, XferFileClosed, ZenonT(40)
<1>7. \A b \in Ends, k \in Int : RefsBut(x, b, k) => RefsBut(y, b, k)
  BY <1>1, <1>2, <1>3, XferRefsSame
<1>8. Held(x) => Held(y)
  <2>1. Master(y).isFdOpen => Master(x).isFdOpen
    BY <1>2, <1>3 DEF Master, Ends
  <2> QED BY <1>1, <1>6, <2>1, XferHeldKeep DEF Calm
<1> QED BY <1>1, <1>2, <1>3, <1>6, <1>7, <1>8 DEF y

\* The queue counts down: its last file is its length.
LEMMA XferQueue ==
  ASSUME PlanFits, NEW q, QueueShape(q)
  PROVE  /\ Len(q) \in Nat /\ QueueShape(SubSeq(q, 1, Len(q) - 1))
         /\ q # <<>> => /\ Len(q) \in Files /\ q[Len(q)] = Len(q)
                        /\ Len(SubSeq(q, 1, Len(q) - 1)) = Len(q) - 1
         /\ q = <<>> => Len(q) = 0 /\ Len(SubSeq(q, 1, Len(q) - 1)) = 0
<1>1. Len(q) \in Nat /\ q = [i \in 1 .. Len(q) |-> i] /\ Len(q) <= Len(xcfg.sizes) /\ Len(xcfg.sizes) \in Nat
  BY DEF QueueShape, PlanFits
<1>2. q \in Seq(Nat)
  BY <1>1
<1>3. CASE q # <<>>
  <2>1. Len(q) > 0
    BY <1>2, <1>3
  <2>2. SubSeq(q, 1, Len(q) - 1) = [i \in 1 .. (Len(q) - 1) |-> i]
    <3>1. SubSeq(q, 1, Len(q) - 1) = [i \in 1 .. (Len(q) - 1) |-> q[i]]
      BY <1>1, <1>2, <2>1
    <3>2. \A i \in 1 .. (Len(q) - 1) : q[i] = i
      BY <1>1
    <3> QED BY <3>1, <3>2
  <2>3. Len(SubSeq(q, 1, Len(q) - 1)) = Len(q) - 1
    <3> DEFINE m == Len(q) - 1
    <3>1. m \in Nat
      BY <1>1, <2>1
    <3> HIDE DEF m
    <3>2. Len([i \in 1 .. m |-> i]) = m
      BY <3>1
    <3> QED BY <2>2, <3>2 DEF m
  <2>4. q[Len(q)] = Len(q)
    BY <1>1, <2>1
  <2> QED BY <1>1, <1>3, <2>1, <2>2, <2>3, <2>4 DEF QueueShape, Files
<1>4. CASE q = <<>>
  <2>1. Len(q) = 0
    BY <1>4
  <2>2. SubSeq(q, 1, Len(q) - 1) = <<>>
    BY <1>4, <2>1
  <2>3. Len(<<>>) = 0 /\ <<>> = [i \in 1 .. 0 |-> i]
    OBVIOUS
  <2> QED BY <1>1, <1>4, <2>1, <2>2, <2>3 DEF QueueShape
<1> QED BY <1>3, <1>4

\* The file that is done leaves the queue.
LEMMA XferPopQueue ==
  ASSUME PlanFits, NEW x, Working(x), Free(x), NoData(x), ~Master(x).lastErrno,
         ~isApp /\ ~xcfg.shrinks /\ InQueue(x) /\ Queue(x) # <<>> => Done(x, Cur(x))
  PROVE  LET y == [x EXCEPT !.ctx["m"].taskQueue = SubSeq(Queue(x), 1, Len(Queue(x)) - 1)]
         IN  /\ Working(y) /\ Free(y) /\ NoData(y) /\ y.net = x.net /\ y.req = x.req /\ SameDisk(x, y)
             /\ (\A e \in Ends : Closing(x, e) => Closing(y, e))
             /\ Slave(y) = Slave(x) /\ Queue(y) = SubSeq(Queue(x), 1, Len(Queue(x)) - 1)
             /\ Master(y).isFdOpen = Master(x).isFdOpen /\ Master(y).lastErrno = Master(x).lastErrno
             /\ \A e \in Ends : /\ y.ctx[e].task = x.ctx[e].task /\ y.ctx[e].singalStop = x.ctx[e].singalStop
                                /\ y.ctx[e].isFdOpen = x.ctx[e].isFdOpen /\ y.ctx[e].refCount = x.ctx[e].refCount
             /\ Queue(x) # <<>> => Cur(y) = Cur(x) - 1 /\ Cur(y) \notin y.made
<1> DEFINE q == Queue(x)
           p == SubSeq(q, 1, Len(q) - 1)
           y == [x EXCEPT !.ctx["m"].taskQueue = p]
<1>0. TransferShape(x) /\ OneFile(x) /\ DiskFits(x) /\ SlaveErrors(x) /\ ~Master(x).closeNotify
  BY DEF Working, Core, ErrorsKnown, SlaveErrors
<1>01. /\ DOMAIN x = DOMAIN NoTransfer /\ DOMAIN x.ctx = Ends /\ QueueShape(q) /\ "m" \in Ends /\ "s" \in Ends
       /\ \A e \in Ends : CtxShape(x.ctx[e]) /\ DOMAIN x.ctx[e] = DOMAIN NewCtx("none")
  BY <1>0, XferParts, XferEnds
<1>1. /\ QueueShape(p) /\ Len(q) \in Nat
      /\ q # <<>> => Len(q) \in Files /\ q[Len(q)] = Len(q) /\ Len(p) = Len(q) - 1
      /\ q = <<>> => Len(q) = 0 /\ Len(p) = 0
  BY <1>01, XferQueue
<1> HIDE DEF p
<1>2. y.net = x.net /\ y.req = x.req /\ SameDisk(x, y) /\ DOMAIN y = DOMAIN x
      /\ y.ctx = [x.ctx EXCEPT !["m"].taskQueue = p]
  BY <1>01 DEF SameDisk, NoTransfer
<1> HIDE DEF y, q
<1>3. DOMAIN y.ctx = Ends /\ y.ctx["s"] = x.ctx["s"] /\ y.ctx["m"] = [x.ctx["m"] EXCEPT !.taskQueue = p]
  BY <1>01, <1>2 DEF Ends
<1>4. /\ y.ctx["m"].taskQueue = p /\ CtxShape(y.ctx["m"])
      /\ y.ctx["m"].task = x.ctx["m"].task /\ y.ctx["m"].singalStop = x.ctx["m"].singalStop
      /\ y.ctx["m"].isFdOpen = x.ctx["m"].isFdOpen /\ y.ctx["m"].refCount = x.ctx["m"].refCount
      /\ y.ctx["m"].openFd = x.ctx["m"].openFd /\ y.ctx["m"].ioFinish = x.ctx["m"].ioFinish
      /\ y.ctx["m"].lastErrno = x.ctx["m"].lastErrno /\ y.ctx["m"].closeNotify = x.ctx["m"].closeNotify
  BY <1>01, <1>3 DEF NewCtx, CtxShape
<1>5. \A e \in Ends : /\ y.ctx[e].task = x.ctx[e].task /\ y.ctx[e].singalStop = x.ctx[e].singalStop
                      /\ y.ctx[e].isFdOpen = x.ctx[e].isFdOpen /\ y.ctx[e].refCount = x.ctx[e].refCount
                      /\ y.ctx[e].openFd = x.ctx[e].openFd /\ y.ctx[e].ioFinish = x.ctx[e].ioFinish
                      /\ CtxShape(y.ctx[e])
  BY <1>01, <1>3, <1>4 DEF Ends
<1>6. Slave(y) = Slave(x) /\ Queue(y) = p /\ Master(y).lastErrno = Master(x).lastErrno
      /\ Master(y).closeNotify = Master(x).closeNotify /\ Master(y).isFdOpen = Master(x).isFdOpen
  BY <1>3, <1>4 DEF Slave, Queue, Master
<1>7. TransferShape(y)
  <2>1. /\ DOMAIN y.fds = Ends /\ y.forkFailed \in BOOLEAN /\ y.emptyFailed \in BOOLEAN /\ IsFiniteSet(y.req)
        /\ y.ctx["s"].taskQueue = <<>> /\ (\A r \in y.req : r \in x.req) /\ QueueShape(Queue(y))
        /\ \A e \in Ends : CtxShape(y.ctx[e])
    BY <1>0, <1>1, <1>2, <1>3, <1>5, <1>6, XferParts DEF SameDisk
  <2> QED BY <1>0, <1>2, <1>3, <2>1, XferShape, Zenon
<1>8. OneFile(y)
  <2>1. y.fds = x.fds
    BY <1>2 DEF SameDisk
  <2> QED BY <1>0, <1>2, <1>5, <2>1 DEF OneFile
<1>9. /\ Cur(y) = Cur(x) \/ (q # <<>> /\ Cur(y) = Cur(x) - 1)
      /\ q # <<>> => Cur(y) = Cur(x) - 1
      /\ q = <<>> => Cur(y) = Cur(x)
      /\ Cur(x) \in Nat /\ Cur(y) \in Nat
  BY <1>1, <1>6 DEF Cur, q
<1>10. DiskFits(y)
  <2>1. \A f : Arrived(y, f) = Arrived(x, f)
    BY <1>2 DEF Arrived, SameDisk
  <2>2. CASE q = <<>>
    <3>1. Cur(y) = Cur(x) /\ (SlaveReady(y) <=> SlaveReady(x)) /\ Slave(y) = Slave(x)
      BY <1>2, <1>6, <1>9, <2>2 DEF SlaveReady, SameDisk
    <3>2. Master(y).indexIO = Master(x).indexIO /\ (MasterReady(y) <=> MasterReady(x))
      BY <1>01, <1>3, <3>1 DEF Master, NewCtx, MasterReady
    <3> QED BY <1>0, <1>2, <2>1, <3>1, <3>2 DEF DiskFits, SameDisk
  <2>3. CASE q # <<>>
    <3>0. y.made = x.made /\ y.data = x.data /\ \A f \in x.made : f \in Files /\ f >= Cur(x)
      BY <1>0, <1>2 DEF DiskFits, SameDisk
    <3>1. Cur(y) \notin y.made
      <4> SUFFICES ASSUME Cur(y) \in x.made PROVE FALSE
        BY <3>0
      <4>1. Cur(y) >= Cur(x)
        BY <3>0
      <4> QED BY <1>9, <2>3, <4>1
    <3>2. \A f \in y.made : f >= Cur(y)
      <4> SUFFICES ASSUME NEW f \in x.made PROVE f >= Cur(y)
        BY <3>0
      <4>1. f \in Int /\ f >= Cur(x)
        BY <3>0 DEF Files
      <4> QED BY <1>9, <2>3, <4>1
    <3> QED BY <1>0, <3>0, <3>1, <3>2 DEF DiskFits, SlaveReady
  <2> QED BY <2>2, <2>3
<1>11. SlaveErrors(y)
  <2>1. Closing(x, "m") => Closing(y, "m")
    BY <1>2, <1>5, XferEnds DEF Closing
  <2> QED BY <1>0, <1>2, <1>6, <2>1 DEF SlaveErrors
<1>12. Done(x, Cur(x)) => Done(y, Cur(x))
  BY <1>2 DEF Done, Arrived, SameDisk
<1>13. Working(y) /\ Free(y) /\ NoData(y) /\ (\A e \in Ends : Closing(x, e) => Closing(y, e))
  <2>1. Queue(y) # <<>> => Queue(x) # <<>>
    BY <1>1, <1>6 DEF q
  <2>2. /\ \A e \in Ends : y.ctx[e].task = x.ctx[e].task
        /\ ~Master(y).lastErrno /\ ~Master(y).closeNotify
        /\ y.summary = x.summary /\ y.emptyFailed = x.emptyFailed /\ x.told \subseteq y.told /\ x.made \subseteq y.made
        /\ y.data = x.data
    BY <1>0, <1>2, <1>5, <1>6 DEF SameDisk
  <2>3. Cur(y) = Cur(x) \/ (Queue(x) # <<>> /\ Cur(y) = Cur(x) - 1)
    BY <1>9 DEF q
  <2>4. ~isApp /\ ~xcfg.shrinks /\ Cur(y) # Cur(x) /\ InQueue(x) => Done(y, Cur(x))
    BY <1>9, <1>12 DEF q
  <2> QED BY <1>2, <1>7, <1>8, <1>10, <1>11, <2>1, <2>2, <2>3, <2>4, XferBetween
<1>14. q # <<>> => Cur(y) \notin y.made
  BY <1>9, <1>0, <1>2 DEF DiskFits, SameDisk, Files
<1> QED BY <1>2, <1>5, <1>6, <1>9, <1>13, <1>14 DEF y, q, p

\* TransferNext: the next file of the queue is the token.
LEMMA XferNextFile ==
  ASSUME PlanFits, NEW x, Working(x), Free(x), NoData(x), ~Master(x).lastErrno, ~x.forkFailed, ~isApp,
         Queue(x) # <<>>, ~Master(x).isFdOpen, Master(x).task # "deleted",
         ~xcfg.shrinks /\ InQueue(x) => Done(x, Cur(x))
  PROVE  LET y == TransferNext(x)
         IN  /\ Working(y) /\ NoData(y) /\ y.net = x.net /\ SameDisk(x, y)
             /\ (\A e \in Ends : Closing(x, e) => Closing(y, e))
             /\ (\A e \in Ends : /\ y.ctx[e].task = x.ctx[e].task /\ y.ctx[e].singalStop = x.ctx[e].singalStop
                                 /\ y.ctx[e].isFdOpen = x.ctx[e].isFdOpen)
             /\ (\A b \in Ends, k \in Int : RefsBut(x, b, k) => RefsBut(y, b, k))
             /\ (SlaveClosed(x) => SlaveClosed(y)) /\ (SlaveClosed(y) => Held(y))
<1> DEFINE q == Queue(x)
           w == [x EXCEPT !.ctx["m"].taskQueue = SubSeq(q, 1, Len(q) - 1)]
           r == [end |-> "m", op |-> "open", file |-> q[Len(q)], index |-> 0]
           y == Request(w, "m", "open", q[Len(q)], 0)
<1>0. TransferNext(x) = y
  BY DEF TransferNext, Queue, Master
<1>1. /\ Working(w) /\ Free(w) /\ NoData(w) /\ w.net = x.net /\ w.req = x.req /\ SameDisk(x, w)
      /\ (\A e \in Ends : Closing(x, e) => Closing(w, e))
      /\ Slave(w) = Slave(x) /\ Queue(w) = SubSeq(q, 1, Len(q) - 1)
      /\ Master(w).isFdOpen = Master(x).isFdOpen /\ Master(w).lastErrno = Master(x).lastErrno
      /\ (\A e \in Ends : /\ w.ctx[e].task = x.ctx[e].task /\ w.ctx[e].singalStop = x.ctx[e].singalStop
                          /\ w.ctx[e].isFdOpen = x.ctx[e].isFdOpen /\ w.ctx[e].refCount = x.ctx[e].refCount)
      /\ Cur(w) = Cur(x) - 1 /\ Cur(w) \notin w.made
  BY XferPopQueue
<1> HIDE DEF w
<1>2. QueueShape(q) /\ Len(q) \in Files /\ q[Len(q)] = Len(q) /\ Len(q) \in Nat
  BY XferParts, XferQueue DEF Working, Core
<1>3. Cur(w) = q[Len(q)] /\ InQueue(w)
  <2>1. Cur(x) = Len(q) + 1
    BY DEF Cur
  <2>2. Cur(w) = Len(q)
    BY <1>1, <1>2, <2>1
  <2> QED BY <1>2, <2>2 DEF InQueue
<1>4. ReqShape(r) /\ TransferShape(w)
  BY <1>1, XferEnds DEF ReqShape, Working, Core
<1>5. /\ TransferShape(y) /\ y.net = w.net /\ SameDisk(w, y) /\ y.req = w.req \cup {r}
      /\ \A e \in Ends : Kept(w.ctx[e], y.ctx[e]) /\ y.ctx[e].task = w.ctx[e].task
      /\ r \notin w.req => \A b \in Ends, k \in Int : RefsBut(w, b, k) => RefsBut(y, b, k)
  BY <1>4, XferRequest, XferEnds
<1> HIDE DEF y
<1>6. OpenFacts(w, r.file) /\ ~w.ctx[r.end].isFdOpen /\ ~w.forkFailed /\ r.end # "s" /\ w.ctx[r.end].task # "deleted"
  <2>1. r.file = Cur(w) /\ r.end = "m"
    BY <1>3
  <2>2. ~w.ctx["m"].isFdOpen /\ w.ctx["m"].task # "deleted" /\ ~w.forkFailed
    BY <1>1, XferEnds DEF Master, SameDisk
  <2>3. OpenFacts(w, r.file)
    BY <1>1, <1>3, <2>1 DEF OpenFacts
  <2> QED BY <2>1, <2>2, <2>3
<1>7. Working(y) /\ r \notin w.req
  <2>1. r.op = "open"
    OBVIOUS
  <2> HIDE DEF r
  <2> QED BY <1>1, <1>5, <1>6, <2>1, XferAsk
<1>8. \A e \in Ends : y.ctx[e].task = x.ctx[e].task /\ y.ctx[e].singalStop = x.ctx[e].singalStop
                      /\ y.ctx[e].isFdOpen = x.ctx[e].isFdOpen
  BY <1>1, <1>5 DEF Kept
<1>9. \A e \in Ends : Closing(x, e) => Closing(y, e)
  BY <1>1, <1>5, <1>8 DEF Closing
<1>10. NoData(y)
  BY <1>1, <1>5 DEF NoData, IsData
<1>11. SlaveClosed(x) => SlaveClosed(y)
  BY <1>8, <1>9, XferEnds DEF SlaveClosed, Slave
<1>12. \A b \in Ends, k \in Int : RefsBut(x, b, k) => RefsBut(y, b, k)
  <2>1. \A b \in Ends, k \in Int : RefsBut(x, b, k) => RefsBut(w, b, k)
    BY <1>1, XferRefsSame DEF SameDisk
  <2> QED BY <1>5, <1>7, <2>1
<1>13. SlaveClosed(y) => Held(y)
  BY <1>10 DEF Held
<1>14. SameDisk(x, y) /\ y.net = x.net
  BY <1>1, <1>5 DEF SameDisk
<1> QED BY <1>0, <1>7, <1>8, <1>9, <1>10, <1>11, <1>12, <1>13, <1>14

\* RunQueue: the next package is the token.
LEMMA XferRunQueue ==
  ASSUME PlanFits, NEW x, Working(x), Free(x), NoData(x), ~Master(x).lastErrno, ~x.forkFailed, isApp,
         Queue(x) # <<>>, ~Master(x).isFdOpen, Master(x).task # "deleted", Cur(x) \notin x.made, SlaveClosed(x)
  PROVE  LET y == RunQueue(x)
         IN  Working(y) /\ Held(y) /\ (\A b \in Ends, k \in Int : RefsBut(x, b, k) => RefsBut(y, b, k))
<1> DEFINE q == Queue(x)
           r == [end |-> "m", op |-> "open", file |-> q[Len(q)], index |-> 0]
           y == Request(x, "m", "open", q[Len(q)], 0)
<1>0. RunQueue(x) = y
  BY DEF RunQueue, Queue, Master
<1>2. QueueShape(q) /\ Len(q) \in Files /\ q[Len(q)] = Len(q) /\ Len(q) \in Nat
  BY XferParts, XferQueue DEF Working, Core
<1>3. Cur(x) = q[Len(q)] /\ InQueue(x)
  BY <1>2 DEF Cur, InQueue
<1>4. ReqShape(r) /\ TransferShape(x)
  BY XferEnds DEF ReqShape, Working, Core
<1>5. /\ TransferShape(y) /\ y.net = x.net /\ SameDisk(x, y) /\ y.req = x.req \cup {r}
      /\ \A e \in Ends : Kept(x.ctx[e], y.ctx[e]) /\ y.ctx[e].task = x.ctx[e].task
      /\ r \notin x.req => \A b \in Ends, k \in Int : RefsBut(x, b, k) => RefsBut(y, b, k)
  BY <1>4, XferRequest, XferEnds
<1> HIDE DEF y
<1>6. OpenFacts(x, r.file) /\ ~x.ctx[r.end].isFdOpen /\ r.end # "s" /\ x.ctx[r.end].task # "deleted"
  <2>1. r.file = Cur(x) /\ r.end = "m"
    BY <1>3
  <2> QED BY <1>3, <2>1 DEF OpenFacts, Master
<1>7. Working(y) /\ r \notin x.req
  <2>1. r.op = "open"
    OBVIOUS
  <2> HIDE DEF r
  <2> QED BY <1>5, <1>6, <2>1, XferAsk
<1>8. SlaveClosed(y)
  BY <1>5, XferEnds DEF SlaveClosed, Slave, Closing, Kept
<1>9. NoData(y)
  BY <1>5 DEF NoData, IsData
<1> QED BY <1>0, <1>5, <1>7, <1>8, <1>9 DEF Held

\* The last file is done, and every other one was.
LEMMA XferAllDone ==
  ASSUME PlanFits, NEW x, Working(x), ~isApp, Queue(x) = <<>>, ~xcfg.shrinks => Done(x, Cur(x))
  PROVE  AllDone(x)
<1>1. Cur(x) = 1
  BY DEF Cur
<1>2. ~xcfg.shrinks => \A f \in Files : f > Cur(x) => Done(x, f)
  BY DEF Working, Core, FinishMeans
<1>3. \A f \in Files : f > 1 \/ f = 1
  BY DEF Files, PlanFits
<1> QED BY <1>1, <1>2, <1>3 DEF AllDone

\* An end whose file is closed takes it for finished.
LEMMA XferIoFinish ==
  ASSUME NEW x, Working(x), NEW a \in Ends, ~x.ctx[a].isFdOpen
  PROVE  LET y == [x EXCEPT !.ctx[a].ioFinish = TRUE]
         IN  /\ Calm(x, y) /\ y.req = x.req /\ y.net = x.net /\ SameDisk(x, y)
             /\ (\A e \in Ends : e # a => y.ctx[e] = x.ctx[e])
             /\ CtxRest(x.ctx[a], y.ctx[a]) /\ y.ctx[a].isFdOpen = x.ctx[a].isFdOpen /\ y.ctx[a].ioFinish
             /\ y.ctx[a].lastErrno = x.ctx[a].lastErrno /\ y.ctx[a].closeNotify = x.ctx[a].closeNotify
             /\ \A b \in Ends, k \in Int : RefsBut(x, b, k) => RefsBut(y, b, k)
             /\ Held(x) => Held(y)
<1> DEFINE y == [x EXCEPT !.ctx[a].ioFinish = TRUE]
<1>0. /\ TransferShape(x) /\ DOMAIN x = DOMAIN NoTransfer /\ DOMAIN x.ctx = Ends /\ DOMAIN x.fds = Ends
      /\ (\A e \in Ends : CtxShape(x.ctx[e])) /\ DOMAIN x.ctx[a] = DOMAIN NewCtx("none")
      /\ x.fds[a] = {} /\ SlaveErrors(x)
  BY XferParts DEF Working, Core, OneFile, ErrorsKnown, SlaveErrors
<1>1. y.net = x.net /\ y.req = x.req /\ SameDisk(x, y) /\ DOMAIN y = DOMAIN x /\ y.ctx = [x.ctx EXCEPT ![a].ioFinish = TRUE]
  BY <1>0 DEF NoTransfer, SameDisk
<1> HIDE DEF y
<1>2. y.ctx[a] = [x.ctx[a] EXCEPT !.ioFinish = TRUE] /\ DOMAIN y.ctx = Ends /\ \A e \in Ends : e # a => y.ctx[e] = x.ctx[e]
  BY <1>0, <1>1
<1>3. /\ CtxRest(x.ctx[a], y.ctx[a]) /\ y.ctx[a].isFdOpen = x.ctx[a].isFdOpen /\ y.ctx[a].ioFinish
      /\ y.ctx[a].lastErrno = x.ctx[a].lastErrno /\ y.ctx[a].closeNotify = x.ctx[a].closeNotify
      /\ y.ctx[a].refCount = x.ctx[a].refCount /\ CtxShape(y.ctx[a])
  BY <1>0, <1>2 DEF CtxRest, NewCtx, CtxShape
<1>4. TransferShape(y)
  <2>1. Queue(y) = Queue(x) /\ y.ctx["s"].taskQueue = x.ctx["s"].taskQueue
    BY <1>2, <1>3 DEF Queue, Master, CtxRest, Ends
  <2>2. /\ y.forkFailed \in BOOLEAN /\ y.emptyFailed \in BOOLEAN /\ IsFiniteSet(y.req) /\ y.ctx["s"].taskQueue = <<>>
        /\ (\A r \in y.req : r \in x.req) /\ (\A e \in Ends : CtxShape(y.ctx[e])) /\ DOMAIN y.fds = Ends
    BY <1>0, <1>1, <1>2, <1>3, <2>1, XferParts DEF SameDisk
  <2> QED BY <1>0, <1>1, <1>2, <2>1, <2>2, XferShape, Zenon
<1>5. SlaveErrors(y)
  <2>1. /\ Slave(y).closeNotify = Slave(x).closeNotify /\ (Slave(x).ioFinish => Slave(y).ioFinish)
        /\ Slave(y).lastErrno = Slave(x).lastErrno /\ Slave(y).singalStop = Slave(x).singalStop
        /\ Master(y).task = Master(x).task
    BY <1>2, <1>3 DEF Slave, Master, Ends, CtxRest
  <2>2. Closing(x, "m") => Closing(y, "m")
    BY <1>1, <2>1 DEF Closing, Master
  <2> QED BY <1>0, <1>1, <2>1, <2>2 DEF SlaveErrors
<1>6. Calm(x, y)
  <2>1. /\ y.req \subseteq x.req /\ x.told \subseteq y.told /\ y.made = x.made /\ y.data = x.data
        /\ y.forkFailed = x.forkFailed /\ (x.emptyFailed => y.emptyFailed) /\ y.fds[a] = {}
        /\ y.summary = x.summary \/ (y.summary = "ok" /\ ~y.emptyFailed => AllDone(x))
        /\ (\A e \in Ends : e # a => y.ctx[e] = x.ctx[e] /\ y.fds[e] = x.fds[e])
        /\ ~y.ctx[a].isFdOpen /\ (x.ctx[a].ioFinish => y.ctx[a].ioFinish)
    BY <1>0, <1>1, <1>2, <1>3 DEF SameDisk
  <2>2. \A e \in Ends : e # a => y.ctx[e] = x.ctx[e] /\ y.fds[e] = x.fds[e]
    BY <2>1
  <2>3. a = "m" => y.ctx[a].lastErrno = x.ctx[a].lastErrno /\ y.ctx[a].closeNotify = x.ctx[a].closeNotify
    BY <1>3
  <2>4. CtxRest(x.ctx[a], y.ctx[a]) /\ y.net = x.net
    BY <1>1, <1>3
  <2> QED BY <1>4, <1>5, <2>1, <2>2, <2>3, <2>4, XferFileClosed, ZenonT(60)
<1>7. \A b \in Ends, k \in Int : RefsBut(x, b, k) => RefsBut(y, b, k)
  BY <1>1, <1>2, <1>3, XferRefsSame, ZenonT(40) DEF SameDisk
<1>8. Held(x) => Held(y)
  <2>1. Master(y).isFdOpen => Master(x).isFdOpen
    BY <1>2, <1>3 DEF Master, Ends
  <2> QED BY <1>1, <1>6, <2>1, XferHeldKeep DEF Calm
<1> QED BY <1>1, <1>2, <1>3, <1>6, <1>7, <1>8 DEF y

\* CMD_FILE_FINISH for the last file: it is closed and the end is announced.
LEMMA XferLastFile ==
  ASSUME NEW x, Working(x), NEW a \in Ends, ~isApp, a = "m" => AllDone(x),
         a = "s" => Master(x).lastErrno /\ Slave(x).task # "none"
  PROVE  LET y == SendToAnother([CloseCtxFd(x, a) EXCEPT !.ctx[a].ioFinish = TRUE], a, "FINISH", 0)
         IN  /\ Working(y) /\ (Held(x) => Held(y))
             /\ (\A b \in Ends, k \in Int : RefsBut(x, b, k) => RefsBut(y, b, k))
             /\ (NoData(x) => NoData(y)) /\ (SlaveClosed(x) => SlaveClosed(y)) /\ y.req = x.req
             /\ (\A e \in Ends : y.ctx[e].task = x.ctx[e].task /\ y.ctx[e].singalStop = x.ctx[e].singalStop)
<1> DEFINE v == CloseCtxFd(x, a)
           w == [v EXCEPT !.ctx[a].ioFinish = TRUE]
           c == [cmd |-> "FINISH", arg |-> 0]
           y == SendToAnother(w, a, "FINISH", 0)
<1>1. /\ Calm(x, v) /\ ~v.ctx[a].isFdOpen /\ v.req = x.req
      /\ (\A e \in Ends : e # a => v.ctx[e] = x.ctx[e])
      /\ CtxRest(x.ctx[a], v.ctx[a]) /\ v.ctx[a].lastErrno = x.ctx[a].lastErrno
      /\ (\A b \in Ends, k \in Int : RefsBut(x, b, k) => RefsBut(v, b, k))
      /\ (Held(x) => Held(v))
  BY XferCloseCtxFd
<1> HIDE DEF v
<1>2. /\ Calm(v, w) /\ w.req = v.req
      /\ (\A e \in Ends : e # a => w.ctx[e] = v.ctx[e])
      /\ CtxRest(v.ctx[a], w.ctx[a]) /\ w.ctx[a].lastErrno = v.ctx[a].lastErrno
      /\ (\A b \in Ends, k \in Int : RefsBut(v, b, k) => RefsBut(w, b, k))
      /\ (Held(v) => Held(w))
  BY <1>1, XferIoFinish, ZenonT(40) DEF Calm
<1> HIDE DEF w
<1>3. /\ Working(w) /\ (AllDone(x) => AllDone(w)) /\ (NoData(x) => NoData(w)) /\ (SlaveClosed(x) => SlaveClosed(w))
      /\ w.req = x.req /\ (Held(x) => Held(w))
      /\ (\A b \in Ends, k \in Int : RefsBut(x, b, k) => RefsBut(w, b, k))
  BY <1>1, <1>2 DEF Calm
<1>4. \A e \in Ends : w.ctx[e].task = x.ctx[e].task /\ w.ctx[e].singalStop = x.ctx[e].singalStop /\ w.ctx[e].lastErrno = x.ctx[e].lastErrno
  BY <1>1, <1>2 DEF CtxRest
<1>5. MaySend(w, OtherEnd(a), c) /\ ~Control(w, OtherEnd(a), c)
  <2>1. Slave(w).task = Slave(x).task /\ Master(w).lastErrno = Master(x).lastErrno
    BY <1>4, XferEnds DEF Slave, Master
  <2> QED BY <1>3, <2>1, XferEnds DEF MaySend, Control, Commands, ToSlaveCommands, ToMasterCommands
<1>6. Sent(w, y) /\ (NoData(w) <=> NoData(y))
  BY <1>3, <1>5, XferSendTo
<1> HIDE DEF y
<1>7. y.ctx = w.ctx /\ y.req = w.req /\ Working(y) /\ (\A e \in Ends : Closing(w, e) => Closing(y, e))
      /\ \A b \in Ends, k \in Int : RefsBut(w, b, k) => RefsBut(y, b, k)
  BY <1>6 DEF Sent
<1>8. SlaveClosed(w) => SlaveClosed(y)
  BY <1>7, XferEnds DEF SlaveClosed, Slave
<1>9. Held(w) => Held(y)
  BY <1>6, <1>7, <1>8, XferHeldKeep DEF Master
<1> QED BY <1>3, <1>4, <1>6, <1>7, <1>8, <1>9 DEF y, w, v

\* CMD_FILE_FINISH at the master when the file is the token's: the next file.
LEMMA XferFileEnd ==
  ASSUME PlanFits, NEW x, Working(x), ~isApp, Master(x).task # "deleted",
         ~xcfg.shrinks => Done(x, Cur(x)),
         Queue(x) # <<>> => Free(x) /\ NoData(x) /\ InQueue(x) /\ ~Master(x).lastErrno /\ ~x.forkFailed
  PROVE  LET y == FileFinish(x, "m", 1)
         IN  /\ Working(y) /\ (NoData(x) => NoData(y))
             /\ (\A b \in Ends, k \in Int : RefsBut(x, b, k) => RefsBut(y, b, k))
             /\ (SlaveClosed(x) => SlaveClosed(y))
             /\ (\A e \in Ends : y.ctx[e].task = x.ctx[e].task /\ y.ctx[e].singalStop = x.ctx[e].singalStop)
             /\ Held(x) /\ (Queue(x) # <<>> => SlaveClosed(y)) => Held(y)
             /\ NoData(x) /\ SlaveClosed(y) => Held(y)
<1> DEFINE v == CloseCtxFd(x, "m")
           y == FileFinish(x, "m", 1)
<1>0. Queue(x) # <<>> => isDir
  <2> SUFFICES ASSUME Queue(x) # <<>>, ~isDir PROVE FALSE
    OBVIOUS
  <2>0. InQueue(x) /\ Len(xcfg.sizes) = 1
    BY DEF PlanFits
  <2>1. QueueShape(Queue(x)) /\ (InQueue(x) => Len(Queue(x)) + 1 <= Len(xcfg.sizes))
    BY XferParts DEF Working, Core, InQueue, Cur, Files
  <2>2. Queue(x) # <<>> => Len(Queue(x)) >= 1 /\ Len(Queue(x)) \in Nat
    BY <2>1, XferQueue DEF Files, PlanFits
  <2> QED BY <2>0, <2>1, <2>2
<1>1. /\ Calm(x, v) /\ ~v.ctx["m"].isFdOpen /\ v.req = x.req /\ v.net = x.net
      /\ v.told = x.told /\ v.forkFailed = x.forkFailed
      /\ (\A e \in Ends : e # "m" => v.ctx[e] = x.ctx[e])
      /\ CtxRest(x.ctx["m"], v.ctx["m"]) /\ v.ctx["m"].lastErrno = x.ctx["m"].lastErrno
      /\ (\A b \in Ends, k \in Int : RefsBut(x, b, k) => RefsBut(v, b, k))
      /\ (Held(x) => Held(v))
  BY XferCloseCtxFd, XferEnds
<1>2. CASE Queue(x) # <<>>
  <2>1. v.ctx["m"].taskQueue # <<>>
    BY <1>1, <1>2 DEF CtxRest, Queue, Master
  <2>2. y = TransferNext(v)
    BY <1>0, <1>2, <2>1 DEF FileFinish
  <2> HIDE DEF v, y
  <2>3. /\ Working(v) /\ Free(v) /\ NoData(v) /\ ~Master(v).lastErrno /\ ~v.forkFailed /\ Queue(v) # <<>>
        /\ ~Master(v).isFdOpen /\ Master(v).task # "deleted"
        /\ ~xcfg.shrinks /\ InQueue(v) => Done(v, Cur(v))
        /\ SlaveClosed(x) => SlaveClosed(v)
    <3>1. Working(v) /\ Free(v) /\ NoData(v) /\ Queue(v) # <<>> /\ (SlaveClosed(x) => SlaveClosed(v))
      BY <1>1, <1>2 DEF Calm
    <3>2. ~xcfg.shrinks => Done(v, Cur(v))
      BY <1>1 DEF Calm
    <3>3. ~Master(v).lastErrno /\ ~v.forkFailed /\ ~Master(v).isFdOpen /\ Master(v).task # "deleted"
      BY <1>1, <1>2 DEF Master, CtxRest
    <3> QED BY <3>1, <3>2, <3>3
  <2>4. /\ Working(y) /\ NoData(y)
        /\ (\A e \in Ends : y.ctx[e].task = v.ctx[e].task /\ y.ctx[e].singalStop = v.ctx[e].singalStop)
        /\ (\A b \in Ends, k \in Int : RefsBut(v, b, k) => RefsBut(y, b, k))
        /\ (SlaveClosed(v) => SlaveClosed(y)) /\ (SlaveClosed(y) => Held(y))
    BY <2>2, <2>3, XferNextFile
  <2>5. \A e \in Ends : v.ctx[e].task = x.ctx[e].task /\ v.ctx[e].singalStop = x.ctx[e].singalStop
    BY <1>1 DEF CtxRest
  <2>6. \A e \in Ends : y.ctx[e].task = x.ctx[e].task /\ y.ctx[e].singalStop = x.ctx[e].singalStop
    BY <2>4, <2>5
  <2>7. \A b \in Ends, k \in Int : RefsBut(x, b, k) => RefsBut(y, b, k)
    BY <1>1, <2>4
  <2> QED BY <1>2, <2>3, <2>4, <2>6, <2>7 DEF y
<1>3. CASE Queue(x) = <<>>
  <2>1. v.ctx["m"].taskQueue = <<>>
    BY <1>1, <1>3 DEF CtxRest, Queue, Master
  <2>2. y = SendToAnother([CloseCtxFd(x, "m") EXCEPT !.ctx["m"].ioFinish = TRUE], "m", "FINISH", 0)
    BY <2>1 DEF FileFinish
  <2> HIDE DEF y
  <2>3. AllDone(x)
    BY <1>3, XferAllDone
  <2>4. /\ Working(y) /\ (Held(x) => Held(y))
        /\ (\A b \in Ends, k \in Int : RefsBut(x, b, k) => RefsBut(y, b, k))
        /\ (NoData(x) => NoData(y)) /\ (SlaveClosed(x) => SlaveClosed(y)) /\ y.req = x.req
        /\ (\A e \in Ends : y.ctx[e].task = x.ctx[e].task /\ y.ctx[e].singalStop = x.ctx[e].singalStop)
    BY <2>2, <2>3, XferLastFile, XferEnds, ZenonT(40)
  <2> HIDE DEF y
  <2>5. NoData(x) /\ SlaveClosed(y) => Held(y)
    BY <2>4 DEF Held
  <2> QED BY <1>3, <2>4, <2>5 DEF y
<1> QED BY <1>2, <1>3

\* Between two handlers: the invariant, the open files, the counts.
Good(x) == Working(x) /\ Held(x) /\ RefsCount(x)

\* The balance without a surplus is the invariant's.
LEMMA XferRefsZero ==
  ASSUME NEW x, TransferShape(x), NEW a \in Ends
  PROVE  RefsCount(x) <=> RefsBut(x, a, 0)
<1>1. \A e \in Ends : Owed(x, e) \in Nat /\ Leaked(x, e) \in Nat
  BY XferParts, XferOwed DEF Leaked
<1>2. \A e \in Ends : Owed(x, e) + Leaked(x, e) + (IF e = a THEN 0 ELSE 0) = Owed(x, e) + Leaked(x, e)
  BY <1>1
<1> QED BY <1>2 DEF RefsCount, RefsBut, Owed

\* A request is done: what it was the token for is free.
LEMMA XferWithout ==
  ASSUME NEW x, Working(x), NEW r \in x.req
  PROVE  LET y == Without(x, r)
         IN  /\ Calm(x, y) /\ y.ctx = x.ctx /\ y.net = x.net /\ SameDisk(x, y) /\ y.req = x.req \ {r}
             /\ r.op # "write" => Free(y) /\ ~y.forkFailed /\ ~Master(y).lastErrno
             /\ RefsCount(x) => RefsBut(y, r.end, 1)
             /\ r.end \in Ends
<1> DEFINE y == Without(x, r)
<1>0. TransferShape(x) /\ DOMAIN x = DOMAIN NoTransfer /\ ReqShape(r) /\ r.end \in Ends
  BY XferParts DEF Working, Core, TransferShape, ReqShape
<1>1. y.ctx = x.ctx /\ y.net = x.net /\ SameDisk(x, y) /\ y.req = x.req \ {r} /\ DOMAIN y = DOMAIN x
  BY <1>0 DEF Without, NoTransfer, SameDisk
<1> HIDE DEF y
<1>2. TransferShape(y)
  <2>1. /\ DOMAIN y.ctx = Ends /\ DOMAIN y.fds = Ends /\ y.forkFailed \in BOOLEAN /\ y.emptyFailed \in BOOLEAN
        /\ (\A e \in Ends : CtxShape(y.ctx[e])) /\ y.ctx["s"].taskQueue = <<>> /\ Queue(y) = Queue(x)
        /\ (\A q \in y.req : q \in x.req) /\ DOMAIN y = DOMAIN x /\ y.net = x.net
    BY <1>0, <1>1, XferParts DEF SameDisk, Queue, Master
  <2>2. IsFiniteSet(y.req)
    BY <1>0, <1>1, XferParts, FS_Subset
  <2> QED BY <1>0, <2>1, <2>2, XferShape, Zenon
<1>3. OneFile(y)
  <2>1. y.fds = x.fds /\ OneFile(x)
    BY <1>1 DEF SameDisk, Working, Core
  <2> QED BY <1>1, <2>1 DEF OneFile
<1>4. SlaveErrors(y)
  <2>1. ErrorsKnown(x) /\ (Closing(x, "m") => Closing(y, "m"))
    BY <1>1 DEF Closing, Working, Core
  <2> QED BY <1>1, <2>1 DEF ErrorsKnown, SlaveErrors, Slave
<1>5. /\ y.req \subseteq x.req /\ y.made = x.made /\ y.data = x.data /\ x.told \subseteq y.told
      /\ y.forkFailed = x.forkFailed /\ (x.emptyFailed => y.emptyFailed) /\ y.summary = x.summary
      /\ Master(y) = Master(x) /\ Slave(y) = Slave(x) /\ Queue(y) = Queue(x)
  BY <1>1 DEF SameDisk, Master, Slave, Queue
<1>6. Working(y)
  BY <1>1, <1>2, <1>3, <1>4, <1>5, XferQuiet
<1>7. Calm(x, y)
  BY <1>1, <1>5, <1>6, XferCalm
<1>8. ASSUME r.op # "write" PROVE Free(y) /\ ~y.forkFailed /\ ~Master(y).lastErrno
  <2>1. OneToken(x) /\ TokenIn(x)
    BY <1>8 DEF Working, Core, TokenIn
  <2>2. ~TokenIn(y)
    BY <1>1, <1>8, <2>1 DEF OneToken, TokenIn
  <2>3. \A e \in Ends : \A i : TokenAt(y, e, i) => TokenAt(x, e, i)
    BY <1>1, <1>5 DEF TokenAt, Live, Control
  <2>4. NoMessage(y)
    BY <1>1, <2>1, <2>3 DEF OneToken, NoMessage
  <2>5. ~x.forkFailed /\ ~Master(x).lastErrno
    BY <2>1 DEF Working, Core, ErrorsKnown, Free
  <2> QED BY <1>5, <2>2, <2>4, <2>5 DEF Free
<1>9. RefsCount(x) => RefsBut(y, r.end, 1)
  BY <1>0, <1>1, <1>5, XferRefsZero, XferRefsReq
<1> QED BY <1>0, <1>1, <1>7, <1>8, <1>9 DEF y

\* What opening a file does to the task of end a, the files made apart.
Opened(x, a, f, y) ==
  /\ TransferShape(y) /\ y.net = x.net /\ y.req = x.req /\ y.data = x.data /\ y.told = x.told
  /\ y.summary = x.summary /\ y.forkFailed = x.forkFailed /\ y.emptyFailed = x.emptyFailed
  /\ \A e \in Ends : e # a => y.ctx[e] = x.ctx[e] /\ y.fds[e] = x.fds[e]
  /\ y.fds[a] = {f} /\ y.ctx[a].isFdOpen /\ y.ctx[a].openFd = f /\ y.ctx[a].indexIO = 0 /\ ~y.ctx[a].closeNotify
  /\ ~y.ctx[a].lastErrno /\ ~y.ctx[a].ioFinish /\ y.ctx[a].task = x.ctx[a].task
  /\ y.ctx[a].singalStop = x.ctx[a].singalStop /\ y.ctx[a].taskQueue = x.ctx[a].taskQueue
  /\ y.ctx[a].fileSize = (IF a = "m" THEN xcfg.sizes[f] ELSE x.ctx[a].fileSize)
  /\ y.ctx[a].refCount = x.ctx[a].refCount

\* A file is opened at an end.
LEMMA XferOpenedFile ==
  ASSUME PlanFits, NEW x, Working(x), Free(x), NEW a \in Ends, NEW f, OpenFacts(x, f), ~x.ctx[a].isFdOpen,
         x.ctx[a].task # "deleted", a = "s" => Begun(x) /\ Slave(x).fileSize = xcfg.sizes[Cur(x)],
         NEW y, Opened(x, a, f, y), y.made = IF a = "s" THEN x.made \cup {f} ELSE x.made
  PROVE  /\ Working(y) /\ Free(y) /\ NoData(y) /\ (\A e \in Ends : Closing(x, e) => Closing(y, e))
         /\ Cur(y) = f /\ Cur(x) = f /\ InQueue(y) /\ Begun(y) /\ ~Master(y).lastErrno
         /\ (a = "m" => OpenFacts(y, f)) /\ (a = "s" => ReadFacts(y))
<1> USE DEF Opened
<1>0. /\ Cur(x) = f /\ InQueue(x) /\ NoData(x) /\ f \notin x.made /\ ~Master(x).lastErrno
      /\ OneFile(x) /\ DiskFits(x) /\ ErrorsKnown(x) /\ TransferShape(x)
  BY DEF OpenFacts, Working, Core
<1>1. \A e \in Ends : /\ y.ctx[e].task = x.ctx[e].task /\ y.ctx[e].singalStop = x.ctx[e].singalStop
                      /\ y.ctx[e].taskQueue = x.ctx[e].taskQueue
  OBVIOUS
<1>2. Queue(y) = Queue(x) /\ Cur(y) = f /\ InQueue(y)
  BY <1>0, <1>1, XferEnds DEF Queue, Master, Cur, InQueue
<1>3. \A e \in Ends : Closing(x, e) => Closing(y, e)
  BY <1>1 DEF Closing
<1>4. Arrived(x, f) = {} /\ Arrived(y, f) = {}
  BY <1>0 DEF DiskFits, Arrived
<1>5. OneFile(y)
  <2> SUFFICES ASSUME NEW e \in Ends
               PROVE  /\ y.fds[e] = IF y.ctx[e].isFdOpen THEN {y.ctx[e].openFd} ELSE {}
                      /\ y.ctx[e].ioFinish => ~y.ctx[e].isFdOpen
                      /\ y.ctx[e].task = "deleted" => ~y.ctx[e].isFdOpen /\ \A p \in y.req : p.end # e
    BY DEF OneFile
  <2>1. CASE e = a
    BY <2>1
  <2>2. CASE e # a
    <3>1. y.ctx[e] = x.ctx[e] /\ y.fds[e] = x.fds[e] /\ y.req = x.req
      BY <2>2
    <3>2. /\ x.fds[e] = IF x.ctx[e].isFdOpen THEN {x.ctx[e].openFd} ELSE {}
          /\ x.ctx[e].ioFinish => ~x.ctx[e].isFdOpen
          /\ x.ctx[e].task = "deleted" => ~x.ctx[e].isFdOpen /\ \A p \in x.req : p.end # e
      BY <1>0 DEF OneFile
    <3> HIDE DEF Opened
    <3> QED BY <3>1, <3>2
  <2> QED BY <2>1, <2>2
<1>6. SlaveErrors(y)
  <2>1. CASE a = "s"
    BY <2>1 DEF SlaveErrors, Slave
  <2>2. CASE a = "m"
    <3>1. Slave(y) = Slave(x)
      BY <2>2, XferEnds DEF Slave
    <3> QED BY <1>0, <1>3, <3>1, XferEnds DEF ErrorsKnown, SlaveErrors
  <2> QED BY <2>1, <2>2, XferEnds
<1>7. DiskFits(y)
  <2>1. y.made \subseteq Files /\ \A g \in y.made : g >= Cur(y)
    <3>1. f \in Int /\ f \in Files
      BY <1>0 DEF InQueue, Files
    <3> QED BY <1>0, <1>2, <3>1 DEF DiskFits
  <2>2. \A d \in y.data : d[1] \in y.made /\ d[2] \in Blk(d[1]) /\ d = <<d[1], d[2], <<d[1], d[2]>>>>
    BY <1>0 DEF DiskFits
  <2>3. Cardinality(Arrived(y, Cur(y))) = 0
    BY <1>2, <1>4, FS_EmptySet
  <2>4. SlaveReady(y) => Slave(y).indexIO = 0
    <3>1. CASE a = "s"
      BY <3>1 DEF Slave
    <3>2. CASE a = "m"
      BY <1>0, <1>2, <3>2 DEF SlaveReady
    <3> QED BY <3>1, <3>2, XferEnds
  <2>5. Arrived(y, Cur(y)) \subseteq 0 .. (Master(y).indexIO - 1)
    BY <1>2, <1>4
  <2> QED BY <2>1, <2>2, <2>3, <2>4, <2>5 DEF DiskFits
<1>8. ~Master(y).lastErrno /\ ~Master(y).closeNotify
  BY <1>0, XferEnds DEF Master, ErrorsKnown
<1>9. Working(y) /\ Free(y) /\ NoData(y)
  <2>1. /\ (\A e \in Ends : y.ctx[e].task = x.ctx[e].task) /\ (Queue(y) # <<>> => Queue(x) # <<>>)
        /\ x.told \subseteq y.told /\ x.made \subseteq y.made
        /\ Cur(y) = Cur(x) \/ (Queue(x) # <<>> /\ Cur(y) = Cur(x) - 1)
        /\ ~isApp /\ ~xcfg.shrinks /\ Cur(y) # Cur(x) /\ InQueue(x) => Done(y, Cur(x))
    BY <1>0, <1>1, <1>2
  <2> QED BY <1>0, <1>5, <1>6, <1>7, <1>8, <2>1, XferBetween
<1>10. Begun(y)
  <2>1. CASE a = "m"
    BY <1>2, <2>1 DEF Begun, MasterReady, Master
  <2>2. CASE a = "s"
    <3>1. Master(y) = Master(x)
      BY <2>2, XferEnds DEF Master
    <3> QED BY <1>0, <1>2, <2>2, <3>1 DEF Begun, MasterReady
  <2> QED BY <2>1, <2>2, XferEnds
<1>11. a = "m" => OpenFacts(y, f)
  BY <1>0, <1>2, <1>8, <1>9 DEF OpenFacts
<1>12. a = "s" => ReadFacts(y)
  BY <1>0, <1>2, <1>8, <1>10 DEF ReadFacts, Begun, SlaveReady, Slave
<1> QED BY <1>0, <1>2, <1>3, <1>8, <1>9, <1>10, <1>11, <1>12

\* The handler is done.
LEMMA XferGood ==
  ASSUME NEW x, Working(x), Held(x), NEW a \in Ends, RefsBut(x, a, 0)
  PROVE  Good(x)
BY XferRefsZero DEF Good, Working, Core

\* Sending closes no file and opens none.
LEMMA XferHeldSent ==
  ASSUME NEW x, NEW y, Sent(x, y), NoData(x) => NoData(y)
  PROVE  (Held(x) => Held(y)) /\ (SlaveClosed(x) => SlaveClosed(y))
<1>1. y.ctx = x.ctx /\ y.req = x.req /\ (\A e \in Ends : Closing(x, e) => Closing(y, e))
  BY DEF Sent
<1>2. SlaveClosed(x) => SlaveClosed(y)
  BY <1>1, XferEnds DEF SlaveClosed, Slave
<1> QED BY <1>1, <1>2, XferHeldKeep DEF Master

\* The user is told about a file.
LEMMA XferTold ==
  ASSUME NEW x, Working(x), NEW f
  PROVE  LET y == [x EXCEPT !.told = @ \cup {f}]
         IN  /\ Calm(x, y) /\ y.ctx = x.ctx /\ y.req = x.req /\ y.net = x.net /\ Done(y, f) /\ (Held(x) => Held(y))
             /\ y.forkFailed = x.forkFailed
             /\ \A b \in Ends, k \in Int : RefsBut(x, b, k) => RefsBut(y, b, k)
<1> DEFINE y == [x EXCEPT !.told = @ \cup {f}]
<1>0. TransferShape(x) /\ DOMAIN x = DOMAIN NoTransfer
  BY XferParts DEF Working, Core
<1>1. /\ y.ctx = x.ctx /\ y.net = x.net /\ y.req = x.req /\ DOMAIN y = DOMAIN x /\ y.told = x.told \cup {f}
      /\ y.fds = x.fds /\ y.made = x.made /\ y.data = x.data /\ y.summary = x.summary
      /\ y.forkFailed = x.forkFailed /\ y.emptyFailed = x.emptyFailed
  BY <1>0 DEF NoTransfer
<1> HIDE DEF y
<1>2. TransferShape(y)
  <2>1. /\ DOMAIN y.ctx = Ends /\ DOMAIN y.fds = Ends /\ y.forkFailed \in BOOLEAN /\ y.emptyFailed \in BOOLEAN
        /\ (\A e \in Ends : CtxShape(y.ctx[e])) /\ y.ctx["s"].taskQueue = <<>> /\ Queue(y) = Queue(x)
        /\ (\A q \in y.req : q \in x.req) /\ DOMAIN y = DOMAIN x /\ y.net = x.net /\ IsFiniteSet(y.req)
    BY <1>0, <1>1, XferParts DEF Queue, Master
  <2> QED BY <1>0, <2>1, XferShape, Zenon
<1>3. OneFile(y) /\ SlaveErrors(y)
  <2>1. OneFile(y)
    BY <1>1 DEF OneFile, Working, Core
  <2>2. ErrorsKnown(x) /\ (Closing(x, "m") => Closing(y, "m"))
    BY <1>1 DEF Closing, Working, Core
  <2> QED BY <1>1, <2>1, <2>2 DEF ErrorsKnown, SlaveErrors, Slave
<1>4. Master(y) = Master(x) /\ Slave(y) = Slave(x) /\ Queue(y) = Queue(x) /\ x.told \subseteq y.told /\ y.req \subseteq x.req
  BY <1>1 DEF Master, Slave, Queue
<1>5. Working(y)
  BY <1>1, <1>2, <1>3, <1>4, XferQuiet
<1>6. Calm(x, y)
  BY <1>1, <1>4, <1>5, XferCalm
<1>7. Done(y, f)
  BY <1>1 DEF Done
<1>8. Held(x) => Held(y)
  BY <1>1, <1>4, <1>6, XferHeldKeep DEF Calm
<1> QED BY <1>1, <1>6, <1>7, <1>8, XferRefsSame DEF y

\* A file could not be opened: the next one, or the end of the task.
LEMMA XferOpenFailed ==
  ASSUME PlanFits, NEW x, Working(x), Free(x), NEW a \in Ends, x.ctx[a].task \in {"run", "stopped"},
         OpenFacts(x, Cur(x)), ~x.forkFailed, Done(x, Cur(x)), a = "m" => SlaveClosed(x), a = "s" => ~Slave(x).isFdOpen,
         RefsBut(x, a, 0)
  PROVE  Good(OnFileOpenFailed(x, a))
<1> DEFINE y == OnFileOpenFailed(x, a)
<1>0. InQueue(x) /\ NoData(x) /\ ~Master(x).lastErrno
  BY DEF OpenFacts
<1>01. Held(x) /\ (a = "s" => Slave(x).task # "none")
  BY <1>0 DEF Held, Free, TokenIn, Slave
<1>02. isDir => ~isApp
  BY DEF PlanFits
<1>1. CASE isDir /\ a = "m"
  <2>1. y = FileFinish(x, "m", 1)
    BY <1>1 DEF OnFileOpenFailed
  <2>2. Master(x).task # "deleted"
    BY <1>1 DEF Master
  <2>3. /\ Working(y) /\ (\A b \in Ends, k \in Int : RefsBut(x, b, k) => RefsBut(y, b, k))
        /\ (SlaveClosed(x) => SlaveClosed(y)) /\ (NoData(x) /\ SlaveClosed(y) => Held(y))
    BY <1>0, <1>02, <1>1, <2>1, <2>2, XferFileEnd
  <2> HIDE DEF y
  <2>4. RefsBut(y, a, 0) /\ Held(y)
    BY <1>0, <1>1, <2>3
  <2> QED BY <2>3, <2>4, XferGood DEF y
<1>2. CASE isDir /\ a = "s"
  <2> DEFINE c == [cmd |-> "FINISH", arg |-> 1]
  <2>1. y = SendToAnother(x, "s", "FINISH", 1)
    BY <1>2 DEF OnFileOpenFailed
  <2>2. MaySend(x, OtherEnd("s"), c)
    <3>1. MasterMessage(x, c)
      BY <1>0, <1>02, <1>2 DEF MasterMessage, SlaveClosed
    <3> QED BY <1>0, <1>01, <1>02, <1>2, <3>1, XferEnds DEF MaySend, Commands, ToMasterCommands
  <2>3. Sent(x, y) /\ (NoData(x) <=> NoData(y))
    BY <2>1, <2>2, XferEnds, XferSendTo
  <2> HIDE DEF y
  <2>4. Held(y) /\ Working(y) /\ RefsBut(y, a, 0)
    BY <1>01, <2>3, XferHeldSent DEF Sent
  <2> QED BY <2>4, XferGood DEF y
<1>3. CASE ~isDir
  <2>1. y = TaskFinish(x, a)
    BY <1>3 DEF OnFileOpenFailed
  <2>3. Sent(x, y) /\ (NoData(x) <=> NoData(y))
    BY <1>01, <2>1, XferTaskFinish
  <2> HIDE DEF y
  <2>4. Held(y) /\ Working(y) /\ RefsBut(y, a, 0)
    BY <1>01, <2>3, XferHeldSent DEF Sent
  <2> QED BY <2>4, XferGood DEF y
<1> QED BY <1>1, <1>2, <1>3, XferEnds

\* The state of an end that has opened a file.
OpenedAt(x, a, f) == [x EXCEPT !.ctx[a] = OpenCtx(@, a, f), !.fds[a] = @ \cup {f}]

\* Its components.
LEMMA XferOpenedParts ==
  ASSUME NEW x, TransferShape(x), NEW a \in Ends, NEW f, x.fds[a] = {}, NEW y,
         y = OpenedAt(x, a, f) \/ y = [OpenedAt(x, a, f) EXCEPT !.made = @ \cup {f}]
  PROVE  /\ Opened(x, a, f, y)
         /\ y = OpenedAt(x, a, f) => y.made = x.made
         /\ y = [OpenedAt(x, a, f) EXCEPT !.made = @ \cup {f}] => y.made = x.made \cup {f}
<1> DEFINE w == OpenedAt(x, a, f)
           d == OpenCtx(x.ctx[a], a, f)
<1>0. /\ DOMAIN x = DOMAIN NoTransfer /\ DOMAIN x.ctx = Ends /\ DOMAIN x.fds = Ends
      /\ (\A e \in Ends : CtxShape(x.ctx[e])) /\ DOMAIN x.ctx[a] = DOMAIN NewCtx("none")
  BY XferParts
<1>1. /\ d.isFdOpen = TRUE /\ d.openFd = f /\ d.indexIO = 0 /\ d.closeNotify = FALSE
      /\ d.lastErrno = FALSE /\ d.ioFinish = FALSE /\ d.task = x.ctx[a].task
      /\ d.singalStop = x.ctx[a].singalStop /\ d.taskQueue = x.ctx[a].taskQueue
      /\ d.fileSize = (IF a = "m" THEN xcfg.sizes[f] ELSE x.ctx[a].fileSize)
      /\ d.refCount = x.ctx[a].refCount /\ DOMAIN d = DOMAIN NewCtx("none")
  BY <1>0 DEF ResetCtx, OpenCtx, NewCtx
<1>2. /\ w.ctx = [x.ctx EXCEPT ![a] = d] /\ w.fds = [x.fds EXCEPT ![a] = @ \cup {f}] /\ w.net = x.net /\ w.req = x.req
      /\ w.data = x.data /\ w.told = x.told /\ w.summary = x.summary
      /\ w.forkFailed = x.forkFailed /\ w.emptyFailed = x.emptyFailed /\ w.made = x.made /\ DOMAIN w = DOMAIN x
  <2>1. w = [x EXCEPT !.ctx[a] = d, !.fds[a] = @ \cup {f}]
    BY DEF OpenedAt
  <2> HIDE DEF d, w
  <2> QED BY <1>0, <2>1 DEF NoTransfer
<1> HIDE DEF d, w
<1>3. /\ y.ctx = w.ctx /\ y.fds = w.fds /\ y.net = w.net /\ y.req = w.req
      /\ y.data = w.data /\ y.told = w.told /\ y.summary = w.summary
      /\ y.forkFailed = w.forkFailed /\ y.emptyFailed = w.emptyFailed /\ DOMAIN y = DOMAIN w
      /\ (y = w => y.made = w.made) /\ (y = [w EXCEPT !.made = @ \cup {f}] => y.made = w.made \cup {f})
  <2>1. y = w \/ y = [w EXCEPT !.made = @ \cup {f}]
    BY DEF w
  <2>2. DOMAIN w = DOMAIN NoTransfer
    BY <1>0, <1>2
  <2> QED BY <2>1, <2>2 DEF NoTransfer
<1>4. /\ y.ctx[a] = d /\ y.fds[a] = {f} /\ DOMAIN y.ctx = Ends /\ DOMAIN y.fds = Ends
      /\ \A e \in Ends : e # a => y.ctx[e] = x.ctx[e] /\ y.fds[e] = x.fds[e]
  BY <1>0, <1>2, <1>3
<1>5. \A e \in Ends : CtxShape(y.ctx[e]) /\ y.ctx[e].taskQueue = x.ctx[e].taskQueue
  <2>1. CtxShape(d)
    <3>1. CtxShape(x.ctx[a])
      BY <1>0
    <3>2. /\ x.ctx[a].task \in {"none", "run", "stopped", "deleted"} /\ x.ctx[a].singalStop \in BOOLEAN
          /\ x.ctx[a].refCount \in Int /\ (x.ctx[a].singalStop => x.ctx[a].task \notin {"none", "run"})
      BY <3>1 DEF CtxShape
    <3>3. /\ DOMAIN d = DOMAIN NewCtx("none") /\ d.task \in {"none", "run", "stopped", "deleted"}
          /\ d.singalStop \in BOOLEAN /\ d.refCount \in Int /\ (d.singalStop => d.task \notin {"none", "run"})
      BY <1>1, <3>2
    <3>4. /\ d.isFdOpen \in BOOLEAN /\ d.ioFinish \in BOOLEAN /\ d.lastErrno \in BOOLEAN
          /\ d.closeNotify \in BOOLEAN
      BY <1>1, Zenon
    <3>5. d.indexIO \in Nat
      BY <1>1
    <3> QED BY <3>3, <3>4, <3>5 DEF CtxShape
  <2> QED BY <1>0, <1>1, <1>4, <2>1
<1>6. TransferShape(y)
  <2>1. /\ y.forkFailed \in BOOLEAN /\ y.emptyFailed \in BOOLEAN /\ (\A e \in Ends : CtxShape(y.ctx[e]))
        /\ y.ctx["s"].taskQueue = <<>> /\ Queue(y) = Queue(x) /\ y.net = x.net
        /\ (\A q \in y.req : q \in x.req) /\ DOMAIN y = DOMAIN x /\ IsFiniteSet(y.req)
    BY <1>2, <1>3, <1>5, XferEnds, XferParts DEF Queue, Master
  <2> QED BY <1>4, <2>1, XferShape, Zenon
<1> QED BY <1>1, <1>2, <1>3, <1>4, <1>6 DEF w, Opened

\* OnFileOpen keeps everything.
LEMMA XferOpenStep ==
  ASSUME PlanFits, NEW x, Good(x), NEW r \in x.req, r.op = "open", x.ctx[r.end].task \in {"run", "stopped"}, NEW z,
         LET a == r.end
             u == DropRef(Without(x, r), a)
             y == OpenedAt(u, a, r.file)
         IN  \/ z = OnFileOpenFailed([u EXCEPT !.told = @ \cup {r.file}], a)
             \/ a = "m" /\ z = CheckMaster(y, r.file)
             \/ a = "s" /\ z = SendToAnother([y EXCEPT !.made = @ \cup {r.file}], "s", "BEGIN", r.file)
  PROVE  Good(z)
<1> DEFINE a == r.end
           f == r.file
           v == Without(x, r)
           u == DropRef(v, a)
           t == [u EXCEPT !.told = @ \cup {f}]
           y == OpenedAt(u, a, f)
           b == [y EXCEPT !.made = @ \cup {f}]
<1>0. /\ Working(x) /\ Held(x) /\ RefsCount(x)
      /\ OpenFacts(x, f) /\ ~x.ctx[a].isFdOpen
      /\ a = "s" => Begun(x) /\ Slave(x).fileSize = xcfg.sizes[Cur(x)]
      /\ a = "m" => SlaveClosed(x)
  BY DEF Good, Working, Core, RequestFacts, Held
<1>1. /\ Calm(x, v) /\ v.ctx = x.ctx /\ Free(v) /\ ~v.forkFailed /\ RefsBut(v, a, 1) /\ a \in Ends
  BY <1>0, XferWithout
<1> HIDE DEF v
<1>2. Working(v) /\ TransferShape(v)
  BY <1>1 DEF Calm, Working, Core
<1>3. Like(v, u) /\ RefsBut(u, a, 0)
  BY <1>1, <1>2, XferRef, XferRefsMove
<1> HIDE DEF u
<1>4. /\ Working(u) /\ TransferShape(u) /\ Free(u) /\ OpenFacts(u, f) /\ ~u.ctx[a].isFdOpen /\ Cur(u) = Cur(x) /\ f = Cur(u)
      /\ u.ctx[a].task \in {"run", "stopped"} /\ ~u.forkFailed
      /\ (a = "s" => Begun(u) /\ Slave(u).fileSize = xcfg.sizes[Cur(u)])
      /\ (a = "m" => SlaveClosed(u))
  <2>1. Working(u) /\ Free(u) /\ OpenFacts(u, f) /\ Cur(u) = Cur(x) /\ (a = "s" => Begun(u)) /\ (a = "m" => SlaveClosed(u))
    BY <1>0, <1>1, <1>2, <1>3, XferLike DEF Calm
  <2>2. /\ ~u.ctx[a].isFdOpen /\ u.ctx[a].task \in {"run", "stopped"} /\ ~u.forkFailed
        /\ a = "s" => Slave(u).fileSize = Slave(x).fileSize
    BY <1>0, <1>1, <1>3 DEF Like, Kept, SameDisk, Slave
  <2> QED BY <1>0, <2>1, <2>2 DEF OpenFacts, Working, Core
<1>5. CASE z = OnFileOpenFailed(t, a)
  <2>1. /\ Calm(u, t) /\ t.ctx = u.ctx /\ Done(t, f) /\ t.forkFailed = u.forkFailed
        /\ \A d \in Ends, k \in Int : RefsBut(u, d, k) => RefsBut(t, d, k)
    BY <1>4, XferTold
  <2> HIDE DEF t
  <2>2. /\ Working(t) /\ Free(t) /\ OpenFacts(t, Cur(t)) /\ Done(t, Cur(t)) /\ (a = "m" => SlaveClosed(t))
        /\ t.ctx[a].task \in {"run", "stopped"} /\ ~t.forkFailed /\ (a = "s" => ~Slave(t).isFdOpen) /\ RefsBut(t, a, 0)
    BY <1>1, <1>3, <1>4, <2>1 DEF Calm, Slave
  <2> QED BY <1>1, <1>5, <2>2, XferOpenFailed
<1>6. u.fds[a] = {}
  BY <1>1, <1>4 DEF Working, Core, OneFile
<1>7. CASE a = "m" /\ z = CheckMaster(y, f)
  <2>1. Opened(u, a, f, y) /\ y.made = u.made
    BY <1>1, <1>4, <1>6, XferOpenedParts
  <2> HIDE DEF y
  <2>2. /\ Working(y) /\ Free(y) /\ NoData(y) /\ (\A e \in Ends : Closing(u, e) => Closing(y, e))
        /\ Begun(y) /\ ~Master(y).lastErrno /\ OpenFacts(y, f)
    <3>1. u.ctx[a].task # "deleted" /\ y.made = IF a = "s" THEN u.made \cup {f} ELSE u.made
      BY <1>4, <1>7, <2>1
    <3>0. /\ Working(u) /\ Free(u) /\ OpenFacts(u, f) /\ ~u.ctx[a].isFdOpen
          /\ (a = "s" => Begun(u) /\ Slave(u).fileSize = xcfg.sizes[Cur(u)])
      BY <1>4
    <3> HIDE DEF a, f
    <3>2. /\ Working(y) /\ Free(y) /\ NoData(y) /\ (\A e \in Ends : Closing(u, e) => Closing(y, e))
          /\ Begun(y) /\ ~Master(y).lastErrno /\ (a = "m" => OpenFacts(y, f))
      BY <1>1, <2>1, <3>0, <3>1, XferOpenedFile
    <3> QED BY <1>7, <3>2
  <2>3. ASSUME NEW cmd \in {"CHECK", "FILE_MODE"} PROVE MaySend(y, "s", [cmd |-> cmd, arg |-> f])
    <3>1. ~Closing(y, "s") => ~Slave(y).isFdOpen
      <4>1. Slave(y) = Slave(u)
        BY <1>7, <2>1, XferEnds DEF Slave, Opened
      <4> QED BY <1>4, <1>7, <2>2, <4>1, XferEnds DEF SlaveClosed
    <3>2. ~Closing(y, "s") => SlaveMessage(y, [cmd |-> cmd, arg |-> f])
      BY <2>2, <3>1 DEF SlaveMessage
    <3>3. ~y.forkFailed
      BY <1>4, <2>1 DEF Opened
    <3> QED BY <2>2, <2>3, <3>2, <3>3 DEF MaySend, Commands, ToSlaveCommands
  <2>4. PICK cmd \in {"CHECK", "FILE_MODE"} : z = SendToAnother(y, "m", cmd, f)
    BY <1>7 DEF CheckMaster
  <2>5. Sent(y, z) /\ (NoData(y) <=> NoData(z))
    <3>1. MaySend(y, OtherEnd("m"), [cmd |-> cmd, arg |-> f])
      BY <2>3, XferEnds
    <3> QED BY <2>2, <2>4, <3>1, XferSendTo, XferEnds
  <2>6. Held(y)
    BY <2>2 DEF Held, Free, TokenIn
  <2>7. RefsBut(y, a, 0)
    <3>1. \A e \in Ends : y.ctx[e].refCount = u.ctx[e].refCount
      BY <2>1 DEF Opened
    <3> QED BY <1>1, <1>3, <2>1, <3>1, XferRefsSame DEF Opened
  <2>8. Held(z) /\ Working(z) /\ RefsBut(z, a, 0)
    BY <1>1, <2>5, <2>6, <2>7, XferHeldSent DEF Sent
  <2> QED BY <1>1, <2>8, XferGood
<1>8. CASE a = "s" /\ z = SendToAnother(b, "s", "BEGIN", f)
  <2>1. Opened(u, a, f, b) /\ b.made = u.made \cup {f}
    BY <1>1, <1>4, <1>6, XferOpenedParts
  <2> HIDE DEF b
  <2>2. /\ Working(b) /\ Free(b) /\ NoData(b) /\ Begun(b) /\ ~Master(b).lastErrno /\ ReadFacts(b) /\ Cur(b) = f
    <3>1. u.ctx[a].task # "deleted" /\ b.made = IF a = "s" THEN u.made \cup {f} ELSE u.made
      BY <1>4, <1>8, <2>1
    <3>0. /\ Working(u) /\ Free(u) /\ OpenFacts(u, f) /\ ~u.ctx[a].isFdOpen
          /\ (a = "s" => Begun(u) /\ Slave(u).fileSize = xcfg.sizes[Cur(u)])
      BY <1>4
    <3> HIDE DEF a, f
    <3>2. /\ Working(b) /\ Free(b) /\ NoData(b) /\ Cur(b) = f
          /\ Begun(b) /\ ~Master(b).lastErrno /\ (a = "s" => ReadFacts(b))
      BY <1>1, <2>1, <3>0, <3>1, XferOpenedFile
    <3> QED BY <1>8, <3>2
  <2>3. MaySend(b, "m", [cmd |-> "BEGIN", arg |-> f])
    <3>1. MasterMessage(b, [cmd |-> "BEGIN", arg |-> f])
      BY <2>2 DEF MasterMessage
    <3>2. ~b.forkFailed /\ Slave(b).task # "none"
      BY <1>4, <1>8, <2>1 DEF Slave, Opened
    <3> QED BY <2>2, <3>1, <3>2 DEF MaySend, Commands, ToMasterCommands
  <2>5. Sent(b, z) /\ (NoData(b) <=> NoData(z))
    <3>1. MaySend(b, OtherEnd("s"), [cmd |-> "BEGIN", arg |-> f])
      BY <2>3, XferEnds
    <3> QED BY <1>8, <2>2, <3>1, XferSendTo, XferEnds
  <2>6. Held(b)
    BY <2>2 DEF Held, Free, TokenIn
  <2>7. RefsBut(b, a, 0)
    <3>1. \A e \in Ends : b.ctx[e].refCount = u.ctx[e].refCount
      BY <2>1 DEF Opened
    <3> QED BY <1>1, <1>3, <2>1, <3>1, XferRefsSame DEF Opened
  <2>8. Held(z) /\ Working(z) /\ RefsBut(z, a, 0)
    BY <1>1, <2>5, <2>6, <2>7, XferHeldSent DEF Sent
  <2> QED BY <1>1, <2>8, XferGood
<1> QED BY <1>5, <1>7, <1>8 DEF a, f, t, y, b, u, v

\* A state without requests of the pool and without blocks holds what it must.
LEMMA XferHeldIdle ==
  ASSUME NEW x, NoData(x), ~TokenIn(x)
  PROVE  Held(x)
BY DEF Held, TokenIn

\* AsyncInstallFinish keeps everything.
LEMMA XferInstallStep ==
  ASSUME NEW x, Good(x), NEW r \in x.req, r.op = "install", x.ctx[r.end].task \in {"run", "stopped"}
  PROVE  Good(DropRef(SendToAnother(Without(x, r), "s", "APP_FINISH", r.file), "s"))
<1> DEFINE v == Without(x, r)
           c == [cmd |-> "APP_FINISH", arg |-> r.file]
           w == SendToAnother(v, "s", "APP_FINISH", r.file)
<1>0. Working(x) /\ RefsCount(x) /\ PackageFacts(x) /\ r.end = "s"
  BY DEF Good, Working, Core, RequestFacts, TransferShape, ReqShape
<1>1. /\ Calm(x, v) /\ v.ctx = x.ctx /\ Free(v) /\ ~v.forkFailed /\ ~Master(v).lastErrno /\ RefsBut(v, "s", 1)
  BY <1>0, XferWithout
<1> HIDE DEF v
<1>2. Working(v) /\ PackageFacts(v) /\ Slave(v).task # "none"
  BY <1>0, <1>1 DEF Calm, Slave
<1>3. MaySend(v, OtherEnd("s"), c)
  <2>1. MasterMessage(v, c)
    BY <1>2 DEF MasterMessage
  <2> QED BY <1>1, <1>2, <2>1, XferEnds DEF MaySend, Commands, ToMasterCommands
<1>4. Sent(v, w) /\ NoData(w)
  BY <1>2, <1>3, XferSendTo, XferEnds DEF PackageFacts
<1> HIDE DEF w
<1>5. Held(w)
  BY <1>1, <1>4, XferHeldIdle DEF Free, TokenIn, Sent
<1>6. Working(w) /\ TransferShape(w) /\ RefsBut(w, "s", 1)
  BY <1>1, <1>4, XferEnds DEF Sent, Working, Core
<1>7. Like(w, DropRef(w, "s")) /\ RefsBut(DropRef(w, "s"), "s", 0)
  BY <1>6, XferEnds, XferRef, XferRefsMove
<1>8. Working(DropRef(w, "s")) /\ Held(DropRef(w, "s"))
  BY <1>5, <1>6, <1>7, XferLike
<1> QED BY <1>7, <1>8, XferGood, XferEnds DEF w, v

\* A channel that is closed from outside the task.
LEMMA XferNotify ==
  ASSUME NEW y, Working(y), NEW a \in Ends, NEW n, a = "m" => Slave(y).task # "none"
  PROVE  LET z == [y EXCEPT !.net[a] = Append(@, [cmd |-> "CHANNEL_CLOSE", arg |-> n])]
         IN  /\ Working(z) /\ (Held(y) => Held(z)) /\ (\A b \in Ends, k \in Int : RefsBut(y, b, k) => RefsBut(z, b, k))
<1> DEFINE c == [cmd |-> "CHANNEL_CLOSE", arg |-> n]
           z == [y EXCEPT !.net[a] = Append(@, c)]
<1>3. TransferShape(y)
  BY DEF Working, Core
<1>4. MaySend(y, a, c)
  BY XferEnds DEF MaySend, Commands, ToMasterCommands, ToSlaveCommands, Control
<1>5. Working(z)
  BY <1>4, XferSend
<1>6. /\ z.ctx = y.ctx /\ z.req = y.req /\ z.forkFailed = y.forkFailed
      /\ Len(z.net[a]) = Len(y.net[a]) + 1 /\ z.net[a][Len(y.net[a]) + 1] = c
      /\ (\A i \in 1 .. Len(y.net[a]) : z.net[a][i] = y.net[a][i])
      /\ (\A e \in Ends : e # a => z.net[e] = y.net[e]) /\ Len(y.net[a]) \in Nat
  <2>1. Len(y.net[a]) \in Nat /\ y.net[a] = [i \in 1 .. Len(y.net[a]) |-> y.net[a][i]] /\ DOMAIN y.net = Ends
    BY <1>3 DEF TransferShape, NetShape
  <2>2. DOMAIN y = DOMAIN NoTransfer
    BY <1>3 DEF TransferShape
  <2> HIDE DEF c
  <2>3. /\ z.ctx = y.ctx /\ z.req = y.req /\ z.forkFailed = y.forkFailed /\ z.net = [y.net EXCEPT ![a] = Append(@, c)]
    BY <2>2 DEF NoTransfer
  <2>4. z.net[a] = Append(y.net[a], c) /\ \A e \in Ends : e # a => z.net[e] = y.net[e]
    BY <2>1, <2>3
  <2> HIDE DEF z
  <2> QED BY <2>1, <2>3, <2>4, XferSeq
<1> HIDE DEF z
<1>7. (NoData(y) => NoData(z)) /\ \A e \in Ends : Closing(y, e) => Closing(z, e)
  <2>1. \A e \in Ends : \A i : i \in 1 .. Len(y.net[e]) => i \in 1 .. Len(z.net[e]) /\ z.net[e][i] = y.net[e][i]
    BY <1>6
  <2>2. ASSUME NoData(y), NEW i \in 1 .. Len(z.net["s"]) PROVE ~IsData(z, i)
    <3>1. CASE i \in 1 .. Len(y.net["s"])
      BY <2>1, <2>2, <3>1, XferEnds DEF NoData, IsData
    <3>2. CASE i \notin 1 .. Len(y.net["s"])
      BY <1>6, <3>2, XferEnds, SMTT(30) DEF IsData
    <3> QED BY <3>1, <3>2
  <2> QED BY <1>6, <2>1, <2>2 DEF NoData, Closing
<1>8. Held(y) => Held(z)
  <2>1. Master(z).isFdOpen = Master(y).isFdOpen /\ (SlaveClosed(y) => SlaveClosed(z))
    BY <1>6, <1>7, XferEnds DEF Master, SlaveClosed, Slave
  <2> QED BY <1>6, <1>7, <2>1, XferHeldKeep
<1>9. \A b \in Ends, k \in Int : RefsBut(y, b, k) => RefsBut(z, b, k)
  BY <1>6, XferRefsSame
<1> QED BY <1>5, <1>8, <1>9 DEF z

\* ClientLeaves: the channel is closed at one end.
LEMMA XferLeaveStep ==
  ASSUME NEW x, Good(x), Slave(x).task = "run", NEW a \in Ends
  PROVE  Good([x EXCEPT !.aborted = TRUE, !.net[a] = Append(@, [cmd |-> "CHANNEL_CLOSE", arg |-> 1])])
<1> DEFINE c == [cmd |-> "CHANNEL_CLOSE", arg |-> 1]
           y == [x EXCEPT !.aborted = TRUE]
           z == [y EXCEPT !.net[a] = Append(@, c)]
<1>0. Working(x) /\ Held(x) /\ RefsCount(x) /\ TransferShape(x)
  BY DEF Good, Working, Core
<1>1. z = [x EXCEPT !.aborted = TRUE, !.net[a] = Append(@, c)]
  BY <1>0 DEF TransferShape, NoTransfer
<1>2. Like(x, y) /\ \A e \in Ends : y.ctx[e].refCount = x.ctx[e].refCount
  <2>1. /\ y.ctx = x.ctx /\ y.fds = x.fds /\ y.net = x.net /\ y.req = x.req /\ SameDisk(x, y) /\ DOMAIN y = DOMAIN x
    BY <1>0 DEF TransferShape, NoTransfer, SameDisk
  <2> HIDE DEF y
  <2>2. TransferShape(y)
    BY <1>0, <2>1 DEF TransferShape, SameDisk, Slave, Queue, Master
  <2> QED BY <2>1, <2>2 DEF Like, Kept
<1> HIDE DEF y
<1>3. Working(y) /\ Held(y) /\ Slave(y).task = "run" /\ RefsBut(y, a, 0)
  <2>1. RefsBut(x, a, 0)
    BY <1>0, XferRefsZero
  <2>2. RefsBut(y, a, 0)
    <3>1. y.req = x.req /\ y.forkFailed = x.forkFailed /\ 0 \in Int
      BY <1>2 DEF Like, SameDisk
    <3> QED BY <1>2, <2>1, <3>1, XferRefsSame
  <2>3. Working(y) /\ Held(y)
    BY <1>0, <1>2, XferLike
  <2>4. Slave(y).task = "run"
    BY <1>2, XferEnds DEF Like, Slave
  <2> QED BY <2>2, <2>3, <2>4
<1>4. Working(z) /\ Held(z) /\ RefsBut(z, a, 0)
  BY <1>3, XferNotify
<1> HIDE DEF z
<1> QED BY <1>1, <1>4, XferGood

\* y is x with the task of one end stopped or deleted.
Ended(x, a, y) ==
  /\ y.net = x.net /\ y.req = x.req /\ SameDisk(x, y) /\ DOMAIN y = DOMAIN x /\ DOMAIN y.ctx = Ends
  /\ \A e \in Ends : e # a => y.ctx[e] = x.ctx[e]
  /\ LET c == x.ctx[a]
         d == y.ctx[a]
     IN  /\ DOMAIN d = DOMAIN c /\ d.isFdOpen = c.isFdOpen /\ d.openFd = c.openFd /\ d.fileSize = c.fileSize
         /\ d.indexIO = c.indexIO /\ d.ioFinish = c.ioFinish /\ d.lastErrno = c.lastErrno
         /\ d.closeNotify = c.closeNotify /\ d.taskQueue = c.taskQueue /\ d.refCount = c.refCount
         /\ d.singalStop \in BOOLEAN /\ (c.singalStop => d.singalStop) /\ d.task \in {"stopped", "deleted"}

\* A task that ends changes nothing else.
LEMMA XferEnded ==
  ASSUME NEW x, Working(x), NEW a \in Ends, x.ctx[a].task # "none", NEW y, Ended(x, a, y),
         y.ctx[a].task = "deleted" => ~x.ctx[a].isFdOpen /\ \A r \in x.req : r.end # a
  PROVE  /\ Calm(x, y) /\ (Held(x) => Held(y))
         /\ \A b \in Ends, k \in Int : RefsBut(x, b, k) => RefsBut(y, b, k)
<1>0. /\ TransferShape(x) /\ OneFile(x) /\ ErrorsKnown(x)
      /\ DOMAIN x = DOMAIN NoTransfer /\ DOMAIN x.fds = Ends /\ (\A e \in Ends : CtxShape(x.ctx[e]))
      /\ x.ctx["s"].taskQueue = <<>> /\ IsFiniteSet(x.req) /\ x.forkFailed \in BOOLEAN /\ x.emptyFailed \in BOOLEAN
  BY XferParts DEF Working, Core
<1>1. /\ y.net = x.net /\ y.req = x.req /\ SameDisk(x, y) /\ DOMAIN y = DOMAIN x /\ DOMAIN y.ctx = Ends
      /\ \A e \in Ends : e # a => y.ctx[e] = x.ctx[e]
  BY DEF Ended
<1>2. /\ DOMAIN y.ctx[a] = DOMAIN x.ctx[a] /\ y.ctx[a].isFdOpen = x.ctx[a].isFdOpen /\ y.ctx[a].openFd = x.ctx[a].openFd
      /\ y.ctx[a].fileSize = x.ctx[a].fileSize /\ y.ctx[a].indexIO = x.ctx[a].indexIO
      /\ y.ctx[a].ioFinish = x.ctx[a].ioFinish /\ y.ctx[a].lastErrno = x.ctx[a].lastErrno
      /\ y.ctx[a].closeNotify = x.ctx[a].closeNotify /\ y.ctx[a].taskQueue = x.ctx[a].taskQueue
      /\ y.ctx[a].refCount = x.ctx[a].refCount /\ y.ctx[a].singalStop \in BOOLEAN
      /\ (x.ctx[a].singalStop => y.ctx[a].singalStop) /\ y.ctx[a].task \in {"stopped", "deleted"}
  BY DEF Ended
<1>3. \A e \in Ends :
        /\ y.ctx[e].isFdOpen = x.ctx[e].isFdOpen /\ y.ctx[e].openFd = x.ctx[e].openFd
        /\ y.ctx[e].fileSize = x.ctx[e].fileSize /\ y.ctx[e].indexIO = x.ctx[e].indexIO
        /\ y.ctx[e].ioFinish = x.ctx[e].ioFinish /\ y.ctx[e].lastErrno = x.ctx[e].lastErrno
        /\ y.ctx[e].closeNotify = x.ctx[e].closeNotify /\ y.ctx[e].taskQueue = x.ctx[e].taskQueue
        /\ y.ctx[e].refCount = x.ctx[e].refCount /\ (x.ctx[e].singalStop => y.ctx[e].singalStop)
        /\ \/ y.ctx[e].task = x.ctx[e].task
           \/ x.ctx[e].task # "none" /\ y.ctx[e].task \notin {"none", "run"}
  BY <1>1, <1>2
<1>4. TransferShape(y)
  <2>1. CtxShape(y.ctx[a])
    <3>1. CtxShape(x.ctx[a])
      BY <1>0
    <3>2. /\ x.ctx[a].isFdOpen \in BOOLEAN /\ x.ctx[a].ioFinish \in BOOLEAN /\ x.ctx[a].lastErrno \in BOOLEAN
          /\ x.ctx[a].closeNotify \in BOOLEAN /\ x.ctx[a].indexIO \in Nat /\ x.ctx[a].refCount \in Int
          /\ DOMAIN x.ctx[a] = DOMAIN NewCtx("none")
      BY <3>1 DEF CtxShape
    <3>3. y.ctx[a].task \in {"none", "run", "stopped", "deleted"} /\ y.ctx[a].task \notin {"none", "run"}
      BY <1>2
    <3>4. /\ y.ctx[a].isFdOpen \in BOOLEAN /\ y.ctx[a].ioFinish \in BOOLEAN /\ y.ctx[a].lastErrno \in BOOLEAN
          /\ y.ctx[a].closeNotify \in BOOLEAN /\ y.ctx[a].indexIO \in Nat /\ y.ctx[a].refCount \in Int
          /\ DOMAIN y.ctx[a] = DOMAIN NewCtx("none") /\ y.ctx[a].singalStop \in BOOLEAN
      BY <1>2, <3>2, Zenon
    <3> QED BY <3>3, <3>4 DEF CtxShape
  <2>2. /\ y.forkFailed \in BOOLEAN /\ y.emptyFailed \in BOOLEAN /\ (\A e \in Ends : CtxShape(y.ctx[e]))
        /\ y.ctx["s"].taskQueue = <<>> /\ Queue(y) = Queue(x)
        /\ (\A q \in y.req : q \in x.req) /\ IsFiniteSet(y.req) /\ DOMAIN y.fds = Ends
    BY <1>0, <1>1, <1>3, <2>1, XferEnds DEF Queue, Master, SameDisk
  <2> QED BY <1>0, <1>1, <2>2, XferShape, Zenon
<1>5. OneFile(y)
  <2> SUFFICES ASSUME NEW e \in Ends
               PROVE  /\ y.fds[e] = IF y.ctx[e].isFdOpen THEN {y.ctx[e].openFd} ELSE {}
                      /\ y.ctx[e].ioFinish => ~y.ctx[e].isFdOpen
                      /\ y.ctx[e].task = "deleted" => ~y.ctx[e].isFdOpen /\ \A p \in y.req : p.end # e
    BY DEF OneFile
  <2>1. /\ x.fds[e] = IF x.ctx[e].isFdOpen THEN {x.ctx[e].openFd} ELSE {}
        /\ x.ctx[e].ioFinish => ~x.ctx[e].isFdOpen
        /\ x.ctx[e].task = "deleted" => ~x.ctx[e].isFdOpen /\ \A p \in x.req : p.end # e
    BY <1>0 DEF OneFile
  <2>2. y.fds = x.fds /\ y.req = x.req /\ (e # a => y.ctx[e].task = x.ctx[e].task)
    BY <1>1 DEF SameDisk
  <2>3. y.ctx[e].isFdOpen = x.ctx[e].isFdOpen /\ y.ctx[e].openFd = x.ctx[e].openFd /\ y.ctx[e].ioFinish = x.ctx[e].ioFinish
    BY <1>3
  <2> QED BY <2>1, <2>2, <2>3
<1>6. \A e \in Ends : Closing(x, e) => Closing(y, e)
  BY <1>1, <1>3 DEF Closing
<1>7. SlaveErrors(y)
  BY <1>0, <1>1, <1>3, <1>6, XferEnds DEF ErrorsKnown, SlaveErrors, Slave
<1>8. /\ Queue(y) = Queue(x) /\ Master(y).openFd = Master(x).openFd /\ Master(y).fileSize = Master(x).fileSize
      /\ Master(y).indexIO = Master(x).indexIO /\ Master(y).lastErrno = Master(x).lastErrno
      /\ Master(y).closeNotify = Master(x).closeNotify
      /\ Slave(y).openFd = Slave(x).openFd /\ Slave(y).fileSize = Slave(x).fileSize
      /\ Slave(y).indexIO = Slave(x).indexIO /\ Slave(y).ioFinish = Slave(x).ioFinish
  BY <1>3, XferEnds DEF Queue, Master, Slave
<1>9. /\ y.made = x.made /\ y.data = x.data /\ y.told = x.told /\ y.forkFailed = x.forkFailed
      /\ y.emptyFailed = x.emptyFailed /\ y.summary = x.summary
  BY <1>1 DEF SameDisk
<1>10. \A e \in Ends : /\ y.ctx[e].isFdOpen => x.ctx[e].isFdOpen
                       /\ \/ y.ctx[e].task = x.ctx[e].task
                          \/ x.ctx[e].task # "none" /\ y.ctx[e].task \notin {"none", "run"}
  BY <1>3
<1>11. Working(y)
  BY <1>1, <1>4, <1>5, <1>7, <1>8, <1>9, <1>10, XferQuiet
<1>12. Calm(x, y)
  BY <1>1, <1>8, <1>9, <1>10, <1>11, XferCalm
<1>13. Held(x) => Held(y)
  <2>1. Master(y).isFdOpen => Master(x).isFdOpen
    BY <1>3, XferEnds DEF Master
  <2> QED BY <1>1, <1>12, <2>1, XferHeldKeep DEF Calm
<1>14. \A b \in Ends, k \in Int : RefsBut(x, b, k) => RefsBut(y, b, k)
  BY <1>1, <1>3, <1>9, XferRefsSame
<1> QED BY <1>12, <1>13, <1>14

\* ReleaseTask keeps everything: refCount = 0 means that the pool has nothing.
LEMMA XferReleaseStep ==
  ASSUME NEW x, Good(x), NEW a \in Ends, x.ctx[a].task = "stopped", ReadyForRelease(x.ctx[a])
  PROVE  Good([(IF ClosedAtEnd(x.ctx[a]) THEN CloseCtxFd(x, a) ELSE x) EXCEPT !.ctx[a].task = "deleted"])
<1> DEFINE y == IF ClosedAtEnd(x.ctx[a]) THEN CloseCtxFd(x, a) ELSE x
           z == [y EXCEPT !.ctx[a].task = "deleted"]
<1>0. Working(x) /\ Held(x) /\ RefsBut(x, a, 0) /\ TransferShape(x) /\ OneFile(x) /\ IsFiniteSet(x.req)
  <2>1. Working(x) /\ Held(x) /\ RefsCount(x) /\ TransferShape(x)
    BY DEF Good, Working, Core
  <2> QED BY <2>1, XferRefsZero, XferParts DEF Working, Core
<1>1. \A r \in x.req : r.end # a
  <2>1. x.ctx[a].refCount = 0 /\ x.ctx[a].refCount = Owed(x, a) + Leaked(x, a) + 0
    BY <1>0 DEF ReadyForRelease, RefsBut
  <2>2. Owed(x, a) \in Nat /\ (Owed(x, a) = 0 => \A r \in x.req : r.end # a) /\ Leaked(x, a) \in {0, 1}
    BY <1>0, XferOwed DEF Leaked
  <2> QED BY <2>1, <2>2
<1>2. /\ Working(y) /\ Held(y) /\ RefsBut(y, a, 0) /\ ~y.ctx[a].isFdOpen /\ y.req = x.req /\ y.ctx[a].task = "stopped"
  <2>1. CASE ClosedAtEnd(x.ctx[a])
    <3>1. y = CloseCtxFd(x, a)
      BY <2>1
    <3> HIDE DEF y
    <3>2. /\ Calm(x, y) /\ ~y.ctx[a].isFdOpen /\ y.req = x.req /\ CtxRest(x.ctx[a], y.ctx[a])
          /\ RefsBut(y, a, 0) /\ Held(y)
      BY <1>0, <3>1, XferCloseCtxFd
    <3> QED BY <3>2 DEF Calm, CtxRest
  <2>2. CASE ~ClosedAtEnd(x.ctx[a])
    <3>1. y = x
      BY <2>2
    <3>2. ~x.ctx[a].isFdOpen
      BY <1>0, <2>2 DEF OneFile, ClosedAtEnd
    <3> QED BY <1>0, <3>1, <3>2
  <2> QED BY <2>1, <2>2
<1> HIDE DEF y
<1>3. TransferShape(y) /\ DOMAIN y = DOMAIN NoTransfer /\ DOMAIN y.ctx = Ends /\ DOMAIN y.ctx[a] = DOMAIN NewCtx("none")
  BY <1>2, XferParts DEF Working, Core
<1>4. Ended(y, a, z) /\ z.ctx[a].task = "deleted"
  <2>1. /\ z.ctx = [y.ctx EXCEPT ![a] = [y.ctx[a] EXCEPT !.task = "deleted"]] /\ z.net = y.net /\ z.req = y.req
        /\ SameDisk(y, z) /\ DOMAIN z = DOMAIN y
    BY <1>3 DEF NoTransfer, SameDisk
  <2> HIDE DEF z
  <2>2. /\ z.ctx[a] = [y.ctx[a] EXCEPT !.task = "deleted"] /\ DOMAIN z.ctx = Ends
        /\ \A e \in Ends : e # a => z.ctx[e] = y.ctx[e]
    BY <1>3, <2>1
  <2>3. CtxShape(y.ctx[a])
    BY <1>3, XferParts
  <2>4. y.ctx[a].singalStop \in BOOLEAN
    BY <2>3 DEF CtxShape
  <2>5. /\ DOMAIN z.ctx[a] = DOMAIN y.ctx[a] /\ z.ctx[a].isFdOpen = y.ctx[a].isFdOpen /\ z.ctx[a].openFd = y.ctx[a].openFd
        /\ z.ctx[a].fileSize = y.ctx[a].fileSize /\ z.ctx[a].indexIO = y.ctx[a].indexIO
        /\ z.ctx[a].ioFinish = y.ctx[a].ioFinish /\ z.ctx[a].lastErrno = y.ctx[a].lastErrno
        /\ z.ctx[a].closeNotify = y.ctx[a].closeNotify /\ z.ctx[a].taskQueue = y.ctx[a].taskQueue
        /\ z.ctx[a].refCount = y.ctx[a].refCount /\ z.ctx[a].singalStop = y.ctx[a].singalStop
        /\ z.ctx[a].task = "deleted"
    BY <1>3, <2>2 DEF NewCtx
  <2> QED BY <2>1, <2>2, <2>4, <2>5 DEF Ended
<1> HIDE DEF z
<1>5. Calm(y, z) /\ Held(z) /\ RefsBut(z, a, 0)
  BY <1>1, <1>2, <1>4, XferEnded
<1> QED BY <1>5, XferGood DEF Calm, y, z

\* y is x with the first message of an end taken away, which may stop its task
\* or wake it up.
Taken(x, a, y) ==
  /\ TransferShape(y) /\ y.req = x.req /\ SameDisk(x, y) /\ y.net = [x.net EXCEPT ![a] = Tail(@)]
  /\ \A e \in Ends : /\ Kept(x.ctx[e], y.ctx[e]) /\ (e # a => y.ctx[e].task = x.ctx[e].task)
                     /\ y.ctx[e].refCount = x.ctx[e].refCount

\* A message that is taken leaves a good state behind.
LEMMA XferTaken ==
  ASSUME NEW x, Working(x), NEW a \in Ends, x.net[a] # <<>>, NEW y, Taken(x, a, y),
         x.net[a][1].cmd = "CHANNEL_CLOSE" => x.ctx[a].task \notin {"none", "run"},
         \/ y.ctx[a].task = x.ctx[a].task /\ x.ctx[a].task # "none"
         \/ a = "s" /\ x.ctx[a].task = "none" /\ y.ctx[a].task = "run"
  PROVE  /\ Working(y) /\ (NoData(x) => NoData(y)) /\ (\A e \in Ends : Closing(x, e) => Closing(y, e))
         /\ (TokenAt(x, a, 1) => /\ Free(y) /\ ~y.forkFailed /\ ~Master(y).lastErrno
                                 /\ IF a = "s" THEN SlaveMessage(y, x.net[a][1]) ELSE MasterMessage(y, x.net[a][1]))
         /\ (Held(x) => Held(y)) /\ (\A b \in Ends, k \in Int : RefsBut(x, b, k) => RefsBut(y, b, k))
<1>1. /\ TransferShape(y) /\ y.req = x.req /\ SameDisk(x, y) /\ y.net = [x.net EXCEPT ![a] = Tail(@)]
  BY DEF Taken
<1>2. \A e \in Ends : Kept(x.ctx[e], y.ctx[e]) /\ (e # a => y.ctx[e].task = x.ctx[e].task)
  BY DEF Taken
<1>3. \A e \in Ends : y.ctx[e].refCount = x.ctx[e].refCount
  BY DEF Taken
<1>4. /\ Working(y) /\ (NoData(x) => NoData(y)) /\ (\A e \in Ends : Closing(x, e) => Closing(y, e))
      /\ TokenAt(x, a, 1) => /\ Free(y) /\ ~y.forkFailed /\ ~Master(y).lastErrno
                             /\ IF a = "s" THEN SlaveMessage(y, x.net[a][1]) ELSE MasterMessage(y, x.net[a][1])
  BY <1>1, <1>2, XferPop
<1>5. Held(x) => Held(y)
  <2>1. Master(y).isFdOpen = Master(x).isFdOpen /\ Slave(y).isFdOpen = Slave(x).isFdOpen
    BY <1>2, XferEnds DEF Kept, Master, Slave
  <2>2. SlaveClosed(x) => SlaveClosed(y)
    BY <1>4, <2>1, XferEnds DEF SlaveClosed
  <2> QED BY <1>1, <1>4, <2>1, <2>2, XferHeldKeep
<1>6. \A b \in Ends, k \in Int : RefsBut(x, b, k) => RefsBut(y, b, k)
  BY <1>1, <1>3, XferRefsSame DEF SameDisk
<1> QED BY <1>4, <1>5, <1>6

\* Taking the first message away, and what is known of the task it is for.
LEMMA XferTail ==
  ASSUME NEW x, Working(x), NEW a \in Ends, x.net[a] # <<>>
  PROVE  LET y == [x EXCEPT !.net[a] = Tail(@)]
         IN  /\ Taken(x, a, y) /\ y.ctx = x.ctx /\ Head(x.net[a]) = x.net[a][1]
             /\ x.net[a][1].cmd \in Commands(a) /\ 1 \in 1 .. Len(x.net[a])
             /\ x.net[a][1].cmd # "WAKEUP_SLAVETASK" => x.ctx[a].task # "none"
             /\ x.net[a][1].cmd = "WAKEUP_SLAVETASK" => a = "s" /\ x.ctx[a].task = "none"
<1> DEFINE y == [x EXCEPT !.net[a] = Tail(@)]
<1>0. TransferShape(x) /\ WokenFirst(x) /\ Master(x).task # "none"
  BY DEF Working, Core
<1>1. /\ Len(x.net[a]) \in Nat /\ x.net[a] = [i \in 1 .. Len(x.net[a]) |-> x.net[a][i]] /\ DOMAIN x.net = Ends
      /\ \A i \in 1 .. Len(x.net[a]) : x.net[a][i].cmd \in Commands(a)
  BY <1>0 DEF TransferShape, NetShape
<1>2. /\ Len(Tail(x.net[a])) = Len(x.net[a]) - 1 /\ Len(x.net[a]) > 0 /\ Head(x.net[a]) = x.net[a][1]
      /\ \A i \in 1 .. (Len(x.net[a]) - 1) : Tail(x.net[a])[i] = x.net[a][i + 1]
      /\ Tail(x.net[a]) = [i \in 1 .. (Len(x.net[a]) - 1) |-> Tail(x.net[a])[i]]
  BY <1>1, XferSeq
<1>3. /\ y.ctx = x.ctx /\ y.req = x.req /\ SameDisk(x, y) /\ y.net = [x.net EXCEPT ![a] = Tail(@)] /\ DOMAIN y = DOMAIN x
  BY <1>0 DEF TransferShape, NoTransfer, SameDisk
<1> HIDE DEF y
<1>4. TransferShape(y)
  <2>1. NetShape(y.net[a], a)
    <3>1. y.net[a] = Tail(x.net[a])
      BY <1>1, <1>3
    <3> DEFINE q == Tail(x.net[a])
    <3>2. Len(q) \in Nat /\ q = [i \in 1 .. Len(q) |-> q[i]]
      BY <1>1, <1>2
    <3>3. \A i \in 1 .. Len(q) : q[i].cmd \in Commands(a)
      BY <1>1, <1>2
    <3> QED BY <3>1, <3>2, <3>3 DEF NetShape
  <2>2. \A e \in Ends : NetShape(y.net[e], e) /\ CtxShape(y.ctx[e])
    <3>1. \A e \in Ends : NetShape(x.net[e], e) /\ CtxShape(x.ctx[e])
      BY <1>0 DEF TransferShape
    <3>2. \A e \in Ends : e # a => y.net[e] = x.net[e]
      BY <1>1, <1>3
    <3> QED BY <1>3, <2>1, <3>1, <3>2
  <2>3. DOMAIN y.net = Ends
    BY <1>1, <1>3
  <2> QED BY <1>0, <1>3, <2>2, <2>3 DEF TransferShape, SameDisk, Slave, Queue, Master
<1>5. Taken(x, a, y)
  BY <1>3, <1>4 DEF Taken, Kept
<1>6. 1 \in 1 .. Len(x.net[a]) /\ x.net[a][1].cmd \in Commands(a)
  BY <1>1, <1>2
<1>7. x.net[a][1].cmd # "WAKEUP_SLAVETASK" => x.ctx[a].task # "none"
  <2>1. CASE a = "m"
    BY <1>0, <2>1 DEF Master
  <2>2. CASE a = "s"
    BY <1>0, <2>2 DEF WokenFirst, Slave
  <2> QED BY <2>1, <2>2, XferEnds
<1>8. x.net[a][1].cmd = "WAKEUP_SLAVETASK" => a = "s" /\ x.ctx[a].task = "none"
  <2>1. CASE a = "m"
    BY <1>6, <2>1 DEF Commands, ToMasterCommands
  <2>2. CASE a = "s"
    BY <1>0, <1>6, <2>2 DEF WokenFirst, Slave
  <2> QED BY <2>1, <2>2, XferEnds
<1> QED BY <1>2, <1>3, <1>5, <1>6, <1>7, <1>8 DEF y

\* CommandDispatch, CMD_KERNEL_WAKEUP_SLAVETASK.
LEMMA XferWakeStep ==
  ASSUME NEW x, Good(x), NEW a \in Ends, x.net[a] # <<>>, x.net[a][1].cmd = "WAKEUP_SLAVETASK"
  PROVE  Good([[x EXCEPT !.net[a] = Tail(@)] EXCEPT !.ctx[a].task = "run"])
<1> DEFINE y == [x EXCEPT !.net[a] = Tail(@)]
           z == [y EXCEPT !.ctx[a].task = "run"]
<1>0. Working(x) /\ Held(x) /\ RefsBut(x, a, 0) /\ TransferShape(x)
  <2>1. Working(x) /\ Held(x) /\ RefsCount(x) /\ TransferShape(x)
    BY DEF Good, Working, Core
  <2> QED BY <2>1, XferRefsZero
<1>1. Taken(x, a, y) /\ y.ctx = x.ctx /\ a = "s" /\ x.ctx[a].task = "none"
  BY <1>0, XferTail
<1> HIDE DEF y
<1>2. TransferShape(y) /\ DOMAIN y = DOMAIN NoTransfer /\ DOMAIN y.ctx = Ends /\ DOMAIN y.ctx[a] = DOMAIN NewCtx("none")
      /\ (\A e \in Ends : CtxShape(y.ctx[e])) /\ DOMAIN y.fds = Ends /\ IsFiniteSet(y.req)
      /\ y.forkFailed \in BOOLEAN /\ y.emptyFailed \in BOOLEAN /\ y.ctx["s"].taskQueue = <<>>
  BY <1>1, XferParts DEF Taken
<1>3. /\ z.ctx = [y.ctx EXCEPT ![a] = [y.ctx[a] EXCEPT !.task = "run"]] /\ z.net = y.net /\ z.req = y.req
      /\ SameDisk(y, z) /\ DOMAIN z = DOMAIN y
  BY <1>2 DEF NoTransfer, SameDisk
<1> HIDE DEF z
<1>4. /\ z.ctx[a] = [y.ctx[a] EXCEPT !.task = "run"] /\ DOMAIN z.ctx = Ends
      /\ \A e \in Ends : e # a => z.ctx[e] = y.ctx[e]
  BY <1>2, <1>3
<1>5. /\ DOMAIN z.ctx[a] = DOMAIN NewCtx("none") /\ Kept(y.ctx[a], z.ctx[a]) /\ z.ctx[a].task = "run"
      /\ z.ctx[a].refCount = y.ctx[a].refCount
  BY <1>2, <1>4 DEF NewCtx, Kept
<1>6. CtxShape(z.ctx[a])
  <2>1. CtxShape(y.ctx[a]) /\ y.ctx[a].task = "none"
    BY <1>1, <1>2
  <2>2. /\ y.ctx[a].isFdOpen \in BOOLEAN /\ y.ctx[a].ioFinish \in BOOLEAN /\ y.ctx[a].lastErrno \in BOOLEAN
        /\ y.ctx[a].closeNotify \in BOOLEAN /\ y.ctx[a].indexIO \in Nat /\ y.ctx[a].refCount \in Int
        /\ ~y.ctx[a].singalStop /\ y.ctx[a].singalStop \in BOOLEAN
    BY <2>1 DEF CtxShape
  <2>3. z.ctx[a].task \in {"none", "run", "stopped", "deleted"}
    BY <1>5
  <2> QED BY <1>5, <2>2, <2>3, Zenon DEF CtxShape, Kept
<1>7. TransferShape(z)
  <2>1. /\ (\A e \in Ends : CtxShape(z.ctx[e])) /\ z.ctx["s"].taskQueue = <<>> /\ Queue(z) = Queue(y)
        /\ (\A q \in z.req : q \in y.req) /\ IsFiniteSet(z.req) /\ DOMAIN z.fds = Ends
        /\ z.forkFailed \in BOOLEAN /\ z.emptyFailed \in BOOLEAN
    BY <1>1, <1>2, <1>3, <1>4, <1>5, <1>6, XferEnds DEF Queue, Master, SameDisk, Kept
  <2> QED BY <1>2, <1>3, <1>4, <2>1, XferShape, Zenon
<1>8. Taken(x, a, z)
  <2>1. \A e \in Ends : /\ Kept(x.ctx[e], z.ctx[e]) /\ (e # a => z.ctx[e].task = x.ctx[e].task)
                        /\ z.ctx[e].refCount = x.ctx[e].refCount
    <3> SUFFICES ASSUME NEW e \in Ends
                 PROVE  /\ Kept(x.ctx[e], z.ctx[e]) /\ (e # a => z.ctx[e].task = x.ctx[e].task)
                        /\ z.ctx[e].refCount = x.ctx[e].refCount
      OBVIOUS
    <3>1. CASE e = a
      BY <1>1, <1>5, <3>1
    <3>2. CASE e # a
      <4>1. z.ctx[e] = x.ctx[e]
        BY <1>1, <1>4, <3>2
      <4> QED BY <4>1 DEF Kept
    <3> QED BY <3>1, <3>2
  <2> QED BY <1>1, <1>3, <1>7, <2>1 DEF Taken, SameDisk
<1>9. Working(z) /\ Held(z) /\ RefsBut(z, a, 0)
  <2>1. z.ctx[a].task = "run" /\ x.net[a][1].cmd # "CHANNEL_CLOSE"
    BY <1>5
  <2> QED BY <1>0, <1>1, <1>8, <2>1, XferTaken
<1> QED BY <1>9, XferGood DEF y, z

\* CommandDispatch, CMD_KERNEL_CHANNEL_CLOSE.
LEMMA XferCloseStep ==
  ASSUME NEW x, Good(x), NEW a \in Ends, x.net[a] # <<>>, x.net[a][1].cmd = "CHANNEL_CLOSE", NEW n
  PROVE  Good(ChannelClose([x EXCEPT !.net[a] = Tail(@)], a, n))
<1> DEFINE p == [x EXCEPT !.net[a] = Tail(@)]
           w == IF x.ctx[a].task = "run"
                THEN [x EXCEPT !.ctx[a].task = "stopped", !.ctx[a].singalStop = ~isApp] ELSE x
           y == IF p.ctx[a].task = "run"
                THEN [p EXCEPT !.ctx[a].task = "stopped", !.ctx[a].singalStop = ~isApp] ELSE p
           z == [y EXCEPT !.net[OtherEnd(a)] = Append(@, [cmd |-> "CHANNEL_CLOSE", arg |-> 0])]
<1>0. Working(x) /\ Held(x) /\ RefsBut(x, a, 0) /\ TransferShape(x)
  <2>1. Working(x) /\ Held(x) /\ RefsCount(x) /\ TransferShape(x)
    BY DEF Good, Working, Core
  <2> QED BY <2>1, XferRefsZero
<1>1. Taken(x, a, p) /\ p.ctx = x.ctx /\ x.ctx[a].task # "none" /\ p = [x EXCEPT !.net[a] = Tail(@)]
  BY <1>0, XferTail
<1>2. DOMAIN x = DOMAIN NoTransfer /\ DOMAIN x.ctx = Ends /\ DOMAIN x.ctx[a] = DOMAIN NewCtx("none")
      /\ (\A e \in Ends : CtxShape(x.ctx[e])) /\ DOMAIN x.net = Ends
  BY <1>0, XferParts
<1>3. y = [w EXCEPT !.net[a] = Tail(@)]
  <2>1. CASE x.ctx[a].task = "run"
    BY <1>1, <1>2, <2>1 DEF NoTransfer
  <2>2. CASE x.ctx[a].task # "run"
    BY <1>1, <2>2
  <2> QED BY <2>1, <2>2
<1>4. /\ Working(w) /\ Held(w) /\ RefsBut(w, a, 0) /\ w.net = x.net /\ w.ctx[a].task \notin {"none", "run"}
  <2>1. CASE x.ctx[a].task = "run"
    <3>1. w = [x EXCEPT !.ctx[a].task = "stopped", !.ctx[a].singalStop = ~isApp]
      BY <2>1
    <3> HIDE DEF w
    <3>2. /\ w.ctx = [x.ctx EXCEPT ![a] = [x.ctx[a] EXCEPT !.task = "stopped", !.singalStop = ~isApp]] /\ w.net = x.net
          /\ w.req = x.req /\ SameDisk(x, w) /\ DOMAIN w = DOMAIN x
      BY <1>2, <3>1 DEF NoTransfer, SameDisk
    <3>3. /\ w.ctx[a] = [x.ctx[a] EXCEPT !.task = "stopped", !.singalStop = ~isApp] /\ DOMAIN w.ctx = Ends
          /\ \A e \in Ends : e # a => w.ctx[e] = x.ctx[e]
      BY <1>2, <3>2
    <3>4. CtxShape(x.ctx[a])
      BY <1>2
    <3>5. ~x.ctx[a].singalStop
      BY <2>1, <3>4 DEF CtxShape
    <3>6. /\ DOMAIN w.ctx[a] = DOMAIN x.ctx[a] /\ w.ctx[a].isFdOpen = x.ctx[a].isFdOpen /\ w.ctx[a].openFd = x.ctx[a].openFd
          /\ w.ctx[a].fileSize = x.ctx[a].fileSize /\ w.ctx[a].indexIO = x.ctx[a].indexIO
          /\ w.ctx[a].ioFinish = x.ctx[a].ioFinish /\ w.ctx[a].lastErrno = x.ctx[a].lastErrno
          /\ w.ctx[a].closeNotify = x.ctx[a].closeNotify /\ w.ctx[a].taskQueue = x.ctx[a].taskQueue
          /\ w.ctx[a].refCount = x.ctx[a].refCount /\ w.ctx[a].singalStop = ~isApp
          /\ w.ctx[a].task = "stopped"
      BY <1>2, <3>3 DEF NewCtx
    <3>7. w.ctx[a].singalStop \in BOOLEAN
      BY <3>6, Zenon DEF isApp
    <3>8. Ended(x, a, w)
      BY <3>2, <3>3, <3>5, <3>6, <3>7 DEF Ended
    <3>9. Calm(x, w) /\ Held(w) /\ RefsBut(w, a, 0)
      <4>1. w.ctx[a].task # "deleted"
        BY <3>6
      <4> QED BY <1>0, <1>1, <3>8, <4>1, XferEnded
    <3> QED BY <3>2, <3>6, <3>9 DEF Calm
  <2>2. CASE x.ctx[a].task # "run"
    BY <1>0, <1>1, <2>2
  <2> QED BY <2>1, <2>2
<1> HIDE DEF w, p
<1>5. Taken(w, a, y) /\ y.ctx = w.ctx /\ w.net[a] # <<>> /\ w.net[a][1].cmd = "CHANNEL_CLOSE"
  <2>1. w.net[a] # <<>> /\ w.net[a][1].cmd = "CHANNEL_CLOSE"
    BY <1>4
  <2> QED BY <1>3, <1>4, <2>1, XferTail, ZenonT(40)
<1> HIDE DEF y
<1>6. Working(y) /\ Held(y) /\ RefsBut(y, a, 0)
  BY <1>4, <1>5, XferTaken
<1>7. Working(z) /\ Held(z) /\ RefsBut(z, a, 0)
  <2>1. OtherEnd(a) = "m" => Slave(y).task # "none"
    BY <1>4, <1>5, XferEnds DEF Slave
  <2> QED BY <1>6, <2>1, XferNotify, XferEnds, SMTT(30)
<1>8. ChannelClose(p, a, n) = y \/ ChannelClose(p, a, n) = z
  BY DEF ChannelClose, y
<1> QED BY <1>6, <1>7, <1>8, XferGood DEF p

\* CommandDispatch takes a message for the task; a message that holds the token
\* leaves the transfer without one.
LEMMA XferPopped ==
  ASSUME NEW x, Good(x), NEW a \in Ends, x.net[a] # <<>>,
         x.net[a][1].cmd \notin {"CHANNEL_CLOSE", "WAKEUP_SLAVETASK"}
  PROVE  LET y == [x EXCEPT !.net[a] = Tail(@)]
         IN  /\ Good(y) /\ Taken(x, a, y) /\ y.ctx = x.ctx /\ x.ctx[a].task # "none" /\ (NoData(x) => NoData(y))
             /\ (\A e \in Ends : Closing(x, e) => Closing(y, e))
             /\ Head(x.net[a]) = x.net[a][1] /\ x.net[a][1].cmd \in Commands(a) /\ 1 \in 1 .. Len(x.net[a])
             /\ x.ctx[a].task = "run" /\ Control(x, a, x.net[a][1]) =>
                  /\ Free(y) /\ ~y.forkFailed /\ ~Master(y).lastErrno
                  /\ IF a = "s" THEN SlaveMessage(y, x.net[a][1]) ELSE MasterMessage(y, x.net[a][1])
<1> DEFINE y == [x EXCEPT !.net[a] = Tail(@)]
<1>0. Working(x) /\ Held(x) /\ RefsBut(x, a, 0)
  <2>1. Working(x) /\ Held(x) /\ RefsCount(x) /\ TransferShape(x)
    BY DEF Good, Working, Core
  <2> QED BY <2>1, XferRefsZero
<1>1. /\ Taken(x, a, y) /\ y.ctx = x.ctx /\ x.ctx[a].task # "none"
      /\ Head(x.net[a]) = x.net[a][1] /\ x.net[a][1].cmd \in Commands(a) /\ 1 \in 1 .. Len(x.net[a])
  BY <1>0, XferTail
<1> HIDE DEF y
<1>2. /\ Working(y) /\ (NoData(x) => NoData(y)) /\ (\A e \in Ends : Closing(x, e) => Closing(y, e))
      /\ TokenAt(x, a, 1) => /\ Free(y) /\ ~y.forkFailed /\ ~Master(y).lastErrno
                             /\ IF a = "s" THEN SlaveMessage(y, x.net[a][1]) ELSE MasterMessage(y, x.net[a][1])
      /\ Held(y) /\ RefsBut(y, a, 0)
  <2>1. y.ctx[a].task = x.ctx[a].task /\ x.net[a][1].cmd # "CHANNEL_CLOSE"
    BY <1>1
  <2> QED BY <1>0, <1>1, <2>1, XferTaken
<1>3. x.ctx[a].task = "run" /\ Control(x, a, x.net[a][1]) => TokenAt(x, a, 1)
  BY <1>1 DEF TokenAt, Live
<1>4. Good(y)
  BY <1>2, XferGood
<1> QED BY <1>1, <1>2, <1>3, <1>4 DEF y

\* The slave asks the pool to open its file, or starts bm install.
LEMMA XferSlaveAsk ==
  ASSUME NEW x, Working(x), Free(x), NoData(x), ~x.forkFailed, ~Master(x).lastErrno, Slave(x).task \in {"run", "stopped"},
         NEW op \in {"open", "install"}, NEW f, NEW i,
         op = "open" => /\ OpenFacts(x, f) /\ ~Slave(x).isFdOpen
                        /\ Begun(x) /\ Slave(x).fileSize = xcfg.sizes[Cur(x)],
         op = "install" => PackageFacts(x)
  PROVE  LET y == Request(x, "s", op, f, i)
         IN  Working(y) /\ Held(y) /\ NoData(y) /\ (\A b \in Ends, k \in Int : RefsBut(x, b, k) => RefsBut(y, b, k))
<1> DEFINE y == Request(x, "s", op, f, i)
           r == [end |-> "s", op |-> op, file |-> f, index |-> i]
<1>0. TransferShape(x)
  BY DEF Working, Core
<1>1. ReqShape(r)
  BY XferEnds DEF ReqShape
<1>2. /\ TransferShape(y) /\ y.net = x.net /\ SameDisk(x, y) /\ y.req = x.req \cup {r}
      /\ (\A e \in Ends : Kept(x.ctx[e], y.ctx[e]) /\ y.ctx[e].task = x.ctx[e].task)
      /\ (r \notin x.req => \A b \in Ends, k \in Int : RefsBut(x, b, k) => RefsBut(y, b, k))
  BY <1>0, <1>1, XferRequest, XferEnds
<1>3. r.op = op /\ r.end = "s" /\ r.file = f /\ r.op # "write" /\ r.op # "read"
  OBVIOUS
<1> HIDE DEF y, r
<1>4. Working(y) /\ r \notin x.req
  <2>1. /\ r.op = "open" => /\ OpenFacts(x, r.file) /\ ~x.ctx[r.end].isFdOpen
                            /\ r.end = "s" => Begun(x) /\ Slave(x).fileSize = xcfg.sizes[Cur(x)]
        /\ r.op = "install" => PackageFacts(x)
        /\ x.ctx[r.end].task # "deleted" /\ Slave(x).task # "none"
    BY <1>3 DEF Slave
  <2> QED BY <1>2, <1>3, <2>1, XferAsk
<1>5. NoData(y)
  BY <1>2, <1>3 DEF NoData, IsData
<1>6. Held(y)
  BY <1>2, <1>3, <1>5 DEF Held, Free, TokenIn
<1> QED BY <1>2, <1>4, <1>5, <1>6 DEF y

\* The handler fails: the other end is told that the channel closes.
LEMMA XferGiveUp ==
  ASSUME NEW x, Good(x), NEW a \in Ends, x.ctx[a].task # "none"
  PROVE  Good(TaskFinish(x, a)) /\ TaskFinish(x, a).ctx = x.ctx
<1> DEFINE y == TaskFinish(x, a)
<1>0. Working(x) /\ Held(x) /\ RefsBut(x, a, 0)
  <2>1. Working(x) /\ Held(x) /\ RefsCount(x) /\ TransferShape(x)
    BY DEF Good, Working, Core
  <2> QED BY <2>1, XferRefsZero
<1>1. Sent(x, y) /\ (NoData(x) <=> NoData(y))
  <2>1. a = "s" => Slave(x).task # "none"
    BY DEF Slave
  <2> QED BY <1>0, <2>1, XferTaskFinish
<1> HIDE DEF y
<1>2. Held(y)
  BY <1>0, <1>1, XferHeldSent
<1>3. Working(y) /\ RefsBut(y, a, 0) /\ y.ctx = x.ctx
  BY <1>0, <1>1 DEF Sent
<1> QED BY <1>2, <1>3, XferGood DEF y

\* SlaveCheck and AppCheck: the slave learns the size before it opens its file.
LEMMA XferSizeKnown ==
  ASSUME NEW x, Working(x), Free(x), NEW f, OpenFacts(x, f), Begun(x), ~Slave(x).isFdOpen, NEW n
  PROVE  LET y == [x EXCEPT !.ctx["s"].fileSize = n]
         IN  /\ Working(y) /\ Free(y) /\ NoData(y) /\ OpenFacts(y, f) /\ Begun(y) /\ Cur(y) = Cur(x)
             /\ Slave(y).fileSize = n /\ ~Slave(y).isFdOpen /\ y.forkFailed = x.forkFailed
             /\ (\A e \in Ends : y.ctx[e].task = x.ctx[e].task)
             /\ Master(y) = Master(x) /\ (\A b \in Ends, k \in Int : RefsBut(x, b, k) => RefsBut(y, b, k))
<1> DEFINE y == [x EXCEPT !.ctx["s"].fileSize = n]
<1>0. /\ f = Cur(x) /\ InQueue(x) /\ NoData(x) /\ f \notin x.made /\ ~Master(x).lastErrno
      /\ OneFile(x) /\ DiskFits(x) /\ ErrorsKnown(x) /\ TransferShape(x)
  BY DEF OpenFacts, Working, Core
<1>1. /\ DOMAIN x = DOMAIN NoTransfer /\ DOMAIN x.ctx = Ends /\ DOMAIN x.ctx["s"] = DOMAIN NewCtx("none")
      /\ (\A e \in Ends : CtxShape(x.ctx[e])) /\ DOMAIN x.fds = Ends /\ IsFiniteSet(x.req)
      /\ x.forkFailed \in BOOLEAN /\ x.emptyFailed \in BOOLEAN /\ x.ctx["s"].taskQueue = <<>>
  BY <1>0, XferParts, XferEnds
<1>2. /\ y.ctx = [x.ctx EXCEPT !["s"] = [x.ctx["s"] EXCEPT !.fileSize = n]] /\ y.net = x.net /\ y.req = x.req
      /\ SameDisk(x, y) /\ DOMAIN y = DOMAIN x
  BY <1>1 DEF NoTransfer, SameDisk
<1> HIDE DEF y
<1>3. y.ctx["s"] = [x.ctx["s"] EXCEPT !.fileSize = n] /\ y.ctx["m"] = x.ctx["m"] /\ DOMAIN y.ctx = Ends
  BY <1>1, <1>2, XferEnds
<1>4. /\ DOMAIN y.ctx["s"] = DOMAIN x.ctx["s"] /\ y.ctx["s"].isFdOpen = x.ctx["s"].isFdOpen
      /\ y.ctx["s"].openFd = x.ctx["s"].openFd /\ y.ctx["s"].fileSize = n /\ y.ctx["s"].indexIO = x.ctx["s"].indexIO
      /\ y.ctx["s"].ioFinish = x.ctx["s"].ioFinish /\ y.ctx["s"].lastErrno = x.ctx["s"].lastErrno
      /\ y.ctx["s"].closeNotify = x.ctx["s"].closeNotify /\ y.ctx["s"].taskQueue = x.ctx["s"].taskQueue
      /\ y.ctx["s"].refCount = x.ctx["s"].refCount /\ y.ctx["s"].singalStop = x.ctx["s"].singalStop
      /\ y.ctx["s"].task = x.ctx["s"].task
  BY <1>1, <1>3 DEF NewCtx
<1>5. CtxShape(y.ctx["s"])
  <2>1. CtxShape(x.ctx["s"])
    BY <1>1, XferEnds
  <2> QED BY <1>4, <2>1, Zenon DEF CtxShape
<1>6. TransferShape(y)
  <2>1. /\ (\A e \in Ends : CtxShape(y.ctx[e])) /\ y.ctx["s"].taskQueue = <<>> /\ Queue(y) = Queue(x)
        /\ (\A q \in y.req : q \in x.req) /\ IsFiniteSet(y.req) /\ DOMAIN y.fds = Ends
        /\ y.forkFailed \in BOOLEAN /\ y.emptyFailed \in BOOLEAN
    BY <1>1, <1>2, <1>3, <1>4, <1>5, XferEnds DEF Queue, Master, SameDisk
  <2> QED BY <1>0, <1>2, <1>3, <2>1, XferShape, Zenon
<1>7. \A e \in Ends : /\ y.ctx[e].task = x.ctx[e].task /\ y.ctx[e].refCount = x.ctx[e].refCount
                      /\ y.ctx[e].isFdOpen = x.ctx[e].isFdOpen /\ y.ctx[e].openFd = x.ctx[e].openFd
                      /\ y.ctx[e].ioFinish = x.ctx[e].ioFinish
  BY <1>3, <1>4, XferEnds
<1>8. OneFile(y)
  <2> SUFFICES ASSUME NEW e \in Ends
               PROVE  /\ y.fds[e] = IF y.ctx[e].isFdOpen THEN {y.ctx[e].openFd} ELSE {}
                      /\ y.ctx[e].ioFinish => ~y.ctx[e].isFdOpen
                      /\ y.ctx[e].task = "deleted" => ~y.ctx[e].isFdOpen /\ \A p \in y.req : p.end # e
    BY DEF OneFile
  <2>1. /\ x.fds[e] = IF x.ctx[e].isFdOpen THEN {x.ctx[e].openFd} ELSE {}
        /\ x.ctx[e].ioFinish => ~x.ctx[e].isFdOpen
        /\ x.ctx[e].task = "deleted" => ~x.ctx[e].isFdOpen /\ \A p \in x.req : p.end # e
    BY <1>0 DEF OneFile
  <2>2. y.fds = x.fds /\ y.req = x.req
    BY <1>2 DEF SameDisk
  <2> QED BY <1>7, <2>1, <2>2
<1>9. Queue(y) = Queue(x) /\ Cur(y) = Cur(x) /\ Master(y) = Master(x) /\ y.made = x.made /\ y.data = x.data
  BY <1>2, <1>3 DEF Queue, Cur, Master, SameDisk
<1>10. DiskFits(y)
  <2>1. ~SlaveReady(y)
    BY <1>0, <1>9 DEF SlaveReady
  <2> QED BY <1>0, <1>9, <2>1 DEF DiskFits
<1>11. SlaveErrors(y)
  <2>1. Closing(x, "m") => Closing(y, "m")
    BY <1>2, <1>7, XferEnds DEF Closing
  <2> QED BY <1>0, <1>2, <1>4, <2>1 DEF ErrorsKnown, SlaveErrors, Slave
<1>12. Working(y) /\ Free(y) /\ NoData(y)
  <2>1. /\ y.summary = x.summary /\ y.emptyFailed = x.emptyFailed /\ x.told \subseteq y.told /\ x.made \subseteq y.made
        /\ y.data = x.data /\ ~Master(y).lastErrno /\ ~Master(y).closeNotify
        /\ (\A e \in Ends : y.ctx[e].task = x.ctx[e].task) /\ (Queue(y) # <<>> => Queue(x) # <<>>)
        /\ y.net = x.net /\ y.req = x.req
    BY <1>0, <1>2, <1>7, <1>9 DEF SameDisk, ErrorsKnown
  <2> QED BY <1>0, <1>6, <1>8, <1>9, <1>10, <1>11, <2>1, XferBetween
<1>13. OpenFacts(y, f) /\ Begun(y)
  BY <1>0, <1>9, <1>12 DEF OpenFacts, Begun, MasterReady, InQueue
<1>14. \A b \in Ends, k \in Int : RefsBut(x, b, k) => RefsBut(y, b, k)
  BY <1>2, <1>7, XferRefsSame DEF SameDisk
<1>15. Slave(y).fileSize = n /\ ~Slave(y).isFdOpen /\ y.forkFailed = x.forkFailed
  BY <1>2, <1>4 DEF Slave, SameDisk
<1> QED BY <1>7, <1>9, <1>12, <1>13, <1>14, <1>15 DEF y

\* CommandDispatch, CMD_FILE_CHECK and CMD_APP_CHECK.
LEMMA XferCheckStep ==
  ASSUME NEW x, Good(x), Free(x), ~x.forkFailed, ~Master(x).lastErrno, Slave(x).task = "run",
         NEW f, OpenFacts(x, f), Begun(x), ~Slave(x).isFdOpen
  PROVE  \A z \in SlaveCheck(x, f) \cup AppCheck(x, f) : Good(z)
<1> DEFINE n == xcfg.sizes[f]
           y == [x EXCEPT !.ctx["s"].fileSize = n]
           w == Request(y, "s", "open", f, 0)
<1>0. Working(x) /\ RefsBut(x, "s", 0) /\ f = Cur(x)
  <2>1. Working(x) /\ Held(x) /\ RefsCount(x) /\ TransferShape(x)
    BY DEF Good, Working, Core
  <2> QED BY <2>1, XferRefsZero, XferEnds DEF OpenFacts
<1>1. Good(TaskFinish(x, "s"))
  BY XferGiveUp, XferEnds DEF Slave
<1>2. /\ Working(y) /\ Free(y) /\ NoData(y) /\ OpenFacts(y, f) /\ Begun(y) /\ Cur(y) = Cur(x)
      /\ Slave(y).fileSize = n /\ ~Slave(y).isFdOpen /\ y.forkFailed = x.forkFailed
      /\ (\A e \in Ends : y.ctx[e].task = x.ctx[e].task)
      /\ Master(y) = Master(x) /\ RefsBut(y, "s", 0)
  <2> HIDE DEF n
  <2>1. \A b \in Ends, k \in Int : RefsBut(x, b, k) => RefsBut(y, b, k)
    BY <1>0, XferSizeKnown, Zenon
  <2>2. RefsBut(y, "s", 0)
    <3> HIDE DEF y
    <3> QED BY <1>0, <2>1, XferEnds
  <2>3. Working(y) /\ Free(y) /\ NoData(y) /\ OpenFacts(y, f) /\ Begun(y) /\ Cur(y) = Cur(x)
    BY <1>0, XferSizeKnown, Zenon
  <2>4. Slave(y).fileSize = n /\ ~Slave(y).isFdOpen /\ y.forkFailed = x.forkFailed /\ Master(y) = Master(x)
    BY <1>0, XferSizeKnown, Zenon
  <2>5. ASSUME NEW e \in Ends PROVE y.ctx[e].task = x.ctx[e].task
    BY <1>0, XferSizeKnown
  <2> HIDE DEF y
  <2> QED BY <2>2, <2>3, <2>4, <2>5
<1> HIDE DEF y
<1>3. Working(w) /\ Held(w) /\ RefsBut(w, "s", 0)
  <2>1. Slave(y).task \in {"run", "stopped"} /\ Slave(y).fileSize = xcfg.sizes[Cur(y)] /\ ~y.forkFailed /\ ~Master(y).lastErrno
    BY <1>0, <1>2, XferEnds DEF Slave
  <2> QED BY <1>2, <2>1, XferSlaveAsk, XferEnds
<1>4. Good(w)
  BY <1>3, XferGood, XferEnds
<1> QED BY <1>1, <1>4 DEF SlaveCheck, AppCheck, Dispatched, y

\* What Good says, in the form the lemmas about the steps of a handler use.
LEMMA XferGoodParts ==
  ASSUME NEW x, Good(x)
  PROVE  /\ Working(x) /\ Held(x) /\ TransferShape(x) /\ (\A a \in Ends : RefsBut(x, a, 0))
<1>1. Working(x) /\ Held(x) /\ RefsCount(x) /\ TransferShape(x)
  BY DEF Good, Working, Core
<1> QED BY <1>1, XferRefsZero

\* A handler that answers with one message.
LEMMA XferPassOn ==
  ASSUME NEW x, Good(x), NEW a \in Ends, NEW cmd, cmd # "DATA", NEW arg,
         ~x.ctx[a].singalStop => MaySend(x, OtherEnd(a), [cmd |-> cmd, arg |-> arg])
  PROVE  Good(SendToAnother(x, a, cmd, arg))
<1> DEFINE y == SendToAnother(x, a, cmd, arg)
<1>0. Working(x) /\ Held(x) /\ RefsBut(x, a, 0)
  BY XferGoodParts
<1>1. Sent(x, y) /\ (NoData(x) <=> NoData(y))
  BY <1>0, XferSendTo
<1> HIDE DEF y
<1>2. Held(y)
  BY <1>0, <1>1, XferHeldSent
<1>3. Working(y) /\ RefsBut(y, a, 0)
  BY <1>0, <1>1 DEF Sent
<1> QED BY <1>2, <1>3, XferGood DEF y

\* FileModeSync: the modes that are still to be acknowledged are no state of the
\* file.
LEMMA XferDirMode ==
  ASSUME NEW x, Good(x)
  PROVE  LET y == [x EXCEPT !.ctx["m"].dirMode = @ - 1] IN Good(y) /\ Like(x, y)
<1> DEFINE n == x.ctx["m"].dirMode - 1
           y == [x EXCEPT !.ctx["m"].dirMode = @ - 1]
<1>0. Working(x) /\ Held(x) /\ RefsBut(x, "m", 0) /\ TransferShape(x)
  BY XferGoodParts, XferEnds
<1>1. /\ DOMAIN x = DOMAIN NoTransfer /\ DOMAIN x.ctx = Ends /\ DOMAIN x.ctx["m"] = DOMAIN NewCtx("none")
      /\ (\A e \in Ends : CtxShape(x.ctx[e])) /\ DOMAIN x.fds = Ends /\ IsFiniteSet(x.req)
      /\ x.forkFailed \in BOOLEAN /\ x.emptyFailed \in BOOLEAN /\ x.ctx["s"].taskQueue = <<>>
  BY <1>0, XferParts, XferEnds
<1>2. /\ y.ctx = [x.ctx EXCEPT !["m"] = [x.ctx["m"] EXCEPT !.dirMode = n]] /\ y.net = x.net /\ y.req = x.req
      /\ SameDisk(x, y) /\ DOMAIN y = DOMAIN x
  BY <1>1 DEF NoTransfer, SameDisk
<1> HIDE DEF y, n
<1>3. y.ctx["m"] = [x.ctx["m"] EXCEPT !.dirMode = n] /\ y.ctx["s"] = x.ctx["s"] /\ DOMAIN y.ctx = Ends
  BY <1>1, <1>2, XferEnds
<1>4. /\ DOMAIN y.ctx["m"] = DOMAIN x.ctx["m"] /\ Kept(x.ctx["m"], y.ctx["m"])
      /\ y.ctx["m"].refCount = x.ctx["m"].refCount /\ y.ctx["m"].task = x.ctx["m"].task
  BY <1>1, <1>3 DEF NewCtx, Kept
<1>5. CtxShape(y.ctx["m"])
  <2>1. CtxShape(x.ctx["m"])
    BY <1>1, XferEnds
  <2> QED BY <1>4, <2>1, Zenon DEF CtxShape, Kept
<1>6. TransferShape(y)
  <2>1. /\ (\A e \in Ends : CtxShape(y.ctx[e])) /\ y.ctx["s"].taskQueue = <<>> /\ Queue(y) = Queue(x)
        /\ (\A q \in y.req : q \in x.req) /\ IsFiniteSet(y.req) /\ DOMAIN y.fds = Ends
        /\ y.forkFailed \in BOOLEAN /\ y.emptyFailed \in BOOLEAN
    BY <1>1, <1>2, <1>3, <1>4, <1>5, XferEnds DEF Queue, Master, SameDisk, Kept
  <2> QED BY <1>0, <1>2, <1>3, <2>1, XferShape, Zenon
<1>7. \A e \in Ends : /\ y.ctx[e].task = x.ctx[e].task /\ y.ctx[e].refCount = x.ctx[e].refCount
                      /\ Kept(x.ctx[e], y.ctx[e])
  <2>1. Kept(x.ctx["s"], y.ctx["s"])
    BY <1>3 DEF Kept
  <2> QED BY <1>3, <1>4, <2>1, XferEnds
<1>8. Like(x, y)
  BY <1>2, <1>6, <1>7 DEF Like
<1>9. Working(y) /\ Held(y)
  BY <1>0, <1>8, XferLike
<1>10. RefsBut(y, "m", 0)
  <2>1. y.req = x.req /\ y.forkFailed = x.forkFailed /\ 0 \in Int
    BY <1>2 DEF SameDisk
  <2>2. \A e \in Ends : y.ctx[e].refCount = x.ctx[e].refCount
    BY <1>7
  <2> QED BY <1>0, <2>1, <2>2, XferRefsSame, XferEnds
<1> QED BY <1>8, <1>9, <1>10, XferGood, XferEnds DEF y, n

\* CommandDispatch, CMD_FILE_MODE and CMD_DIR_MODE.
LEMMA XferModeStep ==
  ASSUME NEW x, Good(x), Free(x), ~x.forkFailed, ~Master(x).lastErrno, NEW a \in Ends, x.ctx[a].task = "run",
         NEW f, OpenFacts(x, f), Begun(x), SlaveClosed(x), Slave(x).task # "none" \/ a = "m"
  PROVE  Good(FileModeSync(x, a, f))
<1>1. CASE a = "s"
  <2>1. MaySend(x, OtherEnd("s"), [cmd |-> "FILE_MODE", arg |-> f])
    <3>1. MasterMessage(x, [cmd |-> "FILE_MODE", arg |-> f]) /\ Slave(x).task # "none"
      BY <1>1 DEF MasterMessage
    <3> QED BY <3>1, XferEnds DEF MaySend, Commands, ToMasterCommands
  <2>2. Good(SendToAnother(x, "s", "FILE_MODE", f))
    BY <2>1, XferPassOn, XferEnds
  <2> QED BY <1>1, <2>2 DEF FileModeSync
<1>2. CASE a = "m"
  <2>1. ASSUME NEW y, Good(y), Free(y), ~y.forkFailed, ~Master(y).lastErrno, OpenFacts(y, f), Begun(y), SlaveClosed(y),
               NEW cmd \in {"CHECK", "DIR_MODE"}
        PROVE  Good(SendToAnother(y, "m", cmd, f))
    <3>1. MaySend(y, OtherEnd("m"), [cmd |-> cmd, arg |-> f])
      <4>1. ~Closing(y, "s") => SlaveMessage(y, [cmd |-> cmd, arg |-> f])
        BY <2>1 DEF SlaveMessage, SlaveClosed
      <4> QED BY <2>1, <4>1, XferEnds DEF MaySend, Commands, ToSlaveCommands
    <3> QED BY <2>1, <3>1, XferPassOn, XferEnds
  <2> DEFINE y == [x EXCEPT !.ctx["m"].dirMode = @ - 1]
  <2>2. /\ Good(y) /\ Free(y) /\ ~y.forkFailed /\ ~Master(y).lastErrno /\ OpenFacts(y, f) /\ Begun(y) /\ SlaveClosed(y)
    <3>1. Good(y) /\ Like(x, y)
      BY XferDirMode
    <3> HIDE DEF y
    <3>2. Free(y) /\ OpenFacts(y, f) /\ Begun(y) /\ SlaveClosed(y)
      BY <3>1, XferLike DEF Good
    <3>3. ~y.forkFailed /\ ~Master(y).lastErrno
      BY <3>1, XferEnds DEF Like, SameDisk, Kept, Master
    <3> QED BY <3>1, <3>2, <3>3
  <2> HIDE DEF y
  <2>3. Good(SendToAnother(y, "m", "DIR_MODE", f)) /\ Good(SendToAnother(x, "m", "CHECK", f))
    BY <2>1, <2>2
  <2> QED BY <1>2, <2>3 DEF FileModeSync, y
<1> QED BY <1>1, <1>2, XferEnds

\* The master asks the pool for the next block.
LEMMA XferMasterRead ==
  ASSUME NEW x, Working(x), Free(x), ~x.forkFailed, ~Master(x).lastErrno, ReadFacts(x), NoEmpty(x),
         Master(x).task \in {"run", "stopped"},
         \/ Master(x).indexIO < xcfg.sizes[Cur(x)]
         \/ xcfg.sizes[Cur(x)] = 0 /\ Master(x).indexIO = 0
  PROVE  LET y == Request(x, "m", "read", Master(x).openFd, Master(x).indexIO)
         IN  Working(y) /\ Held(y) /\ (\A b \in Ends, k \in Int : RefsBut(x, b, k) => RefsBut(y, b, k))
<1> DEFINE f == Master(x).openFd
           i == Master(x).indexIO
           y == Request(x, "m", "read", f, i)
           r == [end |-> "m", op |-> "read", file |-> f, index |-> i]
<1>0. TransferShape(x) /\ f = Cur(x)
  BY DEF Working, Core, ReadFacts, MasterReady
<1>1. ReqShape(r)
  BY XferEnds DEF ReqShape
<1>3. r.op = "read" /\ r.end = "m" /\ r.file = Cur(x) /\ r.index = Master(x).indexIO
  BY <1>0
<1> HIDE DEF f, i
<1>2. /\ TransferShape(y) /\ y.net = x.net /\ SameDisk(x, y) /\ y.req = x.req \cup {r}
      /\ (\A e \in Ends : Kept(x.ctx[e], y.ctx[e]) /\ y.ctx[e].task = x.ctx[e].task)
      /\ (r \notin x.req => \A b \in Ends, k \in Int : RefsBut(x, b, k) => RefsBut(y, b, k))
  BY <1>0, <1>1, XferRequest, XferEnds
<1> HIDE DEF y, r
<1>4. Working(y) /\ r \notin x.req
  <2>1. r.op # "write" /\ r.op # "open" /\ r.op # "install" /\ r.end # "s" /\ x.ctx[r.end].task # "deleted"
    BY <1>3 DEF Master
  <2>2. r.index < xcfg.sizes[Cur(x)] \/ (xcfg.sizes[Cur(x)] = 0 /\ r.index = 0)
    BY <1>3
  <2> QED BY <1>2, <1>3, <2>1, <2>2, XferAsk
<1>5. Held(y)
  BY <1>2, <1>3 DEF Held, Free, TokenIn
<1> QED BY <1>2, <1>4, <1>5 DEF y, f, i

\* CommandDispatch, CMD_FILE_BEGIN and CMD_APP_BEGIN.
LEMMA XferBeginStep ==
  ASSUME PlanFits, NEW x, Good(x), Free(x), ~x.forkFailed, ~Master(x).lastErrno, Master(x).task = "run",
         ReadFacts(x), NoData(x), Begun(x)
  PROVE  Good(FileBegin(x, Cur(x)))
<1>0. Working(x) /\ Held(x) /\ TransferShape(x) /\ RefsBut(x, "m", 0) /\ x.ctx["m"].task = "run"
  BY XferGoodParts, XferEnds DEF Master
<1>1. CASE xcfg.oldPeer
  <2> DEFINE t == [x EXCEPT !.told = @ \cup {Cur(x)}]
             u == OnFileOpenFailed(t, "m")
             v == TaskFinish(u, "m")
  <2>1. /\ Calm(x, t) /\ t.ctx = x.ctx /\ Done(t, Cur(x)) /\ Held(t) /\ t.forkFailed = x.forkFailed /\ RefsBut(t, "m", 0)
    BY <1>0, XferTold, XferEnds
  <2>2. FileBegin(x, Cur(x)) = TaskFinish(v, "m")
    BY <1>1 DEF FileBegin, Dispatched
  <2> HIDE DEF t
  <2>3. /\ Working(t) /\ Free(t) /\ NoData(t) /\ InQueue(t) /\ Done(t, Cur(t)) /\ Queue(t) = Queue(x)
        /\ ~Master(t).lastErrno /\ ~t.forkFailed /\ t.ctx["m"].task = "run"
    BY <1>0, <2>1 DEF Calm, ReadFacts, Master
  <2>4. Good(v) /\ v.ctx["m"].task # "none"
    <3>1. CASE isDir
      <4>1. u = FileFinish(t, "m", 1) /\ ~isApp
        BY <3>1 DEF OnFileOpenFailed, PlanFits
      <4> HIDE DEF u
      <4>2. /\ Working(u) /\ NoData(u) /\ RefsBut(u, "m", 0)
            /\ (\A e \in Ends : u.ctx[e].task = t.ctx[e].task /\ u.ctx[e].singalStop = t.ctx[e].singalStop)
        <5>1. Master(t).task # "deleted"
          BY <2>3 DEF Master
        <5>2. \A b \in Ends, k \in Int : RefsBut(t, b, k) => RefsBut(u, b, k)
          BY <2>3, <4>1, <5>1, XferFileEnd
        <5>3. /\ Working(u) /\ NoData(u)
              /\ (\A e \in Ends : u.ctx[e].task = t.ctx[e].task /\ u.ctx[e].singalStop = t.ctx[e].singalStop)
          BY <2>3, <4>1, <5>1, XferFileEnd
        <5> QED BY <2>1, <5>2, <5>3, XferEnds
      <4>3. ~u.ctx["m"].singalStop
        <5>1. CtxShape(t.ctx["m"])
          BY <2>3, XferParts, XferEnds DEF Working, Core
        <5> QED BY <2>3, <4>2, <5>1, XferEnds DEF CtxShape
      <4>4. Sent(u, v) /\ NoData(v) /\ Closing(v, "s")
        BY <4>2, <4>3, XferTaskFinish, XferEnds
      <4> HIDE DEF v
      <4>5. Held(v)
        BY <4>4 DEF Held, SlaveClosed
      <4>6. Working(v) /\ RefsBut(v, "m", 0) /\ v.ctx["m"].task # "none"
        BY <2>3, <4>2, <4>4, XferEnds DEF Sent
      <4> QED BY <4>5, <4>6, XferGood, XferEnds
    <3>2. CASE ~isDir
      <4>1. u = TaskFinish(t, "m")
        BY <3>2 DEF OnFileOpenFailed
      <4>2. Good(t)
        BY <2>1, <2>3, XferGood, XferEnds
      <4> HIDE DEF u
      <4>3. Good(u) /\ u.ctx = t.ctx
        BY <2>3, <4>1, <4>2, XferGiveUp, XferEnds
      <4>4. Good(v) /\ v.ctx = u.ctx
        BY <2>3, <4>3, XferGiveUp, XferEnds
      <4> QED BY <2>3, <4>3, <4>4
    <3> QED BY <3>1, <3>2
  <2> HIDE DEF v
  <2> QED BY <2>2, <2>4, XferGiveUp, XferEnds
<1>2. CASE ~xcfg.oldPeer /\ x.ctx["m"].ioFinish
  <2>1. FileBegin(x, Cur(x)) = TaskFinish(x, "m")
    BY <1>2 DEF FileBegin, Dispatched, SimpleFileIO
  <2> QED BY <1>0, <2>1, XferGiveUp, XferEnds
<1>3. CASE ~xcfg.oldPeer /\ ~x.ctx["m"].ioFinish
  <2> DEFINE y == Request(x, "m", "read", Master(x).openFd, Master(x).indexIO)
  <2>1. FileBegin(x, Cur(x)) = y
    BY <1>3 DEF FileBegin, Dispatched, SimpleFileIO, Master
  <2>2. Working(y) /\ Held(y) /\ RefsBut(y, "m", 0)
    <3>1. xcfg.sizes[Cur(x)] \in Nat /\ Master(x).indexIO = 0 /\ NoEmpty(x)
      BY DEF ReadFacts, InQueue, PlanFits, Begun, NoEmpty, NoData
    <3>2. Master(x).indexIO < xcfg.sizes[Cur(x)] \/ (xcfg.sizes[Cur(x)] = 0 /\ Master(x).indexIO = 0)
      BY <3>1
    <3> QED BY <1>0, <3>1, <3>2, XferMasterRead, XferEnds
  <2> HIDE DEF y
  <2> QED BY <2>1, <2>2, XferGood, XferEnds
<1> QED BY <1>1, <1>2, <1>3

\* TransferSummary: the success that is reported is one.
LEMMA XferSummary ==
  ASSUME PlanFits, NEW x, Working(x), NEW a \in Ends, AllDone(x) \/ (a = "m" /\ Master(x).lastErrno)
  PROVE  LET y == TransferSummary(x, a)
         IN  /\ Calm(x, y) /\ y.ctx = x.ctx /\ y.req = x.req /\ (Held(x) => Held(y))
             /\ \A b \in Ends, k \in Int : RefsBut(x, b, k) => RefsBut(y, b, k)
<1> DEFINE s == IF x.summary # "none" THEN x.summary
                ELSE IF x.ctx[a].indexIO >= x.ctx[a].fileSize \/ ~x.ctx[a].lastErrno THEN "ok" ELSE "fail"
           y == TransferSummary(x, a)
<1>0. TransferShape(x) /\ OneFile(x) /\ ErrorsKnown(x)
  BY DEF Working, Core
<1>1. y = [x EXCEPT !.summary = s]
  BY DEF TransferSummary
<1>2. s = x.summary \/ (s = "ok" /\ ~x.emptyFailed => AllDone(x))
  <2> SUFFICES ASSUME ~AllDone(x), x.summary = "none", s = "ok", ~x.emptyFailed PROVE FALSE
    OBVIOUS
  <2>1. a = "m" /\ Master(x).lastErrno /\ x.ctx[a] = Master(x)
    BY DEF Master
  <2>2. Master(x).indexIO >= Master(x).fileSize
    BY <2>1
  <2>3. MasterReady(x) /\ InQueue(x) /\ Master(x).indexIO < xcfg.sizes[Cur(x)]
    BY <1>0, <2>1 DEF ErrorsKnown
  <2>4. Master(x).indexIO < Master(x).fileSize /\ Master(x).fileSize \in Nat
    BY <2>3 DEF MasterReady, PlanFits, InQueue
  <2>5. Master(x).indexIO \in Nat
    <3>1. CtxShape(x.ctx["m"])
      BY <1>0, XferParts, XferEnds
    <3> QED BY <3>1 DEF CtxShape, Master
  <2> QED BY <2>2, <2>4, <2>5
<1> HIDE DEF s, y
<1>3. /\ y.ctx = x.ctx /\ y.fds = x.fds /\ y.net = x.net /\ y.req = x.req /\ y.made = x.made /\ y.data = x.data
      /\ y.told = x.told /\ y.forkFailed = x.forkFailed /\ y.emptyFailed = x.emptyFailed /\ y.summary = s
      /\ DOMAIN y = DOMAIN x
  BY <1>0, <1>1 DEF TransferShape, NoTransfer
<1>4. TransferShape(y)
  BY <1>0, <1>3 DEF TransferShape, Slave, Queue, Master
<1>5. OneFile(y)
  BY <1>0, <1>3, ZenonT(40) DEF OneFile
<1>6. SlaveErrors(y)
  BY <1>0, <1>3 DEF ErrorsKnown, SlaveErrors, Slave, Closing
<1>7. /\ Queue(y) = Queue(x) /\ Master(y) = Master(x) /\ Slave(y) = Slave(x)
      /\ y.summary = x.summary \/ (y.summary = "ok" /\ ~y.emptyFailed => AllDone(x))
  BY <1>2, <1>3 DEF Queue, Master, Slave
<1>8. Working(y)
  BY <1>3, <1>4, <1>5, <1>6, <1>7, XferQuiet
<1>9. Calm(x, y)
  BY <1>3, <1>7, <1>8, XferCalm
<1>10. Held(x) => Held(y)
  BY <1>3, <1>7, <1>9, XferHeldKeep DEF Calm
<1>11. \A b \in Ends, k \in Int : RefsBut(x, b, k) => RefsBut(y, b, k)
  BY <1>3, XferRefsSame
<1> QED BY <1>3, <1>9, <1>10, <1>11 DEF y

\* CommandDispatch, CMD_FILE_FINISH.
LEMMA XferFinishStep ==
  ASSUME PlanFits, NEW x, Good(x), NEW a \in Ends, x.ctx[a].task = "run", ~isApp, NEW n \in {0, 1},
         a = "m" => /\ n = 0 => Master(x).lastErrno
                    /\ n = 1 /\ ~xcfg.shrinks => Done(x, Cur(x))
                    /\ n = 1 /\ Queue(x) # <<>> => /\ Free(x) /\ NoData(x) /\ InQueue(x) /\ ~Master(x).lastErrno
                                                   /\ ~x.forkFailed /\ SlaveClosed(x),
         a = "s" => (n = 0 => AllDone(x)) /\ (n = 1 => Master(x).lastErrno)
  PROVE  Good(FileFinish(x, a, n))
<1>0. Working(x) /\ Held(x) /\ TransferShape(x) /\ RefsBut(x, a, 0)
  BY XferGoodParts
<1>1. CASE n = 0
  <2> DEFINE y == TransferSummary(x, a)
  <2>1. FileFinish(x, a, n) = TaskFinish(y, a)
    BY <1>1 DEF FileFinish
  <2>2. Calm(x, y) /\ y.ctx = x.ctx /\ Held(y) /\ RefsBut(y, a, 0)
    <3>1. AllDone(x) \/ (a = "m" /\ Master(x).lastErrno)
      BY <1>1, XferEnds
    <3> QED BY <1>0, <3>1, XferSummary
  <2> HIDE DEF y
  <2>3. Good(y)
    BY <2>2, XferGood DEF Calm
  <2>4. y.ctx[a].task # "none"
    BY <2>2
  <2> QED BY <2>1, <2>3, <2>4, XferGiveUp
<1>2. CASE n = 1 /\ a = "s"
  <2> DEFINE y == SendToAnother([CloseCtxFd(x, a) EXCEPT !.ctx[a].ioFinish = TRUE], a, "FINISH", 0)
  <2>1. CloseCtxFd(x, "s").ctx["s"].taskQueue = <<>>
    <3>1. CtxRest(x.ctx["s"], CloseCtxFd(x, "s").ctx["s"])
      BY <1>0, XferCloseCtxFd, XferEnds
    <3> QED BY <1>0, <3>1, XferParts DEF CtxRest
  <2>2. FileFinish(x, a, n) = y
    BY <1>2, <2>1 DEF FileFinish
  <2>3. Working(y) /\ Held(y) /\ RefsBut(y, a, 0)
    <3>1. Slave(x).task # "none" /\ Master(x).lastErrno
      BY <1>2 DEF Slave
    <3> QED BY <1>0, <1>2, <3>1, XferLastFile
  <2> HIDE DEF y
  <2> QED BY <2>2, <2>3, XferGood
<1>3. CASE n = 1 /\ a = "m"
  <2> DEFINE y == FileFinish(x, "m", 1)
  <2>1. /\ Working(y) /\ RefsBut(y, "m", 0) /\ (SlaveClosed(x) => SlaveClosed(y))
        /\ (Held(x) /\ (Queue(x) # <<>> => SlaveClosed(y)) => Held(y))
    <3>1. Master(x).task # "deleted"
      BY <1>3 DEF Master
    <3>2. \A b \in Ends, k \in Int : RefsBut(x, b, k) => RefsBut(y, b, k)
      BY <1>0, <1>3, <3>1, XferFileEnd
    <3>3. /\ Working(y) /\ (SlaveClosed(x) => SlaveClosed(y))
          /\ (Held(x) /\ (Queue(x) # <<>> => SlaveClosed(y)) => Held(y))
      BY <1>0, <1>3, <3>1, XferFileEnd
    <3> QED BY <1>0, <1>3, <3>2, <3>3
  <2> HIDE DEF y
  <2>2. Held(y)
    BY <1>0, <1>3, <2>1
  <2>3. Good(y)
    BY <2>1, <2>2, XferGood, XferEnds
  <2> QED BY <1>3, <2>3 DEF y
<1> QED BY <1>1, <1>2, <1>3, XferEnds

\* PackageShell: a process that cannot be started leaves its reference behind.
LEMMA XferForkFails ==
  ASSUME NEW x, Working(x), Free(x), NoData(x), ~x.forkFailed, ~Master(x).lastErrno
  PROVE  LET y == [AddRef(x, "s", 1) EXCEPT !.forkFailed = TRUE]
         IN  /\ Working(y) /\ Held(y) /\ \A b \in Ends, k \in Int : RefsBut(x, b, k) => RefsBut(y, b, k)
<1> DEFINE w == AddRef(x, "s", 1)
           y == [w EXCEPT !.forkFailed = TRUE]
<1>0. TransferShape(x)
  BY DEF Working, Core
<1>1. /\ Like(x, w) /\ w.ctx["s"].refCount = x.ctx["s"].refCount + 1
      /\ \A e \in Ends : e # "s" => w.ctx[e].refCount = x.ctx[e].refCount
  BY <1>0, XferRef, XferEnds
<1> HIDE DEF w
<1>2. /\ Working(w) /\ Free(w) /\ NoData(w) /\ TransferShape(w) /\ ~Master(w).lastErrno /\ w.req = x.req /\ ~w.forkFailed
  <2>1. Working(w) /\ Free(w) /\ NoData(w)
    BY <1>1, XferLike
  <2> QED BY <1>1, <2>1, XferEnds DEF Like, Kept, Master, SameDisk
<1>3. /\ y.ctx = w.ctx /\ y.fds = w.fds /\ y.net = w.net /\ y.req = w.req /\ y.made = w.made /\ y.data = w.data
      /\ y.told = w.told /\ y.forkFailed = TRUE /\ y.emptyFailed = w.emptyFailed /\ y.summary = w.summary
      /\ DOMAIN y = DOMAIN w
  BY <1>2 DEF TransferShape, NoTransfer
<1> HIDE DEF y
<1>4. TransferShape(y)
  BY <1>2, <1>3 DEF TransferShape, Slave, Queue, Master
<1>5. OneFile(y) /\ DiskFits(y) /\ SlaveErrors(y)
  <2>1. OneFile(w) /\ DiskFits(w) /\ ErrorsKnown(w)
    BY <1>2 DEF Working, Core
  <2>2. OneFile(y)
    BY <1>3, <2>1, ZenonT(40) DEF OneFile
  <2>3. DiskFits(y)
    BY <1>3, <2>1 DEF DiskFits, Cur, Queue, SlaveReady, MasterReady, Slave, Master, Arrived
  <2>4. SlaveErrors(y)
    BY <1>3, <2>1 DEF ErrorsKnown, SlaveErrors, Slave, Closing
  <2> QED BY <2>2, <2>3, <2>4
<1>6. Working(y) /\ Free(y) /\ NoData(y)
  <2>1. /\ Queue(y) = Queue(w) /\ Cur(y) = Cur(w) /\ ~Master(y).lastErrno /\ ~Master(y).closeNotify
        /\ (\A e \in Ends : y.ctx[e].task = w.ctx[e].task)
    BY <1>2, <1>3 DEF Queue, Cur, Master, Working, Core, ErrorsKnown
  <2> QED BY <1>2, <1>3, <1>4, <1>5, <2>1, XferBetween
<1>7. Held(y)
  BY <1>6, XferHeldIdle DEF Free
<1>8. ASSUME NEW b \in Ends, NEW k \in Int, RefsBut(x, b, k) PROVE RefsBut(y, b, k)
  <2> SUFFICES ASSUME NEW e \in Ends
               PROVE  y.ctx[e].refCount = Owed(y, e) + Leaked(y, e) + (IF e = b THEN k ELSE 0)
    BY DEF RefsBut
  <2>1. x.ctx[e].refCount = Owed(x, e) + Leaked(x, e) + (IF e = b THEN k ELSE 0)
    BY <1>8 DEF RefsBut
  <2>2. Owed(y, e) = Owed(x, e) /\ Owed(x, e) \in Nat
    <3>1. IsFiniteSet(x.req)
      BY <1>0, XferParts
    <3> QED BY <1>2, <1>3, <3>1, XferOwed, ZenonT(40) DEF Owed
  <2>3. Leaked(x, e) = 0 /\ Leaked(y, e) = IF e = "s" THEN 1 ELSE 0
    BY <1>3 DEF Leaked
  <2>4. y.ctx[e].refCount = x.ctx[e].refCount + IF e = "s" THEN 1 ELSE 0
    <3>1. x.ctx[e].refCount \in Int
      BY <2>1, <2>2, <2>3
    <3> QED BY <1>1, <1>3, <3>1
  <2> QED BY <2>1, <2>2, <2>3, <2>4
<1> QED BY <1>6, <1>7, <1>8 DEF y, w

\* PackageShell, from WhenTransferFinish and for CMD_APP_UNINSTALL.
LEMMA XferPackage ==
  ASSUME NEW x, Working(x), Free(x), PackageFacts(x), ~x.forkFailed, Slave(x).task \in {"run", "stopped"},
         NEW z \in PackageShell(x)
  PROVE  Working(z) /\ Held(z) /\ \A b \in Ends, k \in Int : RefsBut(x, b, k) => RefsBut(z, b, k)
<1>0. NoData(x) /\ ~Master(x).lastErrno
  BY DEF PackageFacts
<1>1. CASE z = Request(x, "s", "install", x.ctx["s"].openFd, 0)
  BY <1>0, <1>1, XferSlaveAsk
<1>2. CASE z = [AddRef(x, "s", 1) EXCEPT !.forkFailed = TRUE]
  BY <1>0, <1>2, XferForkFails
<1> QED BY <1>1, <1>2 DEF PackageShell

\* CommandDispatch, CMD_APP_FINISH.
LEMMA XferContinueStep ==
  ASSUME PlanFits, NEW x, Good(x), Free(x), PackageFacts(x), ~x.forkFailed, Master(x).task = "run"
  PROVE  Good(CheckInstallContinue(x))
<1> DEFINE q == Queue(x)
           y == [x EXCEPT !.ctx["m"].taskQueue = SubSeq(Queue(x), 1, Len(Queue(x)) - 1)]
<1>0. /\ Working(x) /\ RefsBut(x, "m", 0) /\ NoData(x) /\ ~Master(x).lastErrno /\ isApp /\ TransferShape(x)
      /\ SlaveClosed(x) /\ ~Master(x).isFdOpen
  BY XferGoodParts, XferEnds DEF PackageFacts
<1>1. /\ Working(y) /\ Free(y) /\ NoData(y) /\ y.req = x.req /\ SameDisk(x, y)
      /\ (\A e \in Ends : Closing(x, e) => Closing(y, e))
      /\ Slave(y) = Slave(x) /\ Queue(y) = SubSeq(Queue(x), 1, Len(Queue(x)) - 1)
      /\ Master(y).isFdOpen = Master(x).isFdOpen /\ Master(y).lastErrno = Master(x).lastErrno
      /\ (\A e \in Ends : /\ y.ctx[e].task = x.ctx[e].task /\ y.ctx[e].singalStop = x.ctx[e].singalStop
                          /\ y.ctx[e].isFdOpen = x.ctx[e].isFdOpen /\ y.ctx[e].refCount = x.ctx[e].refCount)
      /\ (Queue(x) # <<>> => Cur(y) = Cur(x) - 1 /\ Cur(y) \notin y.made)
  BY <1>0, XferPopQueue
<1>2. CheckInstallContinue(x) = IF Len(q) <= 1 \/ x.ctx["m"].singalStop THEN TaskFinish(y, "m") ELSE RunQueue(y)
  BY DEF CheckInstallContinue, Dispatched, Queue, Master
<1> HIDE DEF y
<1>3. RefsBut(y, "m", 0)
  <2>1. \A e \in Ends : y.ctx[e].refCount = x.ctx[e].refCount
    BY <1>1
  <2>2. y.req = x.req /\ y.forkFailed = x.forkFailed /\ 0 \in Int
    BY <1>1 DEF SameDisk
  <2> QED BY <1>0, <2>1, <2>2, XferRefsSame, XferEnds
<1>4. CASE Len(q) <= 1 \/ x.ctx["m"].singalStop
  <2>1. Held(y)
    BY <1>1, XferHeldIdle DEF Free
  <2>2. Good(y) /\ y.ctx["m"].task # "none"
    BY <1>1, <1>3, <2>1, XferGood, XferEnds DEF Master
  <2> QED BY <1>2, <1>4, <2>2, XferGiveUp, XferEnds
<1>5. CASE ~(Len(q) <= 1 \/ x.ctx["m"].singalStop)
  <2>1. QueueShape(Queue(x))
    BY <1>0, XferParts
  <2>2. q # <<>> /\ Len(q) > 1 /\ Len(q) \in Nat
    BY <1>5, <2>1, XferQueue
  <2>3. Queue(y) # <<>>
    <3>1. Len(SubSeq(q, 1, Len(q) - 1)) = Len(q) - 1
      BY <2>1, <2>2, XferQueue
    <3>2. Queue(y) = SubSeq(q, 1, Len(q) - 1)
      BY <1>1
    <3> HIDE DEF q
    <3>3. Len(Queue(y)) > 0
      BY <2>2, <3>1, <3>2
    <3> QED BY <3>3
  <2>4. SlaveClosed(y)
    BY <1>0, <1>1, XferEnds DEF SlaveClosed
  <2>5. Master(y).task # "deleted" /\ ~Master(y).isFdOpen /\ ~y.forkFailed /\ Cur(y) \notin y.made /\ ~Master(y).lastErrno
    BY <1>0, <1>1, <2>2, XferEnds DEF Master, SameDisk
  <2>6. Working(RunQueue(y)) /\ Held(RunQueue(y)) /\ RefsBut(RunQueue(y), "m", 0)
    BY <1>0, <1>1, <1>3, <2>3, <2>4, <2>5, XferRunQueue, XferEnds
  <2> QED BY <1>2, <1>5, <2>6, XferGood, XferEnds
<1> QED BY <1>4, <1>5

\* While blocks are on their way the only token there can be is a read.
LEMMA XferBusy ==
  ASSUME NEW x, Working(x), ~NoData(x)
  PROVE  /\ NoMessage(x) /\ ~x.forkFailed /\ (\A r \in x.req : r.op \in {"read", "write"})
         /\ InQueue(x) /\ SlaveReady(x) /\ MasterReady(x)
<1>0. /\ RequestFacts(x) /\ MessageFacts(x) /\ ErrorsKnown(x) /\ TransferShape(x) /\ Blocks(x)
  BY DEF Working, Core
<1>1. NoMessage(x)
  <2> SUFFICES ASSUME NEW a \in Ends, NEW i \in 1 .. Len(x.net[a]), TokenAt(x, a, i) PROVE NoData(x)
    BY DEF NoMessage
  <2>1. CASE a = "s"
    <3>1. SlaveMessage(x, x.net["s"][i]) /\ Control(x, "s", x.net["s"][i])
      BY <1>0, <2>1 DEF MessageFacts, TokenAt
    <3> QED BY <3>1 DEF SlaveMessage, Control, OpenFacts, PackageFacts
  <2>2. CASE a = "m"
    <3>1. MasterMessage(x, x.net["m"][i]) /\ Control(x, "m", x.net["m"][i])
      BY <1>0, <2>2 DEF MessageFacts, TokenAt
    <3> QED BY <3>1 DEF MasterMessage, Control, OpenFacts, PackageFacts
  <2> QED BY <2>1, <2>2, XferEnds
<1>2. \A r \in x.req : r.op \in {"read", "write"}
  <2> SUFFICES ASSUME NEW r \in x.req, r.op \notin {"read", "write"} PROVE NoData(x)
    OBVIOUS
  <2>1. r.op \in {"open", "install"}
    BY <1>0 DEF TransferShape, ReqShape
  <2> QED BY <1>0, <2>1 DEF RequestFacts, OpenFacts, PackageFacts
<1>3. ~x.forkFailed
  BY <1>0 DEF ErrorsKnown
<1>4. InQueue(x) /\ SlaveReady(x) /\ MasterReady(x)
  BY <1>0 DEF Blocks
<1> QED BY <1>1, <1>2, <1>3, <1>4

\* A block that has arrived is given to the pool to be written.
LEMMA XferAddWrite ==
  ASSUME NEW x, Working(x), NoMessage(x), ~x.forkFailed, \A p \in x.req : p.op \in {"read", "write"},
         NEW y, TransferShape(y), y.net = x.net, SameDisk(x, y),
         NEW r, r.op = "write", y.req = x.req \cup {r}, r.end = "s", Slave(x).task = "run", ~Slave(x).ioFinish,
         \A e \in Ends : Kept(x.ctx[e], y.ctx[e]) /\ y.ctx[e].task = x.ctx[e].task,
         InQueue(x), SlaveReady(x), MasterReady(x), r.file = Cur(x),
         r.index = <<r.index[1], r.index[2], r.index[3]>>, BlockFits(x, r.index[1], r.index[2], r.index[3]),
         \A i \in 1 .. Len(x.net["s"]) : IsData(x, i) => x.net["s"][i].arg.index # r.index[1],
         \A p \in x.req : p.op = "write" => p.index[1] # r.index[1]
  PROVE  Working(y) /\ r \notin x.req
<1> USE DEF Working, Core
<1>0. r \notin x.req
  OBVIOUS
<1>1. /\ Cur(y) = Cur(x) /\ Queue(y) = Queue(x)
      /\ (InQueue(y) <=> InQueue(x)) /\ (MasterReady(y) <=> MasterReady(x))
      /\ (SlaveReady(y) <=> SlaveReady(x)) /\ (Begun(y) <=> Begun(x))
      /\ (\A f : Arrived(y, f) = Arrived(x, f)) /\ (\A f : Done(y, f) <=> Done(x, f))
      /\ (AllDone(y) <=> AllDone(x))
      /\ Kept(Master(x), Master(y)) /\ Kept(Slave(x), Slave(y))
      /\ Master(y).task = Master(x).task /\ Slave(y).task = Slave(x).task
  <2>1. Kept(Master(x), Master(y)) /\ Kept(Slave(x), Slave(y))
        /\ Master(y).task = Master(x).task /\ Slave(y).task = Slave(x).task
    BY DEF Master, Slave, Ends
  <2>2. Cur(y) = Cur(x) /\ Queue(y) = Queue(x) /\ (InQueue(y) <=> InQueue(x))
    BY <2>1 DEF Kept, Cur, Queue, InQueue
  <2>3. (\A f : Arrived(y, f) = Arrived(x, f)) /\ (\A f : Done(y, f) <=> Done(x, f)) /\ (AllDone(y) <=> AllDone(x))
    BY DEF SameDisk, Arrived, Done, AllDone
  <2> QED BY <2>1, <2>2, <2>3 DEF Kept, SameDisk, MasterReady, SlaveReady, Begun
<1>2. \A e \in Ends : (Closing(x, e) <=> Closing(y, e)) /\ \A i : (Live(y, e, i) <=> Live(x, e, i))
  BY DEF Closing, Live
<1>3. \A e \in Ends : \A i \in 1 .. Len(y.net[e]) : ~TokenAt(y, e, i)
  BY <1>1, <1>2 DEF NoMessage, TokenAt, Control
<1>4. NoMessage(y) /\ (TokenIn(x) <=> TokenIn(y)) /\ (Free(x) <=> Free(y))
  BY <1>3 DEF NoMessage, TokenIn, Free
<1>5. WokenFirst(y)
  BY <1>1 DEF WokenFirst
<1>6. OneFile(y)
  <2> SUFFICES ASSUME NEW e \in Ends
               PROVE  /\ y.fds[e] = IF y.ctx[e].isFdOpen THEN {y.ctx[e].openFd} ELSE {}
                      /\ y.ctx[e].ioFinish => ~y.ctx[e].isFdOpen
                      /\ y.ctx[e].task = "deleted" => ~y.ctx[e].isFdOpen /\ \A p \in y.req : p.end # e
    BY DEF OneFile
  <2>1. /\ y.ctx[e].isFdOpen = x.ctx[e].isFdOpen /\ y.ctx[e].openFd = x.ctx[e].openFd
        /\ y.ctx[e].ioFinish = x.ctx[e].ioFinish /\ y.ctx[e].task = x.ctx[e].task
    BY DEF Kept
  <2>2. x.ctx[e].task = "deleted" => r.end # e
    BY DEF Slave
  <2>3. /\ x.fds[e] = IF x.ctx[e].isFdOpen THEN {x.ctx[e].openFd} ELSE {}
        /\ x.ctx[e].ioFinish => ~x.ctx[e].isFdOpen
        /\ x.ctx[e].task = "deleted" => ~x.ctx[e].isFdOpen /\ \A p \in x.req : p.end # e
    BY DEF OneFile
  <2> QED BY <2>1, <2>2, <2>3 DEF SameDisk
<1>7. OneToken(y)
  BY <1>3, <1>4 DEF OneToken, TokenIn
<1>8. RequestFacts(y)
  <2> SUFFICES ASSUME NEW p \in y.req
               PROVE  /\ p.op # "open" /\ p.op # "install"
                      /\ p.op = "read" => /\ ReadFacts(y) /\ p.file = Cur(y) /\ p.index = Master(y).indexIO
                                          /\ p.index < xcfg.sizes[Cur(y)] \/ (xcfg.sizes[Cur(y)] = 0 /\ p.index = 0)
    BY DEF RequestFacts
  <2>1. p.op # "open" /\ p.op # "install"
    OBVIOUS
  <2>2. ASSUME p.op = "read" PROVE p \in x.req /\ ReadFacts(y)
    BY <1>1, <2>2 DEF RequestFacts, ReadFacts, Kept
  <2> QED BY <1>1, <2>1, <2>2 DEF RequestFacts, Kept
<1>9. MessageFacts(y)
  BY <1>3 DEF MessageFacts, Ends
<1>10. Blocks(y)
  <2>1. ASSUME NEW j, NEW k, NEW p, BlockFits(x, j, k, p) PROVE BlockFits(y, j, k, p)
    <3>1. k = 0 => \A q \in y.req : q.op # "read"
      BY <2>1 DEF BlockFits
    <3> QED BY <1>1, <2>1, <3>1 DEF BlockFits, Kept
  <2>2. \A i : IsData(x, i) <=> IsData(y, i)
    BY DEF IsData
  <2>3. \A i \in 1 .. Len(y.net["s"]) : IsData(y, i) =>
          BlockFits(y, y.net["s"][i].arg.index, y.net["s"][i].arg.n, RecvIOPayload(y.net["s"][i].arg.payload))
    BY <2>1, <2>2 DEF Blocks
  <2>4. \A i, j \in 1 .. Len(y.net["s"]) :
          IsData(y, i) /\ IsData(y, j) /\ y.net["s"][i].arg.index = y.net["s"][j].arg.index => i = j
    BY <2>2 DEF Blocks
  <2>5. \A p \in y.req : p.op = "write" =>
          /\ p.file = Cur(y) /\ p.index = <<p.index[1], p.index[2], p.index[3]>>
          /\ BlockFits(y, p.index[1], p.index[2], p.index[3])
          /\ \A i \in 1 .. Len(y.net["s"]) : IsData(y, i) => y.net["s"][i].arg.index # p.index[1]
    <3> SUFFICES ASSUME NEW p \in y.req, p.op = "write"
                 PROVE  /\ p.file = Cur(y) /\ p.index = <<p.index[1], p.index[2], p.index[3]>>
                        /\ BlockFits(y, p.index[1], p.index[2], p.index[3])
                        /\ \A i \in 1 .. Len(y.net["s"]) : IsData(y, i) => y.net["s"][i].arg.index # p.index[1]
      OBVIOUS
    <3>1. CASE p \in x.req
      <4>1. BlockFits(x, p.index[1], p.index[2], p.index[3])
        BY <3>1 DEF Blocks
      <4>2. BlockFits(y, p.index[1], p.index[2], p.index[3])
        BY <2>1, <4>1
      <4> QED BY <1>1, <2>2, <3>1, <4>2 DEF Blocks
    <3>2. CASE p = r
      <4>1. BlockFits(y, r.index[1], r.index[2], r.index[3])
        BY <2>1
      <4> QED BY <1>1, <2>2, <3>2, <4>1
    <3> QED BY <3>1, <3>2
  <2>6. \A q, p \in y.req : q.op = "write" /\ p.op = "write" /\ q.index[1] = p.index[1] => q = p
    BY DEF Blocks
  <2> QED BY <1>1, <2>3, <2>4, <2>5, <2>6 DEF Blocks
<1>11. DiskFits(y)
  BY <1>1 DEF DiskFits, Kept, SameDisk
<1>12. ErrorsKnown(y)
  <2>1. ASSUME Master(x).lastErrno PROVE Master(x).indexIO < xcfg.sizes[Cur(x)]
    <3> SUFFICES ASSUME xcfg.sizes[Cur(x)] = 0 PROVE FALSE
      BY <2>1 DEF ErrorsKnown
    <3> QED BY <2>1 DEF BlockFits
  <2>2. /\ Master(y).lastErrno => /\ Free(y) /\ InQueue(y) /\ MasterReady(y)
                                  /\ Master(y).indexIO < xcfg.sizes[Cur(y)]
        /\ Master(y).closeNotify => Master(y).lastErrno
    BY <1>1, <1>4, <2>1 DEF ErrorsKnown, Kept
  <2>3. /\ ~Slave(y).closeNotify /\ ~y.forkFailed
        /\ Slave(y).lastErrno /\ ~isApp /\ ~Slave(y).singalStop => Closing(y, "m")
    BY <1>1, <1>2 DEF ErrorsKnown, Kept, SameDisk, Ends
  <2> QED BY <2>2, <2>3 DEF ErrorsKnown
<1>13. FinishMeans(y)
  BY <1>1, <1>2 DEF FinishMeans, Kept, SameDisk, Ends
<1> QED BY <1>0, <1>1, <1>5, <1>6, <1>7, <1>8, <1>9, <1>10, <1>11, <1>12, <1>13

\* CommandDispatch, CMD_FILE_DATA and CMD_APP_DATA.
LEMMA XferDataStep ==
  ASSUME NEW x, Good(x), x.net["s"] # <<>>, x.net["s"][1].cmd = "DATA", Slave(x).task = "run"
  PROVE  Good(FileData([x EXCEPT !.net["s"] = Tail(@)], x.net["s"][1].arg))
<1> DEFINE y == [x EXCEPT !.net["s"] = Tail(@)]
           d == x.net["s"][1].arg
           p == RecvIOPayload(d.payload)
           k == <<d.index, d.n, p>>
           f == y.ctx["s"].openFd
           r == [end |-> "s", op |-> "write", file |-> f, index |-> k]
           z == Request(y, "s", "write", f, k)
<1> SUFFICES Good(FileData(y, d))
  OBVIOUS
<1>0. Working(x) /\ Held(x) /\ TransferShape(x)
  BY XferGoodParts
<1>1. Good(y) /\ Taken(x, "s", y) /\ y.ctx = x.ctx /\ 1 \in 1 .. Len(x.net["s"])
  BY XferPopped, XferEnds
<1>2. ~NoData(x) /\ IsData(x, 1)
  BY <1>1 DEF NoData, IsData
<1>3. /\ NoMessage(x) /\ ~x.forkFailed /\ (\A q \in x.req : q.op \in {"read", "write"})
      /\ InQueue(x) /\ SlaveReady(x) /\ MasterReady(x)
  BY <1>0, <1>2, XferBusy
<1>4. FileData(y, d) = IF y.ctx["s"].ioFinish THEN TaskFinish(CloseCtxFd(y, "s"), "s") ELSE z
  BY DEF FileData, Dispatched, SimpleFileIO
<1>5. /\ BlockFits(x, d.index, d.n, p)
      /\ \A j \in 1 .. Len(x.net["s"]) : IsData(x, j) /\ x.net["s"][j].arg.index = d.index => j = 1
      /\ \A q \in x.req : q.op = "write" => q.index[1] # d.index
  <2>1. Blocks(x)
    BY <1>0 DEF Working, Core
  <2> QED BY <1>1, <1>2, <2>1 DEF Blocks
<1> HIDE DEF y, d, p
<1>6. /\ y.req = x.req /\ SameDisk(x, y) /\ y.net = [x.net EXCEPT !["s"] = Tail(@)] /\ TransferShape(y)
      /\ Working(y) /\ Held(y) /\ RefsBut(y, "s", 0)
  BY <1>1, XferGoodParts, XferEnds DEF Taken
<1>7. /\ Len(y.net["s"]) = Len(x.net["s"]) - 1 /\ y.net["m"] = x.net["m"] /\ Len(x.net["s"]) \in Nat
      /\ \A i \in 1 .. Len(y.net["s"]) : y.net["s"][i] = x.net["s"][i + 1] /\ i + 1 \in 1 .. Len(x.net["s"]) /\ i + 1 # 1
  <2>1. Len(x.net["s"]) \in Nat /\ x.net["s"] = [i \in 1 .. Len(x.net["s"]) |-> x.net["s"][i]] /\ DOMAIN x.net = Ends
    BY <1>0, XferEnds DEF TransferShape, NetShape
  <2>2. /\ Len(Tail(x.net["s"])) = Len(x.net["s"]) - 1
        /\ \A i \in 1 .. (Len(x.net["s"]) - 1) : Tail(x.net["s"])[i] = x.net["s"][i + 1]
    BY <2>1, XferSeq
  <2>3. y.net["s"] = Tail(x.net["s"]) /\ y.net["m"] = x.net["m"]
    BY <1>6, <2>1, XferEnds
  <2> QED BY <2>1, <2>2, <2>3
<1>8. CASE y.ctx["s"].ioFinish
  <2> DEFINE c == CloseCtxFd(y, "s")
  <2>1. Calm(y, c) /\ CtxRest(y.ctx["s"], c.ctx["s"]) /\ Held(c) /\ RefsBut(c, "s", 0)
    BY <1>6, XferCloseCtxFd, XferEnds
  <2> HIDE DEF c
  <2>2. Good(c) /\ c.ctx["s"].task # "none"
    BY <1>1, <2>1, XferGood, XferEnds DEF Calm, CtxRest, Slave
  <2> QED BY <1>4, <1>8, <2>2, XferGiveUp, XferEnds DEF c
<1>9. CASE ~y.ctx["s"].ioFinish
  <2>1. /\ Cur(y) = Cur(x) /\ Queue(y) = Queue(x) /\ InQueue(y) /\ SlaveReady(y) /\ MasterReady(y) /\ f = Cur(y)
        /\ Slave(y).task = "run" /\ ~Slave(y).ioFinish /\ Master(y) = Master(x) /\ ~y.forkFailed
        /\ Arrived(y, Cur(y)) = Arrived(x, Cur(x))
    BY <1>1, <1>3, <1>6, <1>9 DEF Cur, Queue, InQueue, SlaveReady, MasterReady, Slave, Master, SameDisk, Arrived
  <2>2. NoMessage(y)
    <3> SUFFICES ASSUME NEW a \in Ends, NEW i \in 1 .. Len(y.net[a]), TokenAt(y, a, i) PROVE FALSE
      BY DEF NoMessage
    <3>1. CASE a = "m"
      <4>1. TokenAt(x, "m", i)
        BY <1>1, <1>7, <2>1, <3>1 DEF TokenAt, Live, Control
      <4> QED BY <1>3, <1>7, <3>1, <4>1, XferEnds DEF NoMessage
    <3>2. CASE a = "s"
      <4>1. y.net["s"][i] = x.net["s"][i + 1] /\ i + 1 \in 1 .. Len(x.net["s"]) /\ i \in Nat
        BY <1>7, <3>2
      <4>2. Control(x, "s", x.net["s"][i + 1])
        BY <2>1, <3>2, <4>1 DEF TokenAt, Control
      <4>3. Live(x, "s", i + 1)
        <5>1. \A j \in 1 .. (i - 1) : y.net["s"][j].cmd # "CHANNEL_CLOSE"
          BY <3>2 DEF TokenAt, Live
        <5>2. ASSUME NEW j \in 1 .. (i + 1 - 1) PROVE x.net["s"][j].cmd # "CHANNEL_CLOSE"
          <6>1. CASE j = 1
            BY <6>1
          <6>2. CASE j # 1
            <7>1. j - 1 \in 1 .. (i - 1) /\ j - 1 \in 1 .. Len(y.net["s"]) /\ (j - 1) + 1 = j
              BY <1>7, <3>2, <6>2
            <7>2. y.net["s"][j - 1] = x.net["s"][j]
              BY <1>7, <7>1
            <7> QED BY <5>1, <7>1, <7>2
          <6> QED BY <6>1, <6>2
        <5> QED BY <5>2 DEF Live, Slave
      <4> QED BY <1>3, <4>1, <4>2, <4>3, XferEnds DEF NoMessage, TokenAt
    <3> QED BY <3>1, <3>2, XferEnds
  <2>3. ReqShape(r) /\ r.op = "write" /\ r.end = "s" /\ r.file = f /\ r.index = k
    BY XferEnds DEF ReqShape
  <2>4. /\ k[1] = d.index /\ k[2] = d.n /\ k[3] = p /\ k = <<k[1], k[2], k[3]>>
    OBVIOUS
  <2>5. BlockFits(y, k[1], k[2], k[3])
    BY <1>5, <1>6, <2>1, <2>4 DEF BlockFits
  <2>6. \A i \in 1 .. Len(y.net["s"]) : IsData(y, i) => y.net["s"][i].arg.index # k[1]
    <3> SUFFICES ASSUME NEW i \in 1 .. Len(y.net["s"]), IsData(y, i), y.net["s"][i].arg.index = k[1] PROVE FALSE
      OBVIOUS
    <3>1. y.net["s"][i] = x.net["s"][i + 1] /\ i + 1 \in 1 .. Len(x.net["s"]) /\ i + 1 # 1
      BY <1>7
    <3>2. IsData(x, i + 1)
      BY <3>1 DEF IsData
    <3> QED BY <1>5, <2>4, <3>1, <3>2
  <2>7. \A q \in y.req : q.op = "write" => q.index[1] # k[1]
    BY <1>5, <1>6, <2>4
  <2> HIDE DEF r, k, f
  <2>8. /\ TransferShape(z) /\ z.net = y.net /\ SameDisk(y, z) /\ z.req = y.req \cup {r}
        /\ (\A e \in Ends : Kept(y.ctx[e], z.ctx[e]) /\ z.ctx[e].task = y.ctx[e].task)
        /\ (r \notin y.req => \A b \in Ends, j \in Int : RefsBut(y, b, j) => RefsBut(z, b, j))
    <3>1. /\ TransferShape(z) /\ z.net = y.net /\ SameDisk(y, z) /\ z.req = y.req \cup {r}
          /\ (\A e \in Ends : Kept(y.ctx[e], z.ctx[e]) /\ z.ctx[e].task = y.ctx[e].task)
      BY <1>6, <2>3, XferRequest, XferEnds DEF r
    <3>2. r \notin y.req => \A b \in Ends, j \in Int : RefsBut(y, b, j) => RefsBut(z, b, j)
      BY <1>6, <2>3, XferRequest, XferEnds DEF r
    <3> QED BY <3>1, <3>2
  <2> HIDE DEF z
  <2>9. Working(z) /\ r \notin y.req
    <3>1. \A q \in y.req : q.op \in {"read", "write"}
      BY <1>3, <1>6
    <3>2. /\ r.index = <<r.index[1], r.index[2], r.index[3]>> /\ BlockFits(y, r.index[1], r.index[2], r.index[3])
          /\ r.file = Cur(y)
      BY <2>1, <2>3, <2>4, <2>5
    <3>3. \A i \in 1 .. Len(y.net["s"]) : IsData(y, i) => y.net["s"][i].arg.index # r.index[1]
      BY <2>3, <2>6
    <3>4. \A q \in y.req : q.op = "write" => q.index[1] # r.index[1]
      BY <2>3, <2>7
    <3>5. \A e \in Ends : Kept(y.ctx[e], z.ctx[e]) /\ z.ctx[e].task = y.ctx[e].task
      BY <2>8
    <3> QED BY <1>6, <2>1, <2>2, <2>3, <2>8, <3>1, <3>2, <3>3, <3>4, <3>5, XferAddWrite
  <2>10. Held(z)
    <3>1. Master(z).isFdOpen => Master(x).isFdOpen
      BY <1>1, <2>8, XferEnds DEF Kept, Master
    <3>2. Master(x).isFdOpen => \E q \in x.req : q.op = "read"
      BY <1>0, <1>2 DEF Held
    <3>3. \A q \in z.req : q.op # "open"
      BY <1>3, <1>6, <2>3, <2>8
    <3> QED BY <1>6, <2>8, <3>1, <3>2, <3>3 DEF Held
  <2>11. RefsBut(z, "s", 0)
    BY <1>6, <2>8, <2>9, XferEnds
  <2>12. Good(z)
    BY <2>9, <2>10, <2>11, XferGood, XferEnds
  <2> QED BY <1>4, <1>9, <2>12
<1> QED BY <1>8, <1>9

\* CommandDispatch keeps everything.
LEMMA XferCommandStep ==
  ASSUME PlanFits, Good(xfer), NEW a \in Ends, CommandDispatch(a)
  PROVE  Good(xfer')
<1> DEFINE x == xfer
           c == Head(x.net[a])
           y == [x EXCEPT !.net[a] = Tail(@)]
<1>0. Working(x) /\ Held(x) /\ TransferShape(x) /\ x.net[a] # <<>> /\ FinishMeans(x)
  BY XferGoodParts DEF CommandDispatch, Working, Core
<1>1. c = x.net[a][1] /\ c.cmd \in Commands(a) /\ 1 \in 1 .. Len(x.net[a]) /\ y.ctx = x.ctx
  BY <1>0, XferTail
<1>2. CASE c.cmd = "CHANNEL_CLOSE"
  <2>1. xfer' = ChannelClose(y, a, c.arg)
    BY <1>2 DEF CommandDispatch
  <2> QED BY <1>0, <1>1, <1>2, <2>1, XferCloseStep
<1>3. CASE c.cmd = "WAKEUP_SLAVETASK"
  <2>1. xfer' = [y EXCEPT !.ctx[a].task = "run"]
    BY <1>3 DEF CommandDispatch
  <2> QED BY <1>0, <1>1, <1>3, <2>1, XferWakeStep, Zenon
<1>4. CASE c.cmd \notin {"CHANNEL_CLOSE", "WAKEUP_SLAVETASK"}
  <2>1. /\ Good(y) /\ Taken(x, a, y) /\ (NoData(x) => NoData(y))
        /\ (\A e \in Ends : Closing(x, e) => Closing(y, e))
        /\ x.ctx[a].task = "run" /\ Control(x, a, c) =>
             /\ Free(y) /\ ~y.forkFailed /\ ~Master(y).lastErrno
             /\ IF a = "s" THEN SlaveMessage(y, c) ELSE MasterMessage(y, c)
    BY <1>0, <1>1, <1>4, XferPopped
  <2>2. CASE x.ctx[a].task # "run"
    <3>1. xfer' = y
      BY <1>1, <1>4, <2>2 DEF CommandDispatch
    <3> QED BY <2>1, <3>1
  <2>3. CASE x.ctx[a].task = "run"
    <3>1. /\ y.ctx = x.ctx /\ Cur(y) = Cur(x) /\ Queue(y) = Queue(x) /\ Master(y) = Master(x) /\ Slave(y) = Slave(x)
          /\ y.ctx[a].task = "run"
      BY <1>1, <2>3 DEF Cur, Queue, Master, Slave
    <3>2. SlaveMessage(y, c) => (~Slave(y).isFdOpen /\ SlaveClosed(y))
      BY DEF SlaveMessage, SlaveClosed
    <3>3. CASE c.cmd = "CHECK"
      <4>1. a = "s"
        BY <1>1, <3>3 DEF Commands, ToMasterCommands
      <4>2. Free(y) /\ ~y.forkFailed /\ ~Master(y).lastErrno /\ SlaveMessage(y, c)
        BY <2>1, <2>3, <3>3, <4>1 DEF Control
      <4>3. xfer' \in SlaveCheck(y, c.arg) \cup AppCheck(y, c.arg)
        BY <1>1, <2>3, <3>3 DEF CommandDispatch
      <4> HIDE DEF y, c
      <4>4. OpenFacts(y, c.arg) /\ Begun(y) /\ ~Slave(y).isFdOpen /\ Slave(y).task = "run"
        BY <3>1, <3>3, <4>1, <4>2 DEF SlaveMessage, Slave
      <4> QED BY <2>1, <4>2, <4>3, <4>4, XferCheckStep
    <3>4. CASE c.cmd \in {"FILE_MODE", "DIR_MODE"}
      <4>1. xfer' = FileModeSync(y, a, c.arg)
        BY <1>1, <2>3, <3>4 DEF CommandDispatch
      <4>2. a = "m" => c.cmd = "FILE_MODE"
        BY <1>1, <3>4 DEF Commands, ToMasterCommands
      <4>3. Control(x, a, c)
        BY <3>4, <4>2, XferEnds DEF Control
      <4>4. /\ Free(y) /\ ~y.forkFailed /\ ~Master(y).lastErrno
            /\ IF a = "s" THEN SlaveMessage(y, c) ELSE MasterMessage(y, c)
        BY <2>1, <2>3, <4>3
      <4> HIDE DEF y, c
      <4>5. OpenFacts(y, c.arg) /\ Begun(y) /\ SlaveClosed(y) /\ (Slave(y).task # "none" \/ a = "m")
        <5>1. CASE a = "s"
          BY <3>1, <3>2, <3>4, <4>4, <5>1 DEF SlaveMessage, Slave
        <5>2. CASE a = "m"
          BY <4>2, <4>4, <5>2 DEF MasterMessage
        <5> QED BY <5>1, <5>2, XferEnds
      <4> QED BY <2>1, <3>1, <4>1, <4>4, <4>5, XferModeStep
    <3>5. CASE c.cmd = "BEGIN"
      <4>1. xfer' = FileBegin(y, c.arg)
        BY <1>1, <2>3, <3>5 DEF CommandDispatch
      <4>2. a = "m"
        BY <1>1, <3>5, XferEnds DEF Commands, ToSlaveCommands
      <4>3. Free(y) /\ ~y.forkFailed /\ ~Master(y).lastErrno /\ MasterMessage(y, c)
        BY <2>1, <2>3, <3>5, <4>2 DEF Control
      <4> HIDE DEF y, c
      <4>4. c.arg = Cur(y) /\ ReadFacts(y) /\ NoData(y) /\ Begun(y) /\ Master(y).task = "run"
        BY <3>1, <3>5, <4>2, <4>3 DEF MasterMessage, Master
      <4> QED BY <2>1, <4>1, <4>3, <4>4, XferBeginStep
    <3>6. CASE c.cmd = "DATA"
      <4>1. a = "s"
        BY <1>1, <3>6, XferEnds DEF Commands, ToMasterCommands
      <4>2. xfer' = FileData(y, c.arg)
        BY <1>1, <2>3, <3>6 DEF CommandDispatch
      <4> QED BY <1>0, <1>1, <2>3, <3>6, <4>1, <4>2, XferDataStep DEF Slave
    <3>7. CASE c.cmd = "FINISH"
      <4>1. xfer' = FileFinish(y, a, c.arg)
        BY <1>1, <2>3, <3>7 DEF CommandDispatch
      <4>2. /\ c.arg \in {0, 1} /\ ~isApp
            /\ a = "m" => /\ c.arg = 0 => Master(x).lastErrno
                          /\ c.arg = 1 /\ ~xcfg.shrinks => Done(x, Cur(x))
            /\ a = "s" => (c.arg = 0 => AllDone(x)) /\ (c.arg = 1 => Master(x).lastErrno)
        <5>1. Live(x, a, 1)
          BY <2>3 DEF Live
        <5> QED BY <1>0, <1>1, <3>7, <5>1, XferEnds DEF FinishMeans
      <4>3. (\A f : Done(x, f) => Done(y, f)) /\ (AllDone(x) => AllDone(y))
        BY <2>1 DEF Taken, SameDisk, Done, Arrived, AllDone
      <4>4. a = "m" /\ c.arg = 1 /\ Queue(y) # <<>> =>
              /\ Free(y) /\ NoData(y) /\ InQueue(y) /\ ~Master(y).lastErrno /\ ~y.forkFailed /\ SlaveClosed(y)
        <5> SUFFICES ASSUME a = "m", c.arg = 1, Queue(y) # <<>>
                     PROVE  /\ Free(y) /\ NoData(y) /\ InQueue(y) /\ ~Master(y).lastErrno /\ ~y.forkFailed
                            /\ SlaveClosed(y)
          OBVIOUS
        <5>1. Control(x, "m", c)
          BY <3>1, <3>7 DEF Control
        <5>2. Free(y) /\ ~y.forkFailed /\ ~Master(y).lastErrno /\ MasterMessage(y, c)
          BY <2>1, <2>3, <5>1
        <5> HIDE DEF y, c
        <5> QED BY <3>7, <5>2 DEF MasterMessage
      <4> HIDE DEF y, c
      <4>5. /\ a = "m" => /\ c.arg = 0 => Master(y).lastErrno
                          /\ c.arg = 1 /\ ~xcfg.shrinks => Done(y, Cur(y))
            /\ a = "s" => (c.arg = 0 => AllDone(y)) /\ (c.arg = 1 => Master(y).lastErrno)
        BY <3>1, <4>2, <4>3
      <4> QED BY <2>1, <3>1, <4>1, <4>2, <4>4, <4>5, XferFinishStep
    <3>8. CASE c.cmd = "APP_UNINSTALL"
      <4>1. xfer' \in PackageShell(y)
        BY <1>1, <2>3, <3>8 DEF CommandDispatch
      <4>2. a = "s"
        BY <1>1, <3>8, XferEnds DEF Commands, ToMasterCommands
      <4>3. Free(y) /\ ~y.forkFailed /\ SlaveMessage(y, c)
        BY <2>1, <2>3, <3>8, <4>2 DEF Control
      <4> HIDE DEF y, c
      <4>4. PackageFacts(y) /\ Slave(y).task \in {"run", "stopped"} /\ Working(y) /\ RefsBut(y, "s", 0)
        BY <2>1, <3>1, <3>8, <4>2, <4>3, XferGoodParts DEF SlaveMessage, Slave
      <4>5. Working(xfer') /\ Held(xfer') /\ RefsBut(xfer', "s", 0)
        BY <4>1, <4>3, <4>4, XferPackage, XferEnds
      <4> QED BY <4>5, XferGood, XferEnds
    <3>9. CASE c.cmd = "APP_FINISH"
      <4>1. xfer' = CheckInstallContinue(y)
        BY <1>1, <2>3, <3>9 DEF CommandDispatch
      <4>2. a = "m"
        BY <1>1, <3>9, XferEnds DEF Commands, ToSlaveCommands
      <4>3. Free(y) /\ ~y.forkFailed /\ MasterMessage(y, c)
        BY <2>1, <2>3, <3>9, <4>2 DEF Control
      <4> HIDE DEF y, c
      <4>4. PackageFacts(y) /\ Master(y).task = "run"
        BY <3>1, <3>9, <4>2, <4>3 DEF MasterMessage, Master
      <4> QED BY <2>1, <4>1, <4>3, <4>4, XferContinueStep
    <3> QED BY <1>1, <1>4, <3>3, <3>4, <3>5, <3>6, <3>7, <3>8, <3>9 DEF Commands, ToSlaveCommands, ToMasterCommands
  <2> QED BY <2>2, <2>3
<1> QED BY <1>2, <1>3, <1>4

\* The transfer before its first request: the master has its queue, and the
\* slave's task is about to be made.
Started(y) ==
  /\ TransferShape(y) /\ y.req = {} /\ y.made = {} /\ y.data = {} /\ y.told = {}
  /\ y.summary = "none" /\ ~y.forkFailed /\ ~y.emptyFailed /\ y.net["m"] = <<>>
  /\ Len(y.net["s"]) = 1 /\ y.net["s"][1].cmd = "WAKEUP_SLAVETASK" /\ y.net["s"] # <<>>
  /\ Master(y).task = "run" /\ Slave(y).task = "none" /\ Len(Queue(y)) = Len(xcfg.sizes)
  /\ \A a \in Ends : /\ ~y.ctx[a].isFdOpen /\ ~y.ctx[a].ioFinish /\ ~y.ctx[a].lastErrno /\ ~y.ctx[a].closeNotify
                     /\ ~y.ctx[a].singalStop /\ y.ctx[a].refCount = 0 /\ y.fds[a] = {}

\* The invariant holds of it.
LEMMA XferStarted ==
  ASSUME PlanFits, NEW y, Started(y)
  PROVE  Good(y) /\ Free(y) /\ NoData(y)
<1> USE DEF Started
<1>1. /\ Len(y.net["s"]) = 1 /\ y.net["s"][1].cmd = "WAKEUP_SLAVETASK" /\ Len(y.net["m"]) = 0
  OBVIOUS
<1>2. \A a \in Ends : \A i \in 1 .. Len(y.net[a]) : a = "s" /\ i = 1
  <2>1. \A i \in 1 .. Len(y.net["s"]) : i = 1
    BY <1>1
  <2>2. \A i \in 1 .. Len(y.net["m"]) : FALSE
    BY <1>1
  <2> QED BY <2>1, <2>2, XferEnds
<1>3. NoMessage(y) /\ Free(y) /\ NoData(y)
  BY <1>1, <1>2, XferEnds DEF NoMessage, Free, TokenIn, NoData, TokenAt, Control, IsData
<1>4. WokenFirst(y)
  BY <1>1, XferEnds DEF WokenFirst
<1>5. OneFile(y)
  BY DEF OneFile
<1>6. OneToken(y) /\ RequestFacts(y) /\ MessageFacts(y)
  <2>1. OneToken(y)
    BY <1>3 DEF OneToken, NoMessage
  <2>2. MessageFacts(y)
    BY <1>3, XferEnds DEF MessageFacts, NoMessage
  <2>3. RequestFacts(y)
    BY DEF RequestFacts
  <2> QED BY <2>1, <2>2, <2>3
<1>7. Blocks(y)
  BY <1>3, XferNoBlocks
<1>8. DiskFits(y)
  BY DEF DiskFits, SlaveReady
<1>9. ErrorsKnown(y)
  BY XferEnds DEF ErrorsKnown, Master, Slave
<1>10. FinishMeans(y)
  <2>1. ~isApp => \A f \in Files : ~(f > Cur(y))
    BY DEF PlanFits, Files, Cur
  <2> QED BY <1>1, <2>1 DEF FinishMeans
<1>11. Working(y)
  BY <1>4, <1>5, <1>6, <1>7, <1>8, <1>9, <1>10 DEF Working, Core
<1>12. Held(y)
  BY <1>3, XferHeldIdle DEF Free
<1>13. RefsCount(y)
  <2> SUFFICES ASSUME NEW a \in Ends
               PROVE  y.ctx[a].refCount = Cardinality({r \in y.req : r.end = a}) + Leaked(y, a)
    BY DEF RefsCount
  <2>1. {r \in y.req : r.end = a} = {} /\ Leaked(y, a) = 0
    BY DEF Leaked
  <2> QED BY <2>1, FS_EmptySet
<1> QED BY <1>3, <1>11, <1>12, <1>13 DEF Good

\* BeginTransfer keeps everything.
LEMMA XferBeginTransferStep ==
  ASSUME PlanFits, xfer = NoTransfer, BeginTransfer
  PROVE  Good(xfer')
<1> DEFINE n == Len(xcfg.sizes)
           b == [xfer EXCEPT !.ctx["m"].task = "run", !.ctx["m"].dirMode = IF isDir THEN 1 ELSE 0,
                             !.ctx["m"].taskQueue = [i \in 1 .. n |-> i]]
           y == SendToAnother(b, "m", "WAKEUP_SLAVETASK", 0)
<1>1. Started(y)
  <2> DEFINE q == [i \in 1 .. n |-> i]
             w == IF isDir THEN 1 ELSE 0
             d == [NewCtx("none") EXCEPT !.task = "run", !.dirMode = w, !.taskQueue = q]
  <2>0. /\ DOMAIN xfer = DOMAIN NoTransfer /\ xfer.ctx["m"] = NewCtx("none") /\ DOMAIN xfer.ctx = Ends
        /\ xfer.ctx = NoTransfer.ctx /\ xfer.net = [a \in Ends |-> <<>>]
        /\ xfer.req = {} /\ xfer.fds = [a \in Ends |-> {}] /\ xfer.made = {} /\ xfer.data = {} /\ xfer.told = {}
        /\ xfer.summary = "none" /\ xfer.forkFailed = FALSE /\ xfer.emptyFailed = FALSE
    BY DEF NoTransfer, Ends
  <2>1. /\ b.ctx = [xfer.ctx EXCEPT !["m"] = d] /\ DOMAIN b = DOMAIN xfer /\ b.net = xfer.net
        /\ b.req = xfer.req /\ b.fds = xfer.fds /\ b.made = xfer.made /\ b.data = xfer.data /\ b.told = xfer.told
        /\ b.summary = xfer.summary /\ b.forkFailed = xfer.forkFailed /\ b.emptyFailed = xfer.emptyFailed
    <3> DEFINE u == xfer
    <3>1. b = [u EXCEPT !.ctx["m"].task = "run", !.ctx["m"].dirMode = w, !.ctx["m"].taskQueue = q]
      OBVIOUS
    <3>2. /\ DOMAIN u = DOMAIN NoTransfer /\ u.ctx["m"] = NewCtx("none") /\ DOMAIN u.ctx = Ends
      BY <2>0
    <3> HIDE DEF u, b, q, w
    <3>3. DOMAIN u.ctx["m"] = DOMAIN NewCtx("none")
      BY <3>2
    <3>4. b.ctx = [u.ctx EXCEPT !["m"] = [u.ctx["m"] EXCEPT !.task = "run", !.dirMode = w, !.taskQueue = q]]
      BY <3>1, <3>2, <3>3 DEF NoTransfer
    <3>5. /\ DOMAIN b = DOMAIN u /\ b.net = u.net
          /\ b.req = u.req /\ b.fds = u.fds /\ b.made = u.made /\ b.data = u.data /\ b.told = u.told
          /\ b.summary = u.summary /\ b.forkFailed = u.forkFailed /\ b.emptyFailed = u.emptyFailed
      BY <3>1, <3>2 DEF NoTransfer
    <3> QED BY <3>2, <3>4, <3>5 DEF u
  <2>2. /\ d.task = "run" /\ d.isFdOpen = FALSE /\ d.openFd = 0 /\ d.indexIO = 0 /\ d.ioFinish = FALSE
        /\ d.closeNotify = FALSE /\ d.lastErrno = FALSE /\ d.taskQueue = q /\ d.refCount = 0 /\ d.singalStop = FALSE
        /\ DOMAIN d = DOMAIN NewCtx("none")
    BY DEF NewCtx
  <2>3. n \in Nat \ {0} /\ q \in Seq(Nat) /\ Len(q) = n /\ (\A i \in 1 .. n : q[i] = i) /\ q = [i \in 1 .. Len(q) |-> i]
    <3>1. n \in Nat \ {0}
      BY DEF PlanFits
    <3> HIDE DEF n
    <3>2. q \in Seq(Nat) /\ Len(q) = n
      BY <3>1
    <3> QED BY <3>1, <3>2
  <2> HIDE DEF b, d, q, n
  <2>4. /\ b.ctx = [NoTransfer.ctx EXCEPT !["m"] = d] /\ b.net = [a \in Ends |-> <<>>]
        /\ b.req = {} /\ b.fds = [a \in Ends |-> {}] /\ b.made = {} /\ b.data = {} /\ b.told = {}
        /\ b.summary = "none" /\ b.forkFailed = FALSE /\ b.emptyFailed = FALSE /\ DOMAIN b = DOMAIN NoTransfer
    BY <2>0, <2>1
  <2>5. b.ctx["m"] = d /\ b.ctx["s"] = NewCtx("none") /\ DOMAIN b.ctx = Ends
    BY <2>4 DEF NoTransfer, Ends
  <2>6. y = [b EXCEPT !.net["s"] = Append(@, [cmd |-> "WAKEUP_SLAVETASK", arg |-> 0])]
    BY <2>2, <2>5, XferEnds DEF SendToAnother
  <2> DEFINE c == [cmd |-> "WAKEUP_SLAVETASK", arg |-> 0]
  <2>7. c.cmd = "WAKEUP_SLAVETASK"
    OBVIOUS
  <2> HIDE DEF c, y
  <2>8. /\ y.ctx = b.ctx /\ y.net = [b.net EXCEPT !["s"] = Append(@, c)]
        /\ y.req = {} /\ y.fds = [a \in Ends |-> {}] /\ y.made = {} /\ y.data = {} /\ y.told = {}
        /\ y.summary = "none" /\ y.forkFailed = FALSE /\ y.emptyFailed = FALSE /\ DOMAIN y = DOMAIN NoTransfer
    BY <2>4, <2>6 DEF NoTransfer, c
  <2>9. y.net["s"] = <<c>> /\ y.net["m"] = <<>> /\ DOMAIN y.net = Ends
    <3>1. Append(<<>>, c) = <<c>>
      OBVIOUS
    <3> QED BY <2>4, <2>8, <3>1 DEF Ends
  <2>10. CtxShape(y.ctx["m"])
    <3>1. /\ y.ctx["m"].isFdOpen \in BOOLEAN /\ y.ctx["m"].ioFinish \in BOOLEAN /\ y.ctx["m"].lastErrno \in BOOLEAN
          /\ y.ctx["m"].closeNotify \in BOOLEAN /\ y.ctx["m"].singalStop \in BOOLEAN
      BY <2>2, <2>5, <2>8, Zenon
    <3>2. /\ DOMAIN y.ctx["m"] = DOMAIN NewCtx("none") /\ y.ctx["m"].task \in {"none", "run", "stopped", "deleted"}
          /\ y.ctx["m"].indexIO \in Nat /\ y.ctx["m"].refCount \in Int /\ ~y.ctx["m"].singalStop
      BY <2>2, <2>5, <2>8
    <3> QED BY <3>1, <3>2 DEF CtxShape
  <2>11. /\ y.ctx["s"].task = "none" /\ y.ctx["s"].isFdOpen = FALSE /\ y.ctx["s"].indexIO = 0 /\ y.ctx["s"].ioFinish = FALSE
         /\ y.ctx["s"].closeNotify = FALSE /\ y.ctx["s"].lastErrno = FALSE /\ y.ctx["s"].taskQueue = <<>>
         /\ y.ctx["s"].refCount = 0 /\ y.ctx["s"].singalStop = FALSE
         /\ DOMAIN y.ctx["s"] = DOMAIN NewCtx("none")
    BY <2>5, <2>8 DEF NewCtx
  <2>12. CtxShape(y.ctx["s"])
    <3>1. /\ y.ctx["s"].isFdOpen \in BOOLEAN /\ y.ctx["s"].ioFinish \in BOOLEAN /\ y.ctx["s"].lastErrno \in BOOLEAN
          /\ y.ctx["s"].closeNotify \in BOOLEAN /\ y.ctx["s"].singalStop \in BOOLEAN
      BY <2>11, Zenon
    <3>2. /\ y.ctx["s"].task \in {"none", "run", "stopped", "deleted"}
          /\ y.ctx["s"].indexIO \in Nat /\ y.ctx["s"].refCount \in Int /\ ~y.ctx["s"].singalStop
      BY <2>11
    <3> QED BY <2>11, <3>1, <3>2 DEF CtxShape
  <2>13. NetShape(y.net["m"], "m") /\ NetShape(y.net["s"], "s")
    <3>1. Len(<<c>>) = 1 /\ <<c>>[1] = c /\ <<c>> = [i \in 1 .. Len(<<c>>) |-> <<c>>[i]]
      OBVIOUS
    <3>2. NetShape(<<c>>, "s")
      <4>1. \A i \in 1 .. Len(<<c>>) : <<c>>[i] = c
        BY <3>1
      <4>2. c.cmd \in Commands("s")
        BY <2>7 DEF Commands, ToSlaveCommands
      <4> QED BY <3>1, <4>1, <4>2 DEF NetShape
    <3>3. NetShape(<<>>, "m")
      BY DEF NetShape
    <3> QED BY <2>9, <3>2, <3>3
  <2>14. Slave(y).taskQueue = <<>> /\ Queue(y) = q /\ QueueShape(q)
    BY <2>2, <2>3, <2>5, <2>8, <2>11 DEF Slave, Queue, Master, QueueShape, n
  <2>15. TransferShape(y)
    <3>1. DOMAIN y.ctx = Ends /\ DOMAIN y.fds = Ends /\ IsFiniteSet(y.req)
      BY <2>5, <2>8, FS_EmptySet
    <3>2. \A a \in Ends : CtxShape(y.ctx[a]) /\ NetShape(y.net[a], a)
      BY <2>10, <2>12, <2>13, XferEnds
    <3>3. y.forkFailed \in BOOLEAN /\ y.emptyFailed \in BOOLEAN
      BY <2>8, Zenon
    <3> QED BY <2>8, <2>9, <2>14, <3>1, <3>2, <3>3 DEF TransferShape
  <2>16. \A a \in Ends : /\ ~y.ctx[a].isFdOpen /\ ~y.ctx[a].ioFinish /\ ~y.ctx[a].lastErrno /\ ~y.ctx[a].closeNotify
                         /\ ~y.ctx[a].singalStop /\ y.ctx[a].refCount = 0 /\ y.fds[a] = {}
    BY <2>2, <2>5, <2>8, <2>11, XferEnds
  <2>17. Master(y).task = "run" /\ Slave(y).task = "none" /\ Len(Queue(y)) = Len(xcfg.sizes)
    BY <2>2, <2>3, <2>5, <2>8, <2>11, <2>14 DEF Master, Slave, n
  <2>18. Len(y.net["s"]) = 1 /\ y.net["s"][1].cmd = "WAKEUP_SLAVETASK" /\ y.net["s"] # <<>>
    BY <2>7, <2>9
  <2> QED BY <2>8, <2>9, <2>15, <2>16, <2>17, <2>18 DEF Started
<1>2. xfer' = (IF isApp THEN BeginInstall(y) ELSE TransferNext(y)) \/ xfer' = TaskFinish(y, "m")
  BY DEF BeginTransfer
<1> HIDE DEF y
<1>3. /\ Good(y) /\ Free(y) /\ NoData(y) /\ Working(y) /\ RefsBut(y, "m", 0)
  BY <1>1, XferStarted, XferGoodParts, XferEnds
<1>4. /\ ~Master(y).lastErrno /\ ~y.forkFailed /\ Queue(y) # <<>> /\ ~Master(y).isFdOpen /\ Master(y).task # "deleted"
      /\ Cur(y) \notin y.made /\ SlaveClosed(y) /\ ~Slave(y).isFdOpen /\ y.ctx["m"].task # "none"
      /\ (~isApp => ~InQueue(y))
  <2>1. Len(Queue(y)) = Len(xcfg.sizes) /\ Len(xcfg.sizes) \in Nat \ {0}
    BY <1>1 DEF Started, PlanFits
  <2>2. Queue(y) # <<>>
    BY <2>1
  <2>3. ~isApp => ~InQueue(y)
    BY <2>1 DEF InQueue, Cur, Files
  <2> QED BY <1>1, <2>2, <2>3, XferEnds DEF Started, Master, Slave, SlaveClosed
<1>5. CASE xfer' = TaskFinish(y, "m")
  BY <1>3, <1>4, <1>5, XferGiveUp, XferEnds
<1>6. CASE ~isApp /\ xfer' = TransferNext(y)
  <2>1. Working(TransferNext(y)) /\ Held(TransferNext(y)) /\ RefsBut(TransferNext(y), "m", 0)
    <3>1. Working(TransferNext(y)) /\ Held(TransferNext(y))
      BY <1>3, <1>4, <1>6, XferNextFile
    <3>2. \A e \in Ends, k \in Int : RefsBut(y, e, k) => RefsBut(TransferNext(y), e, k)
      BY <1>3, <1>4, <1>6, XferNextFile
    <3> QED BY <1>3, <3>1, <3>2, XferEnds
  <2> QED BY <1>6, <2>1, XferGood, XferEnds
<1>7. CASE isApp /\ xfer' = BeginInstall(y)
  <2>1. CASE xcfg.kind = "uninstall"
    <3>1. xfer' = SendToAnother(y, "m", "APP_UNINSTALL", 1)
      BY <1>7, <2>1 DEF BeginInstall
    <3>2. MaySend(y, OtherEnd("m"), [cmd |-> "APP_UNINSTALL", arg |-> 1])
      <4>1. SlaveMessage(y, [cmd |-> "APP_UNINSTALL", arg |-> 1])
        BY <1>3, <1>4, <1>7 DEF SlaveMessage, PackageFacts
      <4> QED BY <1>3, <1>4, <4>1, XferEnds DEF MaySend, Commands, ToSlaveCommands
    <3> QED BY <1>3, <3>1, <3>2, XferPassOn, XferEnds
  <2>2. CASE xcfg.kind # "uninstall"
    <3>1. xfer' = RunQueue(y)
      BY <1>7, <2>2 DEF BeginInstall
    <3>2. Working(RunQueue(y)) /\ Held(RunQueue(y)) /\ RefsBut(RunQueue(y), "m", 0)
      BY <1>3, <1>4, <1>7, XferRunQueue, XferEnds
    <3> QED BY <3>1, <3>2, XferGood, XferEnds
  <2> QED BY <2>1, <2>2
<1> QED BY <1>2, <1>5, <1>6, <1>7

\* w is u with the file of one end closed and finished, and the reference that
\* ProcressFileIOFinish holds meanwhile.
Settled(u, a, w) ==
  /\ TransferShape(w) /\ w.net = u.net /\ w.req = u.req /\ w.made = u.made /\ w.data = u.data /\ w.told = u.told
  /\ w.summary = u.summary /\ w.forkFailed = u.forkFailed /\ w.emptyFailed = u.emptyFailed
  /\ \A e \in Ends : e # a => w.ctx[e] = u.ctx[e] /\ w.fds[e] = u.fds[e]
  /\ w.fds[a] = {} /\ ~w.ctx[a].isFdOpen /\ CtxRest(u.ctx[a], w.ctx[a]) /\ w.ctx[a].ioFinish
  /\ w.ctx[a].lastErrno = u.ctx[a].lastErrno /\ w.ctx[a].closeNotify = u.ctx[a].closeNotify
  /\ w.ctx[a].refCount = u.ctx[a].refCount + 1

\* The state in which WhenTransferFinish is called.
Finishing(u, a) == CloseCtxFd(AddRef([u EXCEPT !.ctx[a].ioFinish = TRUE], a, FinishReference), a)

\* Its components.
LEMMA XferSettled ==
  ASSUME NEW u, TransferShape(u), NEW a \in Ends, u.fds[a] = IF u.ctx[a].isFdOpen THEN {u.ctx[a].openFd} ELSE {}
  PROVE  Settled(u, a, Finishing(u, a))
<1> DEFINE t == [u EXCEPT !.ctx[a].ioFinish = TRUE]
           s == AddRef(t, a, 1)
           w == CloseCtxFd(s, a)
<1>0. /\ DOMAIN u = DOMAIN NoTransfer /\ DOMAIN u.ctx = Ends /\ DOMAIN u.ctx[a] = DOMAIN NewCtx("none")
      /\ (\A e \in Ends : CtxShape(u.ctx[e])) /\ DOMAIN u.fds = Ends /\ IsFiniteSet(u.req)
      /\ u.forkFailed \in BOOLEAN /\ u.emptyFailed \in BOOLEAN /\ u.ctx["s"].taskQueue = <<>>
  BY XferParts
<1>1. Finishing(u, a) = w
  BY DEF Finishing, FinishReference, KeepAlive
<1>2. /\ t.ctx = [u.ctx EXCEPT ![a] = [u.ctx[a] EXCEPT !.ioFinish = TRUE]] /\ t.net = u.net /\ t.req = u.req
      /\ SameDisk(u, t) /\ DOMAIN t = DOMAIN u
  BY <1>0 DEF NoTransfer, SameDisk
<1>3. s = [t EXCEPT !.ctx[a].refCount = @ + 1]
  BY DEF AddRef
<1> HIDE DEF t
<1>4. /\ t.ctx[a] = [u.ctx[a] EXCEPT !.ioFinish = TRUE] /\ DOMAIN t.ctx = Ends
      /\ (\A e \in Ends : e # a => t.ctx[e] = u.ctx[e]) /\ DOMAIN t.ctx[a] = DOMAIN NewCtx("none")
  BY <1>0, <1>2
<1>5. /\ t.ctx[a].ioFinish = TRUE /\ t.ctx[a].task = u.ctx[a].task /\ t.ctx[a].isFdOpen = u.ctx[a].isFdOpen
      /\ t.ctx[a].openFd = u.ctx[a].openFd /\ t.ctx[a].indexIO = u.ctx[a].indexIO
      /\ t.ctx[a].fileSize = u.ctx[a].fileSize /\ t.ctx[a].closeNotify = u.ctx[a].closeNotify
      /\ t.ctx[a].lastErrno = u.ctx[a].lastErrno /\ t.ctx[a].taskQueue = u.ctx[a].taskQueue
      /\ t.ctx[a].refCount = u.ctx[a].refCount /\ t.ctx[a].singalStop = u.ctx[a].singalStop
  BY <1>0, <1>4 DEF NewCtx
<1> HIDE DEF s
<1>6. /\ s.ctx = [t.ctx EXCEPT ![a] = [t.ctx[a] EXCEPT !.refCount = @ + 1]] /\ s.net = t.net /\ s.req = t.req
      /\ SameDisk(t, s) /\ DOMAIN s = DOMAIN t
  BY <1>0, <1>2, <1>3, <1>4 DEF NoTransfer, SameDisk
<1>7. /\ s.ctx[a] = [t.ctx[a] EXCEPT !.refCount = @ + 1] /\ DOMAIN s.ctx = Ends
      /\ (\A e \in Ends : e # a => s.ctx[e] = t.ctx[e]) /\ DOMAIN s.ctx[a] = DOMAIN NewCtx("none")
  BY <1>4, <1>6
<1>8. /\ s.ctx[a].ioFinish = t.ctx[a].ioFinish /\ s.ctx[a].task = t.ctx[a].task /\ s.ctx[a].isFdOpen = t.ctx[a].isFdOpen
      /\ s.ctx[a].openFd = t.ctx[a].openFd /\ s.ctx[a].indexIO = t.ctx[a].indexIO
      /\ s.ctx[a].fileSize = t.ctx[a].fileSize /\ s.ctx[a].closeNotify = t.ctx[a].closeNotify
      /\ s.ctx[a].lastErrno = t.ctx[a].lastErrno /\ s.ctx[a].taskQueue = t.ctx[a].taskQueue
      /\ s.ctx[a].refCount = t.ctx[a].refCount + 1 /\ s.ctx[a].singalStop = t.ctx[a].singalStop
  BY <1>4, <1>7 DEF NewCtx
<1>9. /\ w.net = s.net /\ w.req = s.req /\ w.made = s.made /\ w.data = s.data /\ w.told = s.told
      /\ w.summary = s.summary /\ w.forkFailed = s.forkFailed /\ w.emptyFailed = s.emptyFailed
      /\ (\A e \in Ends : e # a => w.ctx[e] = s.ctx[e] /\ w.fds[e] = s.fds[e])
      /\ w.fds[a] = {} /\ ~w.ctx[a].isFdOpen /\ CtxRest(s.ctx[a], w.ctx[a]) /\ w.ctx[a].ioFinish = s.ctx[a].ioFinish
      /\ w.ctx[a].lastErrno = s.ctx[a].lastErrno /\ w.ctx[a].closeNotify = s.ctx[a].closeNotify
      /\ w.ctx[a].refCount = s.ctx[a].refCount /\ DOMAIN w = DOMAIN s /\ DOMAIN w.ctx = Ends /\ DOMAIN w.fds = Ends
      /\ DOMAIN w.ctx[a] = DOMAIN NewCtx("none") /\ w.ctx[a].isFdOpen = FALSE
  <2>0. s.fds = u.fds /\ s.fds[a] = IF s.ctx[a].isFdOpen THEN {s.ctx[a].openFd} ELSE {}
    BY <1>2, <1>5, <1>6, <1>8 DEF SameDisk
  <2>1. CASE s.ctx[a].isFdOpen
    <3>1. w = [s EXCEPT !.ctx[a].isFdOpen = FALSE, !.fds[a] = @ \ {s.ctx[a].openFd}]
      BY <2>1 DEF CloseCtxFd
    <3>2. s.fds[a] \ {s.ctx[a].openFd} = {}
      BY <2>0, <2>1
    <3> HIDE DEF w
    <3>3. /\ w.ctx = [s.ctx EXCEPT ![a] = [s.ctx[a] EXCEPT !.isFdOpen = FALSE]] /\ w.fds = [s.fds EXCEPT ![a] = {}]
          /\ w.net = s.net /\ w.req = s.req /\ w.made = s.made /\ w.data = s.data /\ w.told = s.told
          /\ w.summary = s.summary /\ w.forkFailed = s.forkFailed /\ w.emptyFailed = s.emptyFailed /\ DOMAIN w = DOMAIN s
      <4>1. DOMAIN s = DOMAIN NoTransfer
        BY <1>0, <1>2, <1>6
      <4> QED BY <3>1, <3>2, <4>1 DEF NoTransfer
    <3>4. w.ctx[a] = [s.ctx[a] EXCEPT !.isFdOpen = FALSE] /\ w.fds[a] = {} /\ DOMAIN w.ctx = Ends /\ DOMAIN w.fds = Ends
          /\ \A e \in Ends : e # a => w.ctx[e] = s.ctx[e] /\ w.fds[e] = s.fds[e]
      BY <1>0, <1>7, <2>0, <3>3
    <3>5. /\ ~w.ctx[a].isFdOpen /\ CtxRest(s.ctx[a], w.ctx[a]) /\ w.ctx[a].ioFinish = s.ctx[a].ioFinish
          /\ w.ctx[a].lastErrno = s.ctx[a].lastErrno /\ w.ctx[a].closeNotify = s.ctx[a].closeNotify
          /\ w.ctx[a].refCount = s.ctx[a].refCount /\ DOMAIN w.ctx[a] = DOMAIN NewCtx("none") /\ w.ctx[a].isFdOpen = FALSE
      BY <1>7, <3>4 DEF NewCtx, CtxRest
    <3> QED BY <3>3, <3>4, <3>5
  <2>2. CASE ~s.ctx[a].isFdOpen
    <3>1. w = s
      BY <2>2 DEF CloseCtxFd
    <3>2. CtxShape(u.ctx[a])
      BY <1>0
    <3>3. s.ctx[a].isFdOpen = FALSE
      BY <1>5, <1>8, <2>2, <3>2 DEF CtxShape
    <3> QED BY <1>0, <1>7, <2>0, <2>2, <3>1, <3>3 DEF CtxRest
  <2> QED BY <2>1, <2>2
<1> HIDE DEF w
<1>10. /\ w.net = u.net /\ w.req = u.req /\ w.made = u.made /\ w.data = u.data /\ w.told = u.told
       /\ w.summary = u.summary /\ w.forkFailed = u.forkFailed /\ w.emptyFailed = u.emptyFailed
       /\ (\A e \in Ends : e # a => w.ctx[e] = u.ctx[e] /\ w.fds[e] = u.fds[e]) /\ DOMAIN w = DOMAIN u
  BY <1>2, <1>4, <1>6, <1>7, <1>9 DEF SameDisk
<1>11. /\ CtxRest(u.ctx[a], w.ctx[a]) /\ w.ctx[a].ioFinish = TRUE
       /\ w.ctx[a].lastErrno = u.ctx[a].lastErrno /\ w.ctx[a].closeNotify = u.ctx[a].closeNotify
       /\ w.ctx[a].refCount = u.ctx[a].refCount + 1
  BY <1>5, <1>8, <1>9 DEF CtxRest
<1>12. CtxShape(w.ctx[a])
  <2>1. CtxShape(u.ctx[a])
    BY <1>0
  <2>2. /\ u.ctx[a].task \in {"none", "run", "stopped", "deleted"} /\ u.ctx[a].lastErrno \in BOOLEAN
        /\ u.ctx[a].closeNotify \in BOOLEAN /\ u.ctx[a].singalStop \in BOOLEAN
        /\ u.ctx[a].indexIO \in Nat /\ u.ctx[a].refCount \in Int /\ (u.ctx[a].singalStop => u.ctx[a].task \notin {"none", "run"})
    BY <2>1 DEF CtxShape
  <2>3. w.ctx[a].refCount \in Int
    BY <1>11, <2>2
  <2>4. w.ctx[a].isFdOpen \in BOOLEAN /\ w.ctx[a].ioFinish \in BOOLEAN
    BY <1>9, <1>11, Zenon
  <2> QED BY <1>9, <1>11, <2>2, <2>3, <2>4, Zenon DEF CtxShape, CtxRest
<1>13. TransferShape(w)
  <2>1. /\ (\A e \in Ends : CtxShape(w.ctx[e])) /\ w.ctx["s"].taskQueue = <<>> /\ Queue(w) = Queue(u)
        /\ (\A q \in w.req : q \in u.req) /\ IsFiniteSet(w.req)
        /\ w.forkFailed \in BOOLEAN /\ w.emptyFailed \in BOOLEAN
    BY <1>0, <1>10, <1>11, <1>12, XferEnds DEF Queue, Master, CtxRest
  <2> QED BY <1>9, <1>10, <2>1, XferShape, Zenon
<1> QED BY <1>1, <1>9, <1>10, <1>11, <1>13 DEF Settled

\* The references of a state that is settled.
LEMMA XferSettledRefs ==
  ASSUME NEW u, NEW a \in Ends, NEW w, Settled(u, a, w), IsFiniteSet(u.req), RefsBut(u, a, 1)
  PROVE  RefsBut(w, a, 2)
<1> SUFFICES ASSUME NEW e \in Ends
             PROVE  w.ctx[e].refCount = Owed(w, e) + Leaked(w, e) + (IF e = a THEN 2 ELSE 0)
  BY DEF RefsBut
<1>1. u.ctx[e].refCount = Owed(u, e) + Leaked(u, e) + (IF e = a THEN 1 ELSE 0)
  BY DEF RefsBut
<1>2. Owed(w, e) = Owed(u, e) /\ Owed(u, e) \in Nat /\ Leaked(w, e) = Leaked(u, e) /\ Leaked(u, e) \in {0, 1}
  <2>1. w.req = u.req /\ w.forkFailed = u.forkFailed
    BY DEF Settled
  <2>2. Owed(w, e) = Owed(u, e)
    BY <2>1 DEF Owed
  <2>3. Owed(u, e) \in Nat
    BY XferOwed
  <2>4. Leaked(w, e) = Leaked(u, e) /\ Leaked(u, e) \in {0, 1}
    BY <2>1 DEF Leaked
  <2> QED BY <2>2, <2>3, <2>4
<1>3. CASE e = a
  <2>1. w.ctx[e].refCount = u.ctx[e].refCount + 1
    BY <1>3 DEF Settled
  <2> QED BY <1>1, <1>2, <1>3, <2>1
<1>4. CASE e # a
  <2>1. w.ctx[e].refCount = u.ctx[e].refCount
    BY <1>4 DEF Settled
  <2> QED BY <1>1, <1>2, <1>4, <2>1
<1> QED BY <1>3, <1>4

\* The two references that a completion gives back.
LEMMA XferDropTwo ==
  ASSUME NEW z, Working(z), Held(z), NEW a \in Ends, RefsBut(z, a, 2)
  PROVE  Good(DropRef(DropRef(z, a), a))
<1>1. ASSUME NEW x, Working(x), Held(x), NEW k \in Int, RefsBut(x, a, k)
      PROVE  Working(DropRef(x, a)) /\ Held(DropRef(x, a)) /\ RefsBut(DropRef(x, a), a, k - 1)
  <2>1. TransferShape(x)
    BY <1>1 DEF Working, Core
  <2>2. Like(x, DropRef(x, a)) /\ RefsBut(DropRef(x, a), a, k - 1)
    BY <1>1, <2>1, XferRef, XferRefsMove
  <2> QED BY <1>1, <2>2, XferLike
<1> DEFINE y == DropRef(z, a)
<1>2. Working(y) /\ Held(y) /\ RefsBut(y, a, 1)
  <2>1. RefsBut(y, a, 2 - 1) /\ Working(y) /\ Held(y)
    BY <1>1
  <2> QED BY <2>1
<1> HIDE DEF y
<1>3. RefsBut(DropRef(y, a), a, 1 - 1) /\ Working(DropRef(y, a)) /\ Held(DropRef(y, a))
  BY <1>1, <1>2
<1>4. RefsBut(DropRef(y, a), a, 0)
  BY <1>3
<1> QED BY <1>3, <1>4, XferGood DEF y

\* The reference of a completion that is not the end of its file.
LEMMA XferDropOne ==
  ASSUME NEW z, Working(z), Held(z), NEW a \in Ends, RefsBut(z, a, 1)
  PROVE  Good(DropRef(z, a))
<1>1. TransferShape(z)
  BY DEF Working, Core
<1>2. Like(z, DropRef(z, a)) /\ RefsBut(DropRef(z, a), a, 1 - 1)
  BY <1>1, XferRef, XferRefsMove
<1>3. Working(DropRef(z, a)) /\ Held(DropRef(z, a)) /\ RefsBut(DropRef(z, a), a, 0)
  BY <1>2, XferLike
<1> QED BY <1>3, XferGood

\* WhenTransferFinish: another file is counted.
LEMMA XferFileCount ==
  ASSUME NEW x, TransferShape(x), NEW a \in Ends
  PROVE  LET y == [x EXCEPT !.ctx[a].fileCnt = @ + 1]
         IN  Like(x, y) /\ y.ctx[a].singalStop = x.ctx[a].singalStop
             /\ \A b \in Ends, k \in Int : RefsBut(x, b, k) => RefsBut(y, b, k)
<1> DEFINE n == x.ctx[a].fileCnt + 1
           y == [x EXCEPT !.ctx[a].fileCnt = @ + 1]
<1>1. /\ DOMAIN x = DOMAIN NoTransfer /\ DOMAIN x.ctx = Ends /\ DOMAIN x.ctx[a] = DOMAIN NewCtx("none")
      /\ (\A e \in Ends : CtxShape(x.ctx[e])) /\ DOMAIN x.fds = Ends /\ IsFiniteSet(x.req)
      /\ x.forkFailed \in BOOLEAN /\ x.emptyFailed \in BOOLEAN /\ x.ctx["s"].taskQueue = <<>>
  BY XferParts
<1>2. /\ y.ctx = [x.ctx EXCEPT ![a] = [x.ctx[a] EXCEPT !.fileCnt = n]] /\ y.net = x.net /\ y.req = x.req
      /\ SameDisk(x, y) /\ DOMAIN y = DOMAIN x
  BY <1>1 DEF NoTransfer, SameDisk
<1> HIDE DEF y, n
<1>3. y.ctx[a] = [x.ctx[a] EXCEPT !.fileCnt = n] /\ DOMAIN y.ctx = Ends /\ \A e \in Ends : e # a => y.ctx[e] = x.ctx[e]
  BY <1>1, <1>2
<1>4. /\ DOMAIN y.ctx[a] = DOMAIN x.ctx[a] /\ Kept(x.ctx[a], y.ctx[a])
      /\ y.ctx[a].refCount = x.ctx[a].refCount /\ y.ctx[a].task = x.ctx[a].task
  BY <1>1, <1>3 DEF NewCtx, Kept
<1>5. CtxShape(y.ctx[a])
  <2>1. CtxShape(x.ctx[a])
    BY <1>1
  <2> QED BY <1>4, <2>1, Zenon DEF CtxShape, Kept
<1>6. TransferShape(y)
  <2>1. /\ (\A e \in Ends : CtxShape(y.ctx[e])) /\ y.ctx["s"].taskQueue = <<>> /\ Queue(y) = Queue(x)
        /\ (\A q \in y.req : q \in x.req) /\ IsFiniteSet(y.req) /\ DOMAIN y.fds = Ends
        /\ y.forkFailed \in BOOLEAN /\ y.emptyFailed \in BOOLEAN
    BY <1>1, <1>2, <1>3, <1>4, <1>5, XferEnds DEF Queue, Master, SameDisk, Kept
  <2> QED BY <1>2, <1>3, <2>1, XferShape, Zenon
<1>7. \A e \in Ends : /\ y.ctx[e].task = x.ctx[e].task /\ y.ctx[e].refCount = x.ctx[e].refCount
                      /\ Kept(x.ctx[e], y.ctx[e])
  <2>1. \A e \in Ends : e # a => Kept(x.ctx[e], y.ctx[e])
    BY <1>3 DEF Kept
  <2> QED BY <1>3, <1>4, <2>1
<1>8. Like(x, y)
  BY <1>2, <1>6, <1>7 DEF Like
<1>9. \A b \in Ends, k \in Int : RefsBut(x, b, k) => RefsBut(y, b, k)
  <2>1. y.req = x.req /\ y.forkFailed = x.forkFailed
    BY <1>2 DEF SameDisk
  <2>2. \A e \in Ends : y.ctx[e].refCount = x.ctx[e].refCount
    BY <1>7
  <2> QED BY <2>1, <2>2, XferRefsSame
<1>10. y.ctx[a].singalStop = x.ctx[a].singalStop
  BY <1>4 DEF Kept
<1> QED BY <1>8, <1>9, <1>10 DEF y, n

\* WhenTransferFinish of an install that failed: nobody is told.
LEMMA XferStuck ==
  ASSUME NEW x, TransferShape(x)
  PROVE  LET y == [x EXCEPT !.stuck = TRUE]
         IN  Like(x, y) /\ \A b \in Ends, k \in Int : RefsBut(x, b, k) => RefsBut(y, b, k)
<1> DEFINE y == [x EXCEPT !.stuck = TRUE]
<1>1. /\ DOMAIN x = DOMAIN NoTransfer /\ DOMAIN x.ctx = Ends
      /\ (\A e \in Ends : CtxShape(x.ctx[e])) /\ DOMAIN x.fds = Ends /\ IsFiniteSet(x.req)
      /\ x.forkFailed \in BOOLEAN /\ x.emptyFailed \in BOOLEAN /\ x.ctx["s"].taskQueue = <<>>
  BY XferParts
<1>2. y.ctx = x.ctx /\ y.net = x.net /\ y.req = x.req /\ SameDisk(x, y) /\ DOMAIN y = DOMAIN x
  BY <1>1 DEF NoTransfer, SameDisk
<1> HIDE DEF y
<1>3. TransferShape(y)
  <2>1. /\ (\A e \in Ends : CtxShape(y.ctx[e])) /\ y.ctx["s"].taskQueue = <<>> /\ Queue(y) = Queue(x)
        /\ (\A q \in y.req : q \in x.req) /\ IsFiniteSet(y.req) /\ DOMAIN y.fds = Ends /\ DOMAIN y.ctx = Ends
        /\ y.forkFailed \in BOOLEAN /\ y.emptyFailed \in BOOLEAN
    BY <1>1, <1>2 DEF Queue, Master, SameDisk
  <2> QED BY <1>2, <2>1, XferShape, Zenon
<1>4. Like(x, y)
  BY <1>2, <1>3 DEF Like, Kept
<1>5. \A b \in Ends, k \in Int : RefsBut(x, b, k) => RefsBut(y, b, k)
  BY <1>2, XferRefsSame DEF SameDisk
<1> QED BY <1>4, <1>5 DEF y

\* ProcressFileIOFinish: what WhenTransferFinish of the three tasks keeps.
LEMMA XferWhenFinish ==
  ASSUME NEW w, Working(w), Held(w), NEW a \in Ends, RefsBut(w, a, 2), w.ctx[a].task \in {"run", "stopped"},
         ~isApp /\ ~w.ctx[a].singalStop => MaySend(w, OtherEnd(a), [cmd |-> "FINISH", arg |-> 1]),
         isApp /\ a = "s" /\ ~Slave(w).lastErrno => Free(w) /\ PackageFacts(w) /\ ~w.forkFailed,
         NEW z \in WhenTransferFinish(w, a)
  PROVE  Good(DropRef(DropRef(z, a), a))
<1>0. TransferShape(w) /\ 2 \in Int
  BY DEF Working, Core
<1> SUFFICES Working(z) /\ Held(z) /\ RefsBut(z, a, 2)
  BY XferDropTwo
<1>1. CASE ~isApp
  <2> DEFINE v == [w EXCEPT !.ctx[a].fileCnt = @ + 1]
  <2>1. z = SendToAnother(v, a, "FINISH", 1)
    <3>1. xcfg.kind # "install" /\ xcfg.kind # "sideload"
      BY <1>1 DEF isApp
    <3> HIDE DEF v
    <3>2. z \in {SendToAnother(v, a, "FINISH", 1)}
      BY <1>1, <3>1 DEF WhenTransferFinish, v
    <3> QED BY <3>2
  <2>2. Like(w, v) /\ v.ctx[a].singalStop = w.ctx[a].singalStop /\ RefsBut(v, a, 2)
    BY <1>0, XferFileCount
  <2> HIDE DEF v
  <2> DEFINE c == [cmd |-> "FINISH", arg |-> 1]
  <2>3. Working(v) /\ Held(v)
    BY <2>2, XferLike
  <2>4. ~v.ctx[a].singalStop => MaySend(v, OtherEnd(a), c)
    <3> SUFFICES ASSUME ~v.ctx[a].singalStop PROVE MaySend(v, OtherEnd(a), c)
      OBVIOUS
    <3>1. MaySend(w, OtherEnd(a), c) /\ OtherEnd(a) \in Ends
      BY <1>1, <2>2, XferEnds
    <3>2. /\ (Free(w) <=> Free(v)) /\ (NoData(w) <=> NoData(v)) /\ (SlaveClosed(w) <=> SlaveClosed(v))
          /\ (\A e \in Ends : Closing(w, e) <=> Closing(v, e)) /\ (AllDone(w) <=> AllDone(v))
          /\ (\A f : Done(w, f) <=> Done(v, f)) /\ Queue(v) = Queue(w) /\ Cur(v) = Cur(w)
          /\ (InQueue(w) <=> InQueue(v))
      BY <2>2, XferLike
    <3>3. /\ Master(v).lastErrno = Master(w).lastErrno /\ v.forkFailed = w.forkFailed /\ Slave(v).task = Slave(w).task
      BY <2>2, XferEnds DEF Like, Kept, SameDisk, Master, Slave
    <3>4. c.cmd = "FINISH" /\ c.arg = 1
      OBVIOUS
    <3> HIDE DEF c
    <3>5. Control(v, OtherEnd(a), c) <=> OtherEnd(a) = "m" /\ Queue(v) # <<>>
      BY <3>4 DEF Control
    <3>6. Control(w, OtherEnd(a), c) <=> OtherEnd(a) = "m" /\ Queue(w) # <<>>
      BY <3>4 DEF Control
    <3>7. MasterMessage(w, c) => MasterMessage(v, c)
      BY <3>2, <3>3, <3>4 DEF MasterMessage
    <3> QED BY <3>1, <3>2, <3>3, <3>4, <3>5, <3>6, <3>7, XferEnds DEF MaySend
  <2>5. Sent(v, z) /\ (NoData(v) <=> NoData(z))
    BY <2>1, <2>3, <2>4, XferSendTo
  <2>6. Held(z)
    BY <2>3, <2>5, XferHeldSent
  <2> QED BY <1>0, <2>2, <2>5, <2>6 DEF Sent
<1>2. CASE isApp /\ xcfg.kind = "install" /\ a = "s" /\ ~w.ctx[a].lastErrno
  <2>1. z \in PackageShell(w)
    BY <1>2 DEF WhenTransferFinish
  <2> QED BY <1>0, <1>2, <2>1, XferPackage DEF Slave
<1>3. CASE isApp /\ xcfg.kind # "install" /\ xcfg.kind = "sideload" /\ a = "s" /\ ~w.ctx[a].lastErrno
  <2>1. z = TaskFinish(w, a)
    BY <1>3 DEF WhenTransferFinish
  <2>2. Sent(w, z) /\ (NoData(w) <=> NoData(z))
    BY <2>1, XferTaskFinish DEF Slave
  <2>3. Held(z)
    BY <2>2, XferHeldSent
  <2> QED BY <1>0, <2>2, <2>3 DEF Sent
<1>4. CASE /\ isApp /\ ~(xcfg.kind = "install" /\ a = "s" /\ ~w.ctx[a].lastErrno)
           /\ ~(xcfg.kind = "sideload" /\ a = "s" /\ ~w.ctx[a].lastErrno)
  <2>1. z = [w EXCEPT !.stuck = TRUE]
    BY <1>4 DEF WhenTransferFinish
  <2>2. Like(w, z) /\ RefsBut(z, a, 2)
    BY <1>0, <2>1, XferStuck
  <2> QED BY <2>2, XferLike
<1> QED BY <1>1, <1>2, <1>3, <1>4

\* OnFileIO: the mark of a file that is not finished is what it was.
LEMMA XferNotFinished ==
  ASSUME NEW x, TransferShape(x), NEW a \in Ends, ~x.ctx[a].ioFinish
  PROVE  LET y == [x EXCEPT !.ctx[a].ioFinish = FALSE]
         IN  Like(x, y) /\ \A b \in Ends, k \in Int : RefsBut(x, b, k) => RefsBut(y, b, k)
<1> DEFINE y == [x EXCEPT !.ctx[a].ioFinish = FALSE]
<1>1. /\ DOMAIN x = DOMAIN NoTransfer /\ DOMAIN x.ctx = Ends /\ DOMAIN x.ctx[a] = DOMAIN NewCtx("none")
      /\ (\A e \in Ends : CtxShape(x.ctx[e])) /\ DOMAIN x.fds = Ends /\ IsFiniteSet(x.req)
      /\ x.forkFailed \in BOOLEAN /\ x.emptyFailed \in BOOLEAN /\ x.ctx["s"].taskQueue = <<>>
  BY XferParts
<1>2. /\ y.ctx = [x.ctx EXCEPT ![a] = [x.ctx[a] EXCEPT !.ioFinish = FALSE]] /\ y.net = x.net /\ y.req = x.req
      /\ SameDisk(x, y) /\ DOMAIN y = DOMAIN x
  BY <1>1 DEF NoTransfer, SameDisk
<1> HIDE DEF y
<1>3. y.ctx[a] = [x.ctx[a] EXCEPT !.ioFinish = FALSE] /\ DOMAIN y.ctx = Ends /\ \A e \in Ends : e # a => y.ctx[e] = x.ctx[e]
  BY <1>1, <1>2
<1>4. x.ctx[a].ioFinish = FALSE
  BY <1>1 DEF CtxShape
<1>5. /\ DOMAIN y.ctx[a] = DOMAIN x.ctx[a] /\ y.ctx[a].isFdOpen = x.ctx[a].isFdOpen
      /\ y.ctx[a].openFd = x.ctx[a].openFd /\ y.ctx[a].fileSize = x.ctx[a].fileSize
      /\ y.ctx[a].indexIO = x.ctx[a].indexIO /\ y.ctx[a].ioFinish = FALSE
      /\ y.ctx[a].lastErrno = x.ctx[a].lastErrno /\ y.ctx[a].closeNotify = x.ctx[a].closeNotify
      /\ y.ctx[a].singalStop = x.ctx[a].singalStop /\ y.ctx[a].taskQueue = x.ctx[a].taskQueue
      /\ y.ctx[a].refCount = x.ctx[a].refCount /\ y.ctx[a].task = x.ctx[a].task
  BY <1>1, <1>3 DEF NewCtx
<1>6. Kept(x.ctx[a], y.ctx[a])
  BY <1>4, <1>5, Zenon DEF Kept
<1>7. CtxShape(y.ctx[a])
  <2>1. CtxShape(x.ctx[a])
    BY <1>1
  <2> QED BY <1>5, <1>6, <2>1, Zenon DEF CtxShape, Kept
<1>8. TransferShape(y)
  <2>1. /\ (\A e \in Ends : CtxShape(y.ctx[e])) /\ y.ctx["s"].taskQueue = <<>> /\ Queue(y) = Queue(x)
        /\ (\A q \in y.req : q \in x.req) /\ IsFiniteSet(y.req) /\ DOMAIN y.fds = Ends
        /\ y.forkFailed \in BOOLEAN /\ y.emptyFailed \in BOOLEAN
    BY <1>1, <1>2, <1>3, <1>5, <1>7, XferEnds DEF Queue, Master, SameDisk
  <2> QED BY <1>2, <1>3, <2>1, XferShape, Zenon
<1>9. \A e \in Ends : /\ y.ctx[e].task = x.ctx[e].task /\ y.ctx[e].refCount = x.ctx[e].refCount
                      /\ Kept(x.ctx[e], y.ctx[e])
  <2>1. \A e \in Ends : e # a => Kept(x.ctx[e], y.ctx[e])
    BY <1>3 DEF Kept
  <2> QED BY <1>3, <1>5, <1>6, <2>1
<1>10. Like(x, y)
  BY <1>2, <1>8, <1>9 DEF Like
<1>11. \A b \in Ends, k \in Int : RefsBut(x, b, k) => RefsBut(y, b, k)
  <2>1. y.req = x.req /\ y.forkFailed = x.forkFailed
    BY <1>2 DEF SameDisk
  <2>2. \A e \in Ends : y.ctx[e].refCount = x.ctx[e].refCount
    BY <1>9
  <2> QED BY <2>1, <2>2, XferRefsSame
<1> QED BY <1>10, <1>11 DEF y

\* OnFileIO: a completion that finishes the file of its end.
LEMMA XferEndOfFile ==
  ASSUME NEW u, TransferShape(u), NEW a \in Ends, RefsBut(u, a, 1),
         u.fds[a] = IF u.ctx[a].isFdOpen THEN {u.ctx[a].openFd} ELSE {},
         NEW w, w = Finishing(u, a), Working(w), Held(w), u.ctx[a].task \in {"run", "stopped"},
         u.ctx[a].lastErrno \/ u.ctx[a].closeNotify =>
           /\ ~isApp /\ ~w.ctx[a].singalStop => MaySend(w, OtherEnd(a), [cmd |-> "FINISH", arg |-> 1])
           /\ isApp /\ a = "s" /\ ~Slave(w).lastErrno => Free(w) /\ PackageFacts(w) /\ ~w.forkFailed,
         NEW z \in ProcressFileIOFinish([u EXCEPT !.ctx[a].ioFinish = TRUE], a)
  PROVE  Good(DropRef(z, a))
<1>1. Settled(u, a, w)
  BY XferSettled
<1>2. RefsBut(w, a, 2)
  BY <1>1, XferSettledRefs, XferParts
<1>3. w.ctx[a].task \in {"run", "stopped"} /\ w.ctx[a].lastErrno = u.ctx[a].lastErrno
      /\ w.ctx[a].closeNotify = u.ctx[a].closeNotify
  BY <1>1 DEF Settled, CtxRest
<1>4. z \in {DropRef(q, a) : q \in IF w.ctx[a].lastErrno \/ w.ctx[a].closeNotify THEN WhenTransferFinish(w, a) ELSE {w}}
  BY DEF ProcressFileIOFinish, Finishing
<1>5. PICK q \in IF w.ctx[a].lastErrno \/ w.ctx[a].closeNotify THEN WhenTransferFinish(w, a) ELSE {w} : z = DropRef(q, a)
  BY <1>4
<1>6. CASE w.ctx[a].lastErrno \/ w.ctx[a].closeNotify
  <2>1. q \in WhenTransferFinish(w, a)
    BY <1>5, <1>6
  <2>2. Good(DropRef(DropRef(q, a), a))
    BY <1>2, <1>3, <1>6, <2>1, XferWhenFinish
  <2> QED BY <1>5, <2>2
<1>7. CASE ~(w.ctx[a].lastErrno \/ w.ctx[a].closeNotify)
  <2>1. q = w
    BY <1>5, <1>7
  <2> QED BY <1>2, <1>5, <2>1, XferDropTwo
<1> QED BY <1>6, <1>7

\* A step of the master that leaves the slave, its queue and its requests.
LEMMA XferSlaveErrors ==
  ASSUME NEW x, Working(x), NEW y, y.ctx["s"] = x.ctx["s"], y.net = x.net, y.req \subseteq x.req,
         y.ctx["m"].task = x.ctx["m"].task
  PROVE  SlaveErrors(y)
<1>1. ErrorsKnown(x)
  BY DEF Working, Core
<1>2. Closing(x, "m") => Closing(y, "m")
  BY DEF Closing
<1>3. Slave(y) = Slave(x)
  BY DEF Slave
<1> QED BY <1>1, <1>2, <1>3 DEF ErrorsKnown, SlaveErrors

\* The master has read its file: it closes it and waits.
LEMMA XferReadEnds ==
  ASSUME NEW u, Working(u), Free(u), ~Master(u).lastErrno, RefsBut(u, "m", 1), Master(u).task \in {"run", "stopped"},
         NEW z \in ProcressFileIOFinish([u EXCEPT !.ctx["m"].ioFinish = TRUE], "m")
  PROVE  Good(DropRef(z, "m"))
<1> DEFINE w == Finishing(u, "m")
<1>0. "m" \in Ends /\ TransferShape(u) /\ ErrorsKnown(u) /\ OneFile(u)
  BY XferEnds DEF Working, Core
<1>1. u.fds["m"] = IF u.ctx["m"].isFdOpen THEN {u.ctx["m"].openFd} ELSE {}
  BY <1>0 DEF OneFile
<1>2. Settled(u, "m", w)
  BY <1>0, <1>1, XferSettled
<1>3. w = Finishing(u, "m")
  OBVIOUS
<1> HIDE DEF w
<1>4. SlaveErrors(w)
  <2>1. w.ctx["s"] = u.ctx["s"] /\ w.net = u.net /\ w.req = u.req /\ w.ctx["m"].task = u.ctx["m"].task
    BY <1>2, XferEnds DEF Settled, CtxRest
  <2> QED BY <2>1, XferSlaveErrors
<1>5. Calm(u, w)
  <2>1. /\ TransferShape(w) /\ w.net = u.net /\ w.req = u.req /\ w.made = u.made /\ w.data = u.data /\ w.told = u.told
        /\ w.summary = u.summary /\ w.forkFailed = u.forkFailed /\ w.emptyFailed = u.emptyFailed
        /\ (\A e \in Ends : e # "m" => w.ctx[e] = u.ctx[e] /\ w.fds[e] = u.fds[e])
        /\ w.fds["m"] = {} /\ ~w.ctx["m"].isFdOpen /\ CtxRest(u.ctx["m"], w.ctx["m"]) /\ w.ctx["m"].ioFinish
        /\ w.ctx["m"].lastErrno = u.ctx["m"].lastErrno /\ w.ctx["m"].closeNotify = u.ctx["m"].closeNotify
    BY <1>2 DEF Settled
  <2> QED BY <1>0, <1>4, <2>1, XferFileClosed
<1>6. Held(w)
  <2>1. Free(w) /\ ~Master(w).isFdOpen
    BY <1>2, <1>5 DEF Calm, Settled, Master
  <2> QED BY <2>1 DEF Held, Free, TokenIn
<1>7. ~u.ctx["m"].lastErrno /\ ~u.ctx["m"].closeNotify /\ Working(w) /\ u.ctx["m"].task \in {"run", "stopped"}
  BY <1>0, <1>5 DEF ErrorsKnown, Master, Calm
<1> QED BY <1>0, <1>1, <1>3, <1>6, <1>7, XferEndOfFile

\* What is known of a block that has been read.
LEMMA XferReadFacts ==
  ASSUME NEW x, Good(x), NEW r \in x.req, r.op = "read"
  PROVE  LET v == Without(x, r)
         IN  /\ Working(v) /\ Free(v) /\ ~v.forkFailed /\ ~Master(v).lastErrno /\ ReadFacts(v) /\ NoEmpty(v)
             /\ xcfg.sizes[Cur(v)] = 0 => NoData(v)
             /\ v.ctx = x.ctx /\ RefsBut(v, "m", 1) /\ r.end = "m" /\ r.file = Cur(v) /\ r.index = Master(v).indexIO
             /\ r.index < xcfg.sizes[Cur(v)] \/ (xcfg.sizes[Cur(v)] = 0 /\ r.index = 0)
<1> DEFINE v == Without(x, r)
<1>0. Working(x) /\ TransferShape(x) /\ RequestFacts(x) /\ Blocks(x) /\ RefsCount(x)
  BY XferGoodParts DEF Working, Core, Good
<1>1. /\ ReadFacts(x) /\ r.file = Cur(x) /\ r.index = Master(x).indexIO
      /\ r.index < xcfg.sizes[Cur(x)] \/ (xcfg.sizes[Cur(x)] = 0 /\ r.index = 0)
  BY <1>0 DEF RequestFacts
<1>2. r.end = "m"
  BY <1>0 DEF TransferShape, ReqShape
<1>3. NoEmpty(x)
  BY <1>0 DEF Blocks, BlockFits, NoEmpty
<1>4. xcfg.sizes[Cur(x)] = 0 => NoData(x)
  <2> SUFFICES ASSUME xcfg.sizes[Cur(x)] = 0, NEW j, NEW n, NEW p, BlockFits(x, j, n, p), n # 0 PROVE FALSE
    BY <1>0, <1>3 DEF Blocks, NoEmpty, NoData
  <2> QED BY DEF BlockFits
<1>5. /\ Calm(x, v) /\ v.ctx = x.ctx /\ Free(v) /\ ~v.forkFailed /\ ~Master(v).lastErrno /\ RefsBut(v, "m", 1)
  BY <1>0, <1>2, XferWithout
<1> HIDE DEF v
<1>6. Working(v) /\ NoEmpty(v) /\ ReadFacts(v) /\ Cur(v) = Cur(x) /\ (NoData(x) => NoData(v))
  BY <1>1, <1>3, <1>5 DEF Calm
<1>7. Master(v) = Master(x)
  BY <1>5 DEF Master
<1> QED BY <1>1, <1>2, <1>4, <1>5, <1>6, <1>7 DEF v

\* ProcressFileIO: a read that fails.
LEMMA XferReadError ==
  ASSUME NEW v, Working(v), Free(v), ~v.forkFailed, ~Master(v).lastErrno, ReadFacts(v), NoEmpty(v),
         xcfg.sizes[Cur(v)] = 0 => NoData(v), Master(v).indexIO < xcfg.sizes[Cur(v)] \/ xcfg.sizes[Cur(v)] = 0,
         NEW w, TransferShape(w), w.net = v.net, w.req = v.req, w.made = v.made, w.data = v.data, w.told = v.told,
         w.summary = v.summary, w.forkFailed = v.forkFailed, v.emptyFailed => w.emptyFailed,
         xcfg.sizes[Cur(v)] = 0 => w.emptyFailed,
         w.ctx["s"] = v.ctx["s"], w.fds["s"] = v.fds["s"], w.fds["m"] = {}, ~w.ctx["m"].isFdOpen,
         CtxRest(v.ctx["m"], w.ctx["m"]), w.ctx["m"].lastErrno, w.ctx["m"].ioFinish
  PROVE  Working(w) /\ Held(w)
<1>0. /\ TransferShape(v) /\ OneFile(v) /\ Blocks(v) /\ DiskFits(v) /\ ErrorsKnown(v) /\ FinishMeans(v)
  BY DEF Working, Core
<1>1. /\ Queue(w) = Queue(v) /\ Cur(w) = Cur(v) /\ Slave(w) = Slave(v) /\ (InQueue(w) <=> InQueue(v))
      /\ (MasterReady(w) <=> MasterReady(v)) /\ (SlaveReady(w) <=> SlaveReady(v))
      /\ Master(w).indexIO = Master(v).indexIO /\ Master(w).task = Master(v).task
      /\ w.ctx["m"].task = v.ctx["m"].task
  BY DEF Queue, Cur, Slave, Master, InQueue, MasterReady, SlaveReady, CtxRest
<1>2. \A e \in Ends : w.ctx[e].task = v.ctx[e].task
  BY <1>1, XferEnds
<1>3. /\ Free(w) /\ OneToken(w) /\ RequestFacts(w) /\ MessageFacts(w) /\ WokenFirst(w) /\ Master(w).task # "none"
      /\ (\A e \in Ends : (Closing(v, e) => Closing(w, e)) /\ \A i : Live(w, e, i) <=> Live(v, e, i))
      /\ (NoData(v) <=> NoData(w))
  <2>1. Queue(w) # <<>> => Queue(v) # <<>>
    BY <1>1
  <2> QED BY <1>2, <2>1, XferIdle
<1>4. OneFile(w)
  <2> SUFFICES ASSUME NEW e \in Ends
               PROVE  /\ w.fds[e] = IF w.ctx[e].isFdOpen THEN {w.ctx[e].openFd} ELSE {}
                      /\ w.ctx[e].ioFinish => ~w.ctx[e].isFdOpen
                      /\ w.ctx[e].task = "deleted" => ~w.ctx[e].isFdOpen /\ \A p \in w.req : p.end # e
    BY DEF OneFile
  <2>1. /\ v.fds[e] = IF v.ctx[e].isFdOpen THEN {v.ctx[e].openFd} ELSE {}
        /\ v.ctx[e].ioFinish => ~v.ctx[e].isFdOpen
        /\ v.ctx[e].task = "deleted" => ~v.ctx[e].isFdOpen /\ \A p \in v.req : p.end # e
    BY <1>0 DEF OneFile
  <2> QED BY <1>2, <2>1, XferEnds
<1>5. (\A i : IsData(w, i) <=> IsData(v, i)) /\ (\A f : Arrived(w, f) = Arrived(v, f)) /\ \A f : Done(w, f) <=> Done(v, f)
  <2>1. \A f : Arrived(w, f) = Arrived(v, f)
    BY DEF Arrived
  <2> QED BY <2>1 DEF IsData, Done
<1>6. Blocks(w)
  <2>1. \A j, n, p : n # 0 /\ BlockFits(v, j, n, p) => BlockFits(w, j, n, p)
    BY <1>1, <1>5 DEF BlockFits
  <2>2. \A i \in 1 .. Len(w.net["s"]) : IsData(w, i) =>
          LET d == w.net["s"][i].arg IN BlockFits(w, d.index, d.n, RecvIOPayload(d.payload))
    BY <1>0, <1>5, <2>1 DEF Blocks, NoEmpty
  <2>3. \A r \in w.req : r.op = "write" =>
          /\ r.file = Cur(w) /\ r.index = <<r.index[1], r.index[2], r.index[3]>>
          /\ BlockFits(w, r.index[1], r.index[2], r.index[3])
          /\ \A i \in 1 .. Len(w.net["s"]) : IsData(w, i) => w.net["s"][i].arg.index # r.index[1]
    BY <1>0, <1>1, <1>5, <2>1 DEF Blocks, NoEmpty
  <2>4. ~NoData(w) => InQueue(w) /\ SlaveReady(w) /\ MasterReady(w)
    BY <1>1 DEF ReadFacts
  <2>5. /\ \A i, j \in 1 .. Len(w.net["s"]) :
             IsData(w, i) /\ IsData(w, j) /\ w.net["s"][i].arg.index = w.net["s"][j].arg.index => i = j
        /\ \A r, p \in w.req : r.op = "write" /\ p.op = "write" /\ r.index[1] = p.index[1] => r = p
    BY <1>0, <1>5 DEF Blocks
  <2> QED BY <2>2, <2>3, <2>4, <2>5 DEF Blocks
<1>7. DiskFits(w)
  BY <1>0, <1>1, <1>5 DEF DiskFits
<1>8. ErrorsKnown(w)
  <2>1. SlaveErrors(w)
    BY <1>1, XferSlaveErrors
  <2>2. /\ Free(w) /\ InQueue(w) /\ MasterReady(w)
        /\ \/ Master(w).indexIO < xcfg.sizes[Cur(w)]
           \/ xcfg.sizes[Cur(w)] = 0 /\ w.emptyFailed /\ NoData(w)
    BY <1>1, <1>3 DEF ReadFacts
  <2>3. Master(w).lastErrno
    BY DEF Master
  <2> QED BY <2>1, <2>2, <2>3 DEF ErrorsKnown, SlaveErrors
<1>9. FinishMeans(w)
  <2>1. AllDone(v) <=> AllDone(w)
    BY <1>5 DEF AllDone
  <2>2. Master(w).lastErrno /\ (\A i : Live(w, "m", i) <=> Live(v, "m", i))
    BY <1>3, XferEnds DEF Master
  <2> QED BY <1>0, <1>1, <1>5, <2>1, <2>2 DEF FinishMeans
<1>10. Working(w)
  BY <1>3, <1>4, <1>6, <1>7, <1>8, <1>9 DEF Working, Core
<1>11. Held(w)
  <2>1. ~Master(w).isFdOpen
    BY DEF Master
  <2> QED BY <1>3, <2>1 DEF Held, Free, TokenIn
<1> QED BY <1>10, <1>11

\* ProcressFileIO: what a request that fails leaves in its task.
Failed(v, a) == [v EXCEPT !.ctx[a].lastErrno = TRUE, !.ctx[a].closeNotify = TRUE,
                          !.emptyFailed = @ \/ v.ctx[a].fileSize = 0]

\* The failure changes the error flags of its task and nothing else.
LEMMA XferFailed ==
  ASSUME NEW x, TransferShape(x), NEW a \in Ends
  PROVE  LET y == Failed(x, a)
         IN  /\ TransferShape(y) /\ y.net = x.net /\ y.req = x.req /\ y.fds = x.fds /\ y.made = x.made /\ y.data = x.data
             /\ y.told = x.told /\ y.summary = x.summary /\ y.forkFailed = x.forkFailed
             /\ y.emptyFailed = (x.emptyFailed \/ x.ctx[a].fileSize = 0)
             /\ (\A e \in Ends : e # a => y.ctx[e] = x.ctx[e])
             /\ CtxRest(x.ctx[a], y.ctx[a]) /\ y.ctx[a].isFdOpen = x.ctx[a].isFdOpen /\ y.ctx[a].ioFinish = x.ctx[a].ioFinish
             /\ y.ctx[a].lastErrno /\ y.ctx[a].closeNotify
             /\ \A b \in Ends, k \in Int : RefsBut(x, b, k) => RefsBut(y, b, k)
<1> DEFINE y == Failed(x, a)
<1>1. /\ DOMAIN x = DOMAIN NoTransfer /\ DOMAIN x.ctx = Ends /\ DOMAIN x.ctx[a] = DOMAIN NewCtx("none")
      /\ (\A e \in Ends : CtxShape(x.ctx[e])) /\ DOMAIN x.fds = Ends /\ IsFiniteSet(x.req)
      /\ x.forkFailed \in BOOLEAN /\ x.emptyFailed \in BOOLEAN /\ x.ctx["s"].taskQueue = <<>>
  BY XferParts
<1>2. /\ y.ctx = [x.ctx EXCEPT ![a] = [x.ctx[a] EXCEPT !.lastErrno = TRUE, !.closeNotify = TRUE]] /\ DOMAIN y = DOMAIN x
      /\ y.net = x.net /\ y.req = x.req /\ y.fds = x.fds /\ y.made = x.made /\ y.data = x.data
      /\ y.told = x.told /\ y.summary = x.summary /\ y.forkFailed = x.forkFailed
      /\ y.emptyFailed = (x.emptyFailed \/ x.ctx[a].fileSize = 0)
  BY <1>1 DEF NoTransfer, Failed
<1> HIDE DEF y
<1>3. y.ctx[a] = [x.ctx[a] EXCEPT !.lastErrno = TRUE, !.closeNotify = TRUE] /\ DOMAIN y.ctx = Ends
      /\ \A e \in Ends : e # a => y.ctx[e] = x.ctx[e]
  BY <1>1, <1>2
<1>4. /\ DOMAIN y.ctx[a] = DOMAIN x.ctx[a] /\ CtxRest(x.ctx[a], y.ctx[a]) /\ y.ctx[a].isFdOpen = x.ctx[a].isFdOpen
      /\ y.ctx[a].ioFinish = x.ctx[a].ioFinish /\ y.ctx[a].lastErrno = TRUE /\ y.ctx[a].closeNotify = TRUE
      /\ y.ctx[a].refCount = x.ctx[a].refCount
  BY <1>1, <1>3 DEF NewCtx, CtxRest
<1>5. CtxShape(y.ctx[a])
  <2>1. CtxShape(x.ctx[a])
    BY <1>1
  <2> QED BY <1>4, <2>1, Zenon DEF CtxShape, CtxRest
<1>6. y.emptyFailed \in BOOLEAN
  BY <1>2, Zenon
<1>7. TransferShape(y)
  <2>1. /\ (\A e \in Ends : CtxShape(y.ctx[e])) /\ y.ctx["s"].taskQueue = <<>> /\ Queue(y) = Queue(x)
        /\ (\A q \in y.req : q \in x.req) /\ IsFiniteSet(y.req) /\ DOMAIN y.fds = Ends /\ y.forkFailed \in BOOLEAN
    BY <1>1, <1>2, <1>3, <1>4, <1>5, XferEnds DEF Queue, Master, CtxRest
  <2> QED BY <1>2, <1>3, <1>6, <2>1, XferShape, Zenon
<1>8. \A b \in Ends, k \in Int : RefsBut(x, b, k) => RefsBut(y, b, k)
  <2>1. \A e \in Ends : y.ctx[e].refCount = x.ctx[e].refCount
    BY <1>3, <1>4
  <2> QED BY <1>2, <2>1, XferRefsSame
<1> QED BY <1>2, <1>3, <1>4, <1>7, <1>8 DEF y

\* OnFileIO of the master: a read that fails ends the file.
LEMMA XferReadFails ==
  ASSUME NEW v, Working(v), Free(v), ~v.forkFailed, ~Master(v).lastErrno, ReadFacts(v), NoEmpty(v),
         xcfg.sizes[Cur(v)] = 0 => NoData(v), Master(v).indexIO < xcfg.sizes[Cur(v)] \/ xcfg.sizes[Cur(v)] = 0,
         RefsBut(v, "m", 1), Master(v).task \in {"run", "stopped"},
         NEW z \in ProcressFileIOFinish([Failed(v, "m") EXCEPT !.ctx["m"].ioFinish = TRUE], "m")
  PROVE  Good(DropRef(z, "m"))
<1> DEFINE u == Failed(v, "m")
           w == Finishing(u, "m")
<1>0. "m" \in Ends /\ "s" \in Ends /\ TransferShape(v) /\ OneFile(v) /\ v.ctx["m"].task \in {"run", "stopped"}
  BY XferEnds DEF Working, Core, Master
<1>1. /\ TransferShape(u) /\ u.net = v.net /\ u.req = v.req /\ u.fds = v.fds /\ u.made = v.made /\ u.data = v.data
      /\ u.told = v.told /\ u.summary = v.summary /\ u.forkFailed = v.forkFailed
      /\ u.emptyFailed = (v.emptyFailed \/ v.ctx["m"].fileSize = 0)
      /\ (\A e \in Ends : e # "m" => u.ctx[e] = v.ctx[e])
      /\ CtxRest(v.ctx["m"], u.ctx["m"]) /\ u.ctx["m"].isFdOpen = v.ctx["m"].isFdOpen
      /\ u.ctx["m"].lastErrno /\ u.ctx["m"].closeNotify
  BY <1>0, XferFailed
<1>2. RefsBut(u, "m", 1)
  BY <1>0, XferFailed
<1>3. z \in ProcressFileIOFinish([u EXCEPT !.ctx["m"].ioFinish = TRUE], "m") /\ w = Finishing(u, "m")
  OBVIOUS
<1> HIDE DEF u, w
<1>4. u.fds["m"] = IF u.ctx["m"].isFdOpen THEN {u.ctx["m"].openFd} ELSE {}
  BY <1>0, <1>1 DEF OneFile, CtxRest
<1>5. Settled(u, "m", w)
  BY <1>0, <1>1, <1>3, <1>4, XferSettled
<1>6. /\ TransferShape(w) /\ w.net = v.net /\ w.req = v.req /\ w.made = v.made /\ w.data = v.data /\ w.told = v.told
      /\ w.summary = v.summary /\ w.forkFailed = v.forkFailed
      /\ w.emptyFailed = (v.emptyFailed \/ v.ctx["m"].fileSize = 0)
      /\ w.ctx["s"] = v.ctx["s"] /\ w.fds["s"] = v.fds["s"] /\ w.fds["m"] = {} /\ ~w.ctx["m"].isFdOpen
      /\ CtxRest(v.ctx["m"], w.ctx["m"]) /\ w.ctx["m"].lastErrno /\ w.ctx["m"].ioFinish
  BY <1>0, <1>1, <1>5, XferEnds DEF Settled, CtxRest
<1>7. Working(w) /\ Held(w)
  <2>1. v.emptyFailed => w.emptyFailed
    BY <1>6
  <2>2. xcfg.sizes[Cur(v)] = 0 => w.emptyFailed
    BY <1>6 DEF ReadFacts, MasterReady, Master
  <2> QED BY <1>6, <2>1, <2>2, XferReadError
<1>8. ~isApp /\ ~w.ctx["m"].singalStop => MaySend(w, OtherEnd("m"), [cmd |-> "FINISH", arg |-> 1])
  <2> DEFINE c == [cmd |-> "FINISH", arg |-> 1]
  <2>1. c.cmd = "FINISH" /\ c.arg = 1
    OBVIOUS
  <2> HIDE DEF c
  <2>2. ~Control(w, "s", c) /\ c.cmd \in Commands("s") \ {"WAKEUP_SLAVETASK"} /\ OtherEnd("m") = "s"
    BY <2>1 DEF Control, Commands, ToSlaveCommands, OtherEnd
  <2>3. Master(w).lastErrno
    BY <1>6 DEF Master
  <2> QED BY <2>1, <2>2, <2>3 DEF MaySend, c
<1>9. u.ctx["m"].task \in {"run", "stopped"}
  BY <1>0, <1>1 DEF CtxRest
<1> QED BY <1>0, <1>1, <1>2, <1>3, <1>4, <1>7, <1>8, <1>9, XferEndOfFile

\* ProcressFileIORead: the master has read n more blocks.
LEMMA XferIndexed ==
  ASSUME NEW x, Working(x), Free(x), ~x.forkFailed, ~Master(x).lastErrno, NoEmpty(x), ReadFacts(x), NEW n \in {0, 1}
  PROVE  LET y == [x EXCEPT !.ctx["m"].indexIO = @ + n]
         IN  /\ Working(y) /\ Free(y) /\ ~y.forkFailed /\ ~Master(y).lastErrno /\ NoEmpty(y) /\ ReadFacts(y)
             /\ y.net = x.net /\ y.req = x.req /\ Cur(y) = Cur(x) /\ y.data = x.data
             /\ Master(y).indexIO = Master(x).indexIO + n /\ Master(x).indexIO \in Nat
             /\ Master(y).task = Master(x).task /\ Master(y).openFd = Master(x).openFd
             /\ Master(y).fileSize = Master(x).fileSize /\ Master(y).ioFinish = Master(x).ioFinish
             /\ Master(y).singalStop = Master(x).singalStop
             /\ (\A b \in Ends, k \in Int : RefsBut(x, b, k) => RefsBut(y, b, k))
<1> DEFINE i == x.ctx["m"].indexIO + n
           y == [x EXCEPT !.ctx["m"].indexIO = @ + n]
<1>0. /\ TransferShape(x) /\ OneFile(x) /\ Blocks(x) /\ DiskFits(x) /\ ErrorsKnown(x) /\ FinishMeans(x)
  BY DEF Working, Core
<1>1. /\ DOMAIN x = DOMAIN NoTransfer /\ DOMAIN x.ctx = Ends /\ DOMAIN x.ctx["m"] = DOMAIN NewCtx("none")
      /\ (\A e \in Ends : CtxShape(x.ctx[e])) /\ DOMAIN x.fds = Ends /\ IsFiniteSet(x.req)
      /\ x.forkFailed \in BOOLEAN /\ x.emptyFailed \in BOOLEAN /\ x.ctx["s"].taskQueue = <<>>
  BY <1>0, XferParts, XferEnds
<1>2. /\ y.ctx = [x.ctx EXCEPT !["m"] = [x.ctx["m"] EXCEPT !.indexIO = i]] /\ y.net = x.net /\ y.req = x.req
      /\ SameDisk(x, y) /\ DOMAIN y = DOMAIN x
  BY <1>1 DEF NoTransfer, SameDisk
<1>3. i \in Nat /\ i >= x.ctx["m"].indexIO /\ x.ctx["m"].indexIO \in Nat
  <2>1. CtxShape(x.ctx["m"])
    BY <1>1, XferEnds
  <2> QED BY <2>1 DEF CtxShape
<1>4. i = x.ctx["m"].indexIO + n
  OBVIOUS
<1> HIDE DEF y, i
<1>5. y.ctx["m"] = [x.ctx["m"] EXCEPT !.indexIO = i] /\ y.ctx["s"] = x.ctx["s"] /\ DOMAIN y.ctx = Ends
  BY <1>1, <1>2, XferEnds
<1>6. /\ DOMAIN y.ctx["m"] = DOMAIN x.ctx["m"] /\ y.ctx["m"].isFdOpen = x.ctx["m"].isFdOpen
      /\ y.ctx["m"].openFd = x.ctx["m"].openFd /\ y.ctx["m"].fileSize = x.ctx["m"].fileSize /\ y.ctx["m"].indexIO = i
      /\ y.ctx["m"].ioFinish = x.ctx["m"].ioFinish /\ y.ctx["m"].lastErrno = x.ctx["m"].lastErrno
      /\ y.ctx["m"].closeNotify = x.ctx["m"].closeNotify /\ y.ctx["m"].taskQueue = x.ctx["m"].taskQueue
      /\ y.ctx["m"].refCount = x.ctx["m"].refCount /\ y.ctx["m"].singalStop = x.ctx["m"].singalStop
      /\ y.ctx["m"].task = x.ctx["m"].task
  BY <1>1, <1>5 DEF NewCtx
<1>7. CtxShape(y.ctx["m"])
  <2>1. CtxShape(x.ctx["m"])
    BY <1>1, XferEnds
  <2> QED BY <1>3, <1>6, <2>1, Zenon DEF CtxShape
<1>8. TransferShape(y)
  <2>1. /\ (\A e \in Ends : CtxShape(y.ctx[e])) /\ y.ctx["s"].taskQueue = <<>> /\ Queue(y) = Queue(x)
        /\ (\A q \in y.req : q \in x.req) /\ IsFiniteSet(y.req) /\ DOMAIN y.fds = Ends
        /\ y.forkFailed \in BOOLEAN /\ y.emptyFailed \in BOOLEAN
    BY <1>1, <1>2, <1>5, <1>6, <1>7, XferEnds DEF Queue, Master, SameDisk
  <2> QED BY <1>0, <1>2, <1>5, <2>1, XferShape, Zenon
<1>9. \A e \in Ends : /\ y.ctx[e].task = x.ctx[e].task /\ y.ctx[e].refCount = x.ctx[e].refCount
                      /\ y.ctx[e].isFdOpen = x.ctx[e].isFdOpen /\ y.ctx[e].openFd = x.ctx[e].openFd
                      /\ y.ctx[e].ioFinish = x.ctx[e].ioFinish
  BY <1>5, <1>6, XferEnds
<1>10. OneFile(y)
  <2> SUFFICES ASSUME NEW e \in Ends
               PROVE  /\ y.fds[e] = IF y.ctx[e].isFdOpen THEN {y.ctx[e].openFd} ELSE {}
                      /\ y.ctx[e].ioFinish => ~y.ctx[e].isFdOpen
                      /\ y.ctx[e].task = "deleted" => ~y.ctx[e].isFdOpen /\ \A p \in y.req : p.end # e
    BY DEF OneFile
  <2>1. /\ x.fds[e] = IF x.ctx[e].isFdOpen THEN {x.ctx[e].openFd} ELSE {}
        /\ x.ctx[e].ioFinish => ~x.ctx[e].isFdOpen
        /\ x.ctx[e].task = "deleted" => ~x.ctx[e].isFdOpen /\ \A p \in x.req : p.end # e
    BY <1>0 DEF OneFile
  <2>2. y.fds = x.fds /\ y.req = x.req
    BY <1>2 DEF SameDisk
  <2> QED BY <1>9, <2>1, <2>2
<1>11. /\ Queue(y) = Queue(x) /\ Cur(y) = Cur(x) /\ Slave(y) = Slave(x) /\ (InQueue(y) <=> InQueue(x))
       /\ (MasterReady(y) <=> MasterReady(x)) /\ (SlaveReady(y) <=> SlaveReady(x))
       /\ Master(y).lastErrno = Master(x).lastErrno /\ Master(y).closeNotify = Master(x).closeNotify
       /\ Master(y).indexIO = i /\ Master(x).indexIO \in Nat /\ i \in Nat /\ i >= Master(x).indexIO
       /\ y.made = x.made /\ y.data = x.data /\ y.told = x.told
  BY <1>2, <1>3, <1>5, <1>6 DEF Queue, Cur, Slave, Master, InQueue, MasterReady, SlaveReady, SameDisk
<1>12. /\ Free(y) /\ OneToken(y) /\ RequestFacts(y) /\ MessageFacts(y) /\ WokenFirst(y) /\ Master(y).task # "none"
       /\ (\A e \in Ends : (Closing(x, e) => Closing(y, e)) /\ \A k : Live(y, e, k) <=> Live(x, e, k))
       /\ (NoData(x) <=> NoData(y))
  <2>1. (Queue(y) # <<>> => Queue(x) # <<>>) /\ \A e \in Ends : y.ctx[e].task = x.ctx[e].task
    BY <1>9, <1>11
  <2> QED BY <1>2, <2>1, XferIdle
<1>13. /\ (\A k : IsData(y, k) <=> IsData(x, k)) /\ (\A f : Arrived(y, f) = Arrived(x, f))
       /\ (\A f : Done(y, f) <=> Done(x, f)) /\ NoEmpty(y)
  <2>1. \A f : Arrived(y, f) = Arrived(x, f)
    BY <1>11 DEF Arrived
  <2>2. (\A k : IsData(y, k) <=> IsData(x, k))
    BY <1>2 DEF IsData
  <2>3. NoEmpty(y)
    BY <1>2, <2>2 DEF NoEmpty
  <2> QED BY <1>11, <2>1, <2>2, <2>3 DEF Done
<1>14. Blocks(y)
  <2>1. \A j, m, p : m # 0 /\ BlockFits(x, j, m, p) => BlockFits(y, j, m, p)
    <3> SUFFICES ASSUME NEW j, NEW m, NEW p, m # 0, BlockFits(x, j, m, p) PROVE BlockFits(y, j, m, p)
      OBVIOUS
    <3>1. p = <<Cur(x), j>> /\ m = 1 /\ j \in Nat /\ j \notin Arrived(x, Cur(x)) /\ j < Master(x).indexIO /\ j < xcfg.sizes[Cur(x)]
      BY DEF BlockFits
    <3>2. j < Master(y).indexIO
      BY <1>11, <3>1
    <3> QED BY <1>11, <1>13, <3>1, <3>2 DEF BlockFits
  <2>2. \A k \in 1 .. Len(y.net["s"]) : IsData(y, k) =>
          LET d == y.net["s"][k].arg IN BlockFits(y, d.index, d.n, RecvIOPayload(d.payload))
    BY <1>0, <1>2, <1>13, <2>1 DEF Blocks, NoEmpty
  <2>3. \A r \in y.req : r.op = "write" =>
          /\ r.file = Cur(y) /\ r.index = <<r.index[1], r.index[2], r.index[3]>>
          /\ BlockFits(y, r.index[1], r.index[2], r.index[3])
          /\ \A k \in 1 .. Len(y.net["s"]) : IsData(y, k) => y.net["s"][k].arg.index # r.index[1]
    BY <1>0, <1>2, <1>11, <1>13, <2>1 DEF Blocks, NoEmpty
  <2>4. ~NoData(y) => InQueue(y) /\ SlaveReady(y) /\ MasterReady(y)
    BY <1>11 DEF ReadFacts
  <2>5. /\ \A k, j \in 1 .. Len(y.net["s"]) :
             IsData(y, k) /\ IsData(y, j) /\ y.net["s"][k].arg.index = y.net["s"][j].arg.index => k = j
        /\ \A r, p \in y.req : r.op = "write" /\ p.op = "write" /\ r.index[1] = p.index[1] => r = p
    BY <1>0, <1>2, <1>13 DEF Blocks
  <2> QED BY <2>2, <2>3, <2>4, <2>5 DEF Blocks
<1>15. DiskFits(y)
  <2>1. SlaveReady(x) /\ MasterReady(x) => Arrived(x, Cur(x)) \subseteq 0 .. (i - 1)
    <3>1. SlaveReady(x) /\ MasterReady(x) => Arrived(x, Cur(x)) \subseteq 0 .. (Master(x).indexIO - 1)
      BY <1>0 DEF DiskFits
    <3>2. 0 .. (Master(x).indexIO - 1) \subseteq 0 .. (i - 1)
      BY <1>11
    <3> QED BY <3>1, <3>2
  <2> QED BY <1>0, <1>11, <1>13, <2>1 DEF DiskFits
<1>16. ErrorsKnown(y)
  <2>1. SlaveErrors(y)
    BY <1>2, <1>5, <1>6, XferSlaveErrors
  <2>2. ~Master(y).lastErrno /\ ~Master(y).closeNotify /\ ~y.forkFailed
    BY <1>0, <1>2, <1>11 DEF ErrorsKnown, SameDisk
  <2> QED BY <2>1, <2>2 DEF ErrorsKnown, SlaveErrors
<1>17. FinishMeans(y)
  <2>1. AllDone(y) <=> AllDone(x)
    BY <1>13 DEF AllDone
  <2>2. (\A k : Live(y, "m", k) <=> Live(x, "m", k)) /\ Master(y).task = Master(x).task
    BY <1>6, <1>12, XferEnds DEF Master
  <2>3. y.summary = x.summary /\ y.emptyFailed = x.emptyFailed /\ y.net = x.net
    BY <1>2 DEF SameDisk
  <2> QED BY <1>0, <1>11, <1>13, <2>1, <2>2, <2>3 DEF FinishMeans
<1>18. Working(y)
  BY <1>8, <1>10, <1>12, <1>14, <1>15, <1>16, <1>17 DEF Working, Core
<1>19. ReadFacts(y)
  BY <1>11 DEF ReadFacts
<1>20. \A b \in Ends, k \in Int : RefsBut(x, b, k) => RefsBut(y, b, k)
  BY <1>2, <1>9, XferRefsSame DEF SameDisk
<1>21. /\ Master(y).task = Master(x).task /\ Master(y).openFd = Master(x).openFd
       /\ Master(y).fileSize = Master(x).fileSize /\ Master(y).ioFinish = Master(x).ioFinish
       /\ Master(y).singalStop = Master(x).singalStop /\ ~y.forkFailed /\ Master(y).indexIO = Master(x).indexIO + n
  BY <1>2, <1>4, <1>6, <1>11 DEF Master, SameDisk
<1> QED BY <1>2, <1>11, <1>12, <1>13, <1>18, <1>19, <1>20, <1>21 DEF y, i

\* ProcressFileIORead: the block is sent, and the next one is read.
LEMMA XferReadBlock ==
  ASSUME PlanFits, NEW v, Working(v), Free(v), ~v.forkFailed, ~Master(v).lastErrno, ReadFacts(v), NoEmpty(v),
         RefsBut(v, "m", 1), Master(v).task \in {"run", "stopped"}, ~Master(v).ioFinish,
         NEW r, r.op = "read", r.file = Cur(v), r.index = Master(v).indexIO,
         r.index < xcfg.sizes[Cur(v)] \/ (xcfg.sizes[Cur(v)] = 0 /\ r.index = 0),
         NEW n, n = IF r.index < Available(r.file) THEN 1 ELSE 0,
         NEW p, p = ProcressFileIORead(v, r, n),
         NEW z \in IF p.finished THEN ProcressFileIOFinish([p.x EXCEPT !.ctx["m"].ioFinish = p.finished], "m")
                   ELSE {[p.x EXCEPT !.ctx["m"].ioFinish = p.finished]}
  PROVE  Good(DropRef(z, "m"))
<1> DEFINE d == [n |-> n, index |-> r.index, payload |-> SendIOPayload(r.file, r.index)]
           y == [v EXCEPT !.ctx["m"].indexIO = @ + n]
           u == SendToAnother(y, "m", "DATA", d)
           c == [cmd |-> "DATA", arg |-> d]
           f == Cur(v)
<1>0. "m" \in Ends /\ 1 \in Int /\ OtherEnd("m") = "s" /\ n \in {0, 1}
  BY XferEnds, SMTT(30)
<1>1. f \in Files /\ xcfg.sizes[f] \in Nat /\ r.index \in Nat
  <2>1. CtxShape(v.ctx["m"])
    BY XferParts, XferEnds DEF Working, Core
  <2> QED BY <2>1 DEF ReadFacts, InQueue, PlanFits, CtxShape, Master
<1>2. /\ Working(y) /\ Free(y) /\ ~y.forkFailed /\ ~Master(y).lastErrno /\ NoEmpty(y) /\ ReadFacts(y)
      /\ y.net = v.net /\ y.req = v.req /\ Cur(y) = f /\ y.data = v.data
      /\ Master(y).indexIO = r.index + n
      /\ Master(y).task = Master(v).task /\ Master(y).openFd = Master(v).openFd
      /\ Master(y).fileSize = Master(v).fileSize /\ Master(y).ioFinish = Master(v).ioFinish
      /\ Master(y).singalStop = Master(v).singalStop
  <2>0. n \in {0, 1}
    BY <1>0
  <2>1. /\ Working(y) /\ Free(y) /\ ~y.forkFailed /\ ~Master(y).lastErrno /\ NoEmpty(y) /\ ReadFacts(y)
        /\ y.net = v.net /\ y.req = v.req /\ Cur(y) = f /\ y.data = v.data
    <3>1. /\ Working(y) /\ Free(y) /\ NoEmpty(y) /\ ReadFacts(y)
      BY <2>0, XferIndexed
    <3>2. ~y.forkFailed /\ ~Master(y).lastErrno
      BY <2>0, XferIndexed
    <3>3. Cur(y) = f
      BY <2>0, XferIndexed
    <3>4. y.net = v.net /\ y.req = v.req /\ y.data = v.data
      <4>1. DOMAIN v = DOMAIN NoTransfer
        BY XferParts DEF Working, Core
      <4> QED BY <4>1 DEF NoTransfer
    <3> QED BY <3>1, <3>2, <3>3, <3>4
  <2>2. Master(y).indexIO = Master(v).indexIO + n
    BY <1>0, XferIndexed
  <2>3. /\ Master(y).task = Master(v).task /\ Master(y).openFd = Master(v).openFd
        /\ Master(y).fileSize = Master(v).fileSize /\ Master(y).ioFinish = Master(v).ioFinish
        /\ Master(y).singalStop = Master(v).singalStop
    BY <1>0, XferIndexed
  <2> HIDE DEF y
  <2> QED BY <2>1, <2>2, <2>3
<1>3. RefsBut(y, "m", 1)
  <2>1. \A b \in Ends, k \in Int : RefsBut(v, b, k) => RefsBut(y, b, k)
    BY <1>0, XferIndexed, Zenon
  <2> QED BY <1>0, <2>1
<1>4. p = IF n = 0 \/ y.ctx["m"].singalStop \/ y.ctx["m"].indexIO >= y.ctx["m"].fileSize
          THEN [x |-> u, finished |-> TRUE]
          ELSE [x |-> SimpleFileIO(u, "m", "read", y.ctx["m"].openFd, y.ctx["m"].indexIO), finished |-> FALSE]
  BY Zenon DEF ProcressFileIORead
<1>5. d.n = n /\ d.index = r.index /\ d.payload = SendIOPayload(r.file, r.index) /\ c.cmd = "DATA" /\ c.arg = d
  OBVIOUS
<1>6. RecvIOPayload(d.payload) = <<f, r.index>>
  BY <1>5 DEF RecvIOPayload, SendIOPayload
<1>7. /\ xcfg.shrinks \/ n = 1 \/ xcfg.sizes[f] = 0
      /\ n = 1 => r.index < xcfg.sizes[f]
  <2>1. Available(f) = xcfg.sizes[f] \/ (xcfg.shrinks /\ Available(f) = xcfg.sizes[f] - 1)
    BY Zenon DEF Available
  <2>2. n = IF r.index < Available(f) THEN 1 ELSE 0
    OBVIOUS
  <2> HIDE DEF f
  <2> QED BY <1>1, <2>1, <2>2 DEF f
<1> HIDE DEF y, d, c
<1>8. MaySend(y, "s", c)
  <2>1. BlockFits(y, d.index, d.n, RecvIOPayload(d.payload))
    <3>1. r.index \notin Arrived(y, f)
      <4>1. Arrived(v, f) \subseteq 0 .. (Master(v).indexIO - 1)
        BY DEF Working, Core, DiskFits, ReadFacts
      <4>2. Arrived(y, f) = Arrived(v, f)
        BY <1>2 DEF Arrived
      <4> QED BY <1>1, <4>1, <4>2
    <3>2. \A q \in y.req : q.op # "read"
      BY <1>2 DEF Free, TokenIn
    <3>3. n = 1 => r.index < Master(y).indexIO
      BY <1>1, <1>2
    <3>4. n = 0 => r.index = Master(y).indexIO
      BY <1>1, <1>2
    <3> QED BY <1>0, <1>1, <1>2, <1>5, <1>6, <1>7, <3>1, <3>2, <3>3, <3>4 DEF BlockFits
  <2>2. /\ \A i \in 1 .. Len(y.net["s"]) : IsData(y, i) => y.net["s"][i].arg.index # d.index
        /\ \A q \in y.req : q.op = "write" => q.index[1] # d.index
    <3>1. \A j, m, t : BlockFits(v, j, m, t) /\ m # 0 => j # r.index
      <4> SUFFICES ASSUME NEW j, NEW m, NEW t, BlockFits(v, j, m, t), m # 0, j = r.index PROVE FALSE
        OBVIOUS
      <4>1. j < Master(v).indexIO /\ j \in Nat
        BY DEF BlockFits
      <4> QED BY <1>1, <4>1
    <3>2. Blocks(v)
      BY DEF Working, Core
    <3>3. \A i : IsData(y, i) <=> IsData(v, i)
      BY <1>2 DEF IsData
    <3> QED BY <1>2, <1>5, <3>1, <3>2, <3>3 DEF Blocks, NoEmpty
  <2>3. ~Control(y, "s", c) /\ c.cmd \in Commands("s") \ {"WAKEUP_SLAVETASK"}
    BY <1>5 DEF Control, Commands, ToSlaveCommands
  <2>4. InQueue(y) /\ SlaveReady(y) /\ MasterReady(y)
    BY <1>2 DEF ReadFacts
  <2> QED BY <1>2, <1>5, <2>1, <2>2, <2>3, <2>4 DEF MaySend
<1>9. Sent(y, u) /\ Free(u) /\ (n # 0 => NoEmpty(u))
  <2>1. ~Control(y, "s", c)
    BY <1>5 DEF Control
  <2> QED BY <1>0, <1>2, <1>5, <1>8, <2>1, XferSendTo DEF c
<1> HIDE DEF u
<1>10. /\ Working(u) /\ u.ctx = y.ctx /\ RefsBut(u, "m", 1) /\ ~u.forkFailed /\ Master(u) = Master(y)
       /\ u.req = y.req /\ u.made = y.made
  BY <1>0, <1>2, <1>3, <1>9, Zenon DEF Sent, SameDisk, Master
<1>11. CASE n = 0 \/ y.ctx["m"].singalStop \/ y.ctx["m"].indexIO >= y.ctx["m"].fileSize
  <2>1. p.x = u /\ p.finished = TRUE
    BY <1>4, <1>11
  <2>2. z \in ProcressFileIOFinish([u EXCEPT !.ctx["m"].ioFinish = TRUE], "m")
    BY <2>1
  <2> QED BY <1>2, <1>9, <1>10, <2>2, XferReadEnds
<1>12. CASE ~(n = 0 \/ y.ctx["m"].singalStop \/ y.ctx["m"].indexIO >= y.ctx["m"].fileSize)
  <2> DEFINE q == Request(u, "m", "read", Master(u).openFd, Master(u).indexIO)
             t == [q EXCEPT !.ctx["m"].ioFinish = FALSE]
  <2>1. p.x = q /\ p.finished = FALSE
    <3>1. p = [x |-> SimpleFileIO(u, "m", "read", y.ctx["m"].openFd, y.ctx["m"].indexIO), finished |-> FALSE]
      BY <1>4, <1>12, Zenon
    <3>2. ~u.ctx["m"].ioFinish /\ y.ctx["m"] = Master(u)
      BY <1>2, <1>10, Zenon DEF Master
    <3>3. SimpleFileIO(u, "m", "read", y.ctx["m"].openFd, y.ctx["m"].indexIO) = q
      BY <3>2 DEF SimpleFileIO
    <3> HIDE DEF q
    <3> QED BY <3>1, <3>3
  <2>2. z = t
    BY <2>1
  <2>3. NoEmpty(u) /\ Cur(u) = f /\ ReadFacts(u) /\ Master(u).indexIO < xcfg.sizes[f]
    <3>1. Cur(u) = f /\ ReadFacts(u)
      BY <1>2, <1>10 DEF ReadFacts, Cur, Queue, InQueue, MasterReady, SlaveReady, Slave
    <3>2. ~(Master(u).indexIO >= Master(u).fileSize) /\ Master(u).fileSize = xcfg.sizes[f] /\ Master(u).indexIO \in Nat
      <4>1. Master(u).fileSize = xcfg.sizes[f]
        BY <3>1 DEF ReadFacts, MasterReady
      <4>2. Master(u).indexIO = r.index + n
        BY <1>2, <1>10
      <4>3. Master(u).indexIO \in Nat
        BY <1>0, <1>1, <4>2, SMTT(30)
      <4>4. ~(Master(u).indexIO >= Master(u).fileSize)
        BY <1>10, <1>12 DEF Master
      <4> QED BY <4>1, <4>3, <4>4
    <3> QED BY <1>1, <1>9, <1>12, <3>1, <3>2, SMTT(30)
  <2>4. Working(q) /\ Held(q) /\ RefsBut(q, "m", 1)
    <3>1. \A b \in Ends, k \in Int : RefsBut(u, b, k) => RefsBut(q, b, k)
      BY <1>2, <1>9, <1>10, <2>3, XferMasterRead
    <3>2. Working(q) /\ Held(q)
      BY <1>2, <1>9, <1>10, <2>3, XferMasterRead
    <3> QED BY <1>0, <1>10, <3>1, <3>2
  <2>5. ~q.ctx["m"].ioFinish
    <3>1. ReqShape([end |-> "m", op |-> "read", file |-> Master(u).openFd, index |-> Master(u).indexIO])
      BY <1>0 DEF ReqShape
    <3>2. TransferShape(u)
      BY <1>10 DEF Working, Core
    <3>3. Kept(u.ctx["m"], q.ctx["m"])
      BY <1>0, <3>1, <3>2, XferRequest
    <3> QED BY <1>2, <1>10, <3>3, Zenon DEF Kept, Master
  <2> HIDE DEF q
  <2>6. Like(q, t) /\ RefsBut(t, "m", 1)
    <3>1. TransferShape(q)
      BY <2>4 DEF Working, Core
    <3> QED BY <1>0, <2>4, <2>5, <3>1, XferNotFinished
  <2> HIDE DEF t
  <2>7. Working(t) /\ Held(t)
    BY <2>4, <2>6, XferLike
  <2> QED BY <1>0, <2>2, <2>6, <2>7, XferDropOne
<1> QED BY <1>11, <1>12

\* ProcressFileIO: the three cases.
LEMMA XferFileIO ==
  ASSUME NEW v, NEW r, NEW error \in BOOLEAN
  PROVE  /\ v.ctx[r.end].ioFinish => ProcressFileIO(v, r, error) = [x |-> v, finished |-> TRUE]
         /\ ~v.ctx[r.end].ioFinish /\ error =>
              ProcressFileIO(v, r, error) = [x |-> IF r.end = "s" THEN FileFinish(Failed(v, r.end), r.end, 0)
                                                   ELSE Failed(v, r.end), finished |-> TRUE]
         /\ ~v.ctx[r.end].ioFinish /\ ~error =>
              LET n == IF r.op = "write" THEN r.index[2] ELSE IF r.index < Available(r.file) THEN 1 ELSE 0
              IN  ProcressFileIO(v, r, error) = IF r.end = "m" THEN ProcressFileIORead(v, r, n)
                                                ELSE ProcressFileIOWrite(v, r, n)
<1> DEFINE n == CASE r.op = "write" -> r.index[2] [] OTHER -> IF r.index < Available(r.file) THEN 1 ELSE 0
           k == IF r.op = "write" THEN r.index[2] ELSE IF r.index < Available(r.file) THEN 1 ELSE 0
           F == Failed(v, r.end)
           G == [x |-> IF r.end = "s" THEN FileFinish(F, r.end, 0) ELSE F, finished |-> TRUE]
           H == IF r.end = "m" THEN ProcressFileIORead(v, r, n) ELSE ProcressFileIOWrite(v, r, n)
<1>1. n = k
  OBVIOUS
<1>2. ProcressFileIO(v, r, error) =
        CASE v.ctx[r.end].ioFinish -> [x |-> v, finished |-> TRUE]
          [] ~v.ctx[r.end].ioFinish /\ error -> G
          [] OTHER -> H
  BY Zenon DEF ProcressFileIO, Failed
<1> HIDE DEF n, k, F, G, H
<1>3. /\ v.ctx[r.end].ioFinish => ProcressFileIO(v, r, error) = [x |-> v, finished |-> TRUE]
      /\ ~v.ctx[r.end].ioFinish /\ error => ProcressFileIO(v, r, error) = G
      /\ ~v.ctx[r.end].ioFinish /\ ~error => ProcressFileIO(v, r, error) = H
  BY <1>2
<1>4. H = IF r.end = "m" THEN ProcressFileIORead(v, r, k) ELSE ProcressFileIOWrite(v, r, k)
  BY <1>1 DEF H
<1> QED BY <1>3, <1>4, Zenon DEF G, F, k

\* OnFileIO: a read of the master has completed.
LEMMA XferReadStep ==
  ASSUME PlanFits, NEW x, Good(x), NEW r \in x.req, r.op = "read", x.ctx[r.end].task \in {"run", "stopped"},
         NEW error \in BOOLEAN, NEW p, p = ProcressFileIO(Written(Without(x, r), r, error), r, error),
         NEW z \in IF p.finished THEN ProcressFileIOFinish([p.x EXCEPT !.ctx[r.end].ioFinish = p.finished], r.end)
                   ELSE {[p.x EXCEPT !.ctx[r.end].ioFinish = p.finished]}
  PROVE  Good(DropRef(z, r.end))
<1> DEFINE v == Without(x, r)
           n == IF r.index < Available(r.file) THEN 1 ELSE 0
<1>1. /\ Working(v) /\ Free(v) /\ ~v.forkFailed /\ ~Master(v).lastErrno /\ ReadFacts(v) /\ NoEmpty(v)
      /\ (xcfg.sizes[Cur(v)] = 0 => NoData(v))
      /\ v.ctx = x.ctx /\ RefsBut(v, "m", 1) /\ r.end = "m" /\ r.file = Cur(v) /\ r.index = Master(v).indexIO
      /\ (r.index < xcfg.sizes[Cur(v)] \/ (xcfg.sizes[Cur(v)] = 0 /\ r.index = 0))
  BY XferReadFacts
<1>2. p = ProcressFileIO(v, r, error)
  BY DEF Written
<1> HIDE DEF v
<1>3. Master(v).task \in {"run", "stopped"}
  BY <1>1 DEF Master
<1>4. CASE v.ctx["m"].ioFinish
  <2>1. p.x = v /\ p.finished = TRUE
    BY <1>1, <1>2, <1>4, XferFileIO
  <2>2. z \in ProcressFileIOFinish([v EXCEPT !.ctx["m"].ioFinish = TRUE], "m")
    BY <1>1, <2>1
  <2> QED BY <1>1, <1>3, <2>2, XferReadEnds
<1>5. CASE ~v.ctx["m"].ioFinish /\ error
  <2>1. p.x = Failed(v, "m") /\ p.finished = TRUE
    <3>1. p = [x |-> IF r.end = "s" THEN FileFinish(Failed(v, r.end), r.end, 0) ELSE Failed(v, r.end), finished |-> TRUE]
      <4>1. ~v.ctx[r.end].ioFinish /\ error
        BY <1>1, <1>5
      <4> QED BY <1>2, <4>1, XferFileIO, ZenonT(40)
    <3> QED BY <1>1, <3>1
  <2>2. z \in ProcressFileIOFinish([Failed(v, "m") EXCEPT !.ctx["m"].ioFinish = TRUE], "m")
    BY <1>1, <2>1
  <2>3. Master(v).indexIO < xcfg.sizes[Cur(v)] \/ xcfg.sizes[Cur(v)] = 0
    BY <1>1
  <2> QED BY <1>1, <1>3, <2>2, <2>3, XferReadFails
<1>6. CASE ~v.ctx["m"].ioFinish /\ ~error
  <2>1. p = ProcressFileIORead(v, r, n)
    BY <1>1, <1>2, <1>6, XferFileIO
  <2>2. z \in IF p.finished THEN ProcressFileIOFinish([p.x EXCEPT !.ctx["m"].ioFinish = p.finished], "m")
              ELSE {[p.x EXCEPT !.ctx["m"].ioFinish = p.finished]}
    BY <1>1
  <2>3. ~Master(v).ioFinish /\ n = IF r.index < Available(r.file) THEN 1 ELSE 0
    BY <1>6 DEF Master
  <2> HIDE DEF n
  <2> QED BY <1>1, <1>3, <2>1, <2>2, <2>3, XferReadBlock
<1> QED BY <1>4, <1>5, <1>6

\* What is known of a block r that has been given to the pool, once the pool
\* is done with it.
WriteFacts(v, r) ==
  /\ r.end = "s" /\ r.file = Cur(v) /\ r.index = <<r.index[1], r.index[2], <<Cur(v), r.index[1]>>>>
  /\ r.index[2] \in {0, 1} /\ r.index[1] \in Nat /\ r.index[1] \notin Arrived(v, Cur(v))
  /\ r.index[2] = 1 => r.index[1] < Master(v).indexIO /\ r.index[1] < xcfg.sizes[Cur(v)]
  /\ r.index[2] = 0 => /\ r.index[1] = Master(v).indexIO /\ (\A q \in v.req : q.op # "read") /\ ~Master(v).lastErrno
                       /\ ~xcfg.shrinks => xcfg.sizes[Cur(v)] = 0
  /\ NoMessage(v) /\ ~v.forkFailed /\ (\A q \in v.req : q.op \in {"read", "write"})
  /\ InQueue(v) /\ SlaveReady(v) /\ MasterReady(v)
  /\ (\A i \in 1 .. Len(v.net["s"]) : IsData(v, i) => v.net["s"][i].arg.index # r.index[1])
  /\ (\A q \in v.req : q.op = "write" => q.index[1] # r.index[1])
  /\ Master(v).isFdOpen => \E q \in v.req : q.op = "read"
  /\ ~xcfg.shrinks /\ Slave(v).closeNotify => Slave(v).lastErrno

\* These facts hold of every write that the invariant allows.
LEMMA XferWriteFacts ==
  ASSUME NEW x, Good(x), NEW r \in x.req, r.op = "write"
  PROVE  LET v == Without(x, r)
         IN  Working(v) /\ v.ctx = x.ctx /\ RefsBut(v, "s", 1) /\ WriteFacts(v, r)
<1> DEFINE v == Without(x, r)
<1>0. Working(x) /\ TransferShape(x) /\ Blocks(x) /\ RefsCount(x) /\ Held(x) /\ ErrorsKnown(x) /\ ~NoData(x)
  BY XferGoodParts DEF Working, Core, Good, NoData
<1>1. r.end = "s"
  BY <1>0 DEF TransferShape, ReqShape
<1>2. /\ NoMessage(x) /\ ~x.forkFailed /\ (\A q \in x.req : q.op \in {"read", "write"})
      /\ InQueue(x) /\ SlaveReady(x) /\ MasterReady(x)
  BY <1>0, XferBusy
<1>3. /\ Calm(x, v) /\ v.ctx = x.ctx /\ v.net = x.net /\ SameDisk(x, v) /\ v.req = x.req \ {r} /\ RefsBut(v, "s", 1)
  BY <1>0, <1>1, XferWithout
<1> HIDE DEF v
<1>4. /\ Working(v) /\ Cur(v) = Cur(x) /\ InQueue(v) /\ SlaveReady(v) /\ MasterReady(v) /\ Master(v) = Master(x)
      /\ Slave(v) = Slave(x) /\ Queue(v) = Queue(x)
  BY <1>2, <1>3 DEF Calm, Master, Slave
<1>5. NoMessage(v)
  BY <1>2, <1>3, <1>4 DEF NoMessage, TokenAt, Live, Control
<1>6. (\A i : IsData(v, i) <=> IsData(x, i)) /\ \A f : Arrived(v, f) = Arrived(x, f)
  BY <1>3 DEF IsData, Arrived, SameDisk
<1>7. /\ r.file = Cur(x) /\ r.index = <<r.index[1], r.index[2], r.index[3]>>
      /\ BlockFits(x, r.index[1], r.index[2], r.index[3])
      /\ \A i \in 1 .. Len(x.net["s"]) : IsData(x, i) => x.net["s"][i].arg.index # r.index[1]
      /\ \A q \in x.req : q.op = "write" /\ q.index[1] = r.index[1] => q = r
  BY <1>0 DEF Blocks
<1>8. /\ r.index[3] = <<Cur(x), r.index[1]>> /\ r.index[2] \in {0, 1} /\ r.index[1] \in Nat
      /\ r.index[1] \notin Arrived(x, Cur(x))
      /\ (r.index[2] = 1 => r.index[1] < Master(x).indexIO /\ r.index[1] < xcfg.sizes[Cur(x)])
      /\ (r.index[2] = 0 => /\ r.index[1] = Master(x).indexIO /\ (\A q \in x.req : q.op # "read") /\ ~Master(x).lastErrno
                            /\ ~xcfg.shrinks => xcfg.sizes[Cur(x)] = 0)
  BY <1>7 DEF BlockFits
<1>9. Master(v).isFdOpen => \E q \in v.req : q.op = "read"
  BY <1>0, <1>3, <1>4 DEF Held
<1>10. ~xcfg.shrinks /\ Slave(v).closeNotify => Slave(v).lastErrno
  BY <1>0, <1>4 DEF ErrorsKnown
<1>11. r.index = <<r.index[1], r.index[2], <<Cur(v), r.index[1]>>>>
  BY <1>4, <1>7, <1>8
<1>12. ~v.forkFailed /\ (\A q \in v.req : q \in x.req /\ q # r)
  BY <1>2, <1>3 DEF SameDisk
<1>13. /\ (\A q \in v.req : q.op \in {"read", "write"}) /\ (\A q \in v.req : q.op = "write" => q.index[1] # r.index[1])
       /\ (\A i \in 1 .. Len(v.net["s"]) : IsData(v, i) => v.net["s"][i].arg.index # r.index[1])
  BY <1>2, <1>3, <1>6, <1>7, <1>12
<1>14. /\ (r.index[2] = 0 => /\ r.index[1] = Master(v).indexIO /\ (\A q \in v.req : q.op # "read") /\ ~Master(v).lastErrno
                             /\ ~xcfg.shrinks => xcfg.sizes[Cur(v)] = 0)
       /\ (r.index[2] = 1 => r.index[1] < Master(v).indexIO /\ r.index[1] < xcfg.sizes[Cur(v)])
       /\ r.index[1] \notin Arrived(v, Cur(v))
  BY <1>4, <1>6, <1>8, <1>12
<1>15. WriteFacts(v, r)
  BY <1>1, <1>4, <1>5, <1>7, <1>8, <1>9, <1>10, <1>11, <1>12, <1>13, <1>14 DEF WriteFacts
<1> QED BY <1>3, <1>4, <1>15 DEF v

\* A state in which the pool is done with a block: it is on the disk unless
\* it was empty, and the slave may have counted it.
Wrote(v, r, y) ==
  /\ TransferShape(y) /\ y.net = v.net /\ y.req = v.req /\ y.made = v.made /\ y.told = v.told /\ y.summary = v.summary
  /\ y.forkFailed = v.forkFailed /\ y.emptyFailed = v.emptyFailed /\ y.fds = v.fds /\ y.ctx["m"] = v.ctx["m"]
  /\ y.data = v.data \cup (IF r.index[2] = 1 THEN {<<r.file, r.index[1], r.index[3]>>} ELSE {})
  /\ LET c == v.ctx["s"]
         d == y.ctx["s"]
     IN  /\ d.isFdOpen = c.isFdOpen /\ d.openFd = c.openFd /\ d.fileSize = c.fileSize /\ d.ioFinish = c.ioFinish
         /\ d.lastErrno = c.lastErrno /\ d.closeNotify = c.closeNotify /\ d.taskQueue = c.taskQueue
         /\ d.refCount = c.refCount /\ d.singalStop = c.singalStop /\ d.task = c.task
         /\ c.ioFinish \/ d.indexIO = c.indexIO + r.index[2]

\* A block that is written is one more block of the file, and of no other.
LEMMA XferOneMore ==
  ASSUME PlanFits, NEW v, Working(v), NEW r, WriteFacts(v, r), NEW y, Wrote(v, r, y)
  PROVE  LET f == Cur(v)
             B == IF r.index[2] = 1 THEN {r.index[1]} ELSE {}
         IN  /\ Arrived(y, f) = Arrived(v, f) \cup B /\ IsFiniteSet(Arrived(v, f))
             /\ Cardinality(Arrived(v, f)) \in Nat
             /\ Cardinality(Arrived(y, f)) = Cardinality(Arrived(v, f)) + r.index[2]
             /\ \A g : Arrived(v, g) \subseteq Arrived(y, g)
             /\ xcfg.sizes[f] \in Nat
<1> DEFINE f == Cur(v)
           j == r.index[1]
           n == r.index[2]
           B == IF n = 1 THEN {j} ELSE {}
           E == IF n = 1 THEN {<<f, j, <<f, j>>>>} ELSE {}
<1>1. /\ r.file = f /\ r.index[3] = <<f, j>> /\ n \in {0, 1} /\ j \in Nat /\ j \notin Arrived(v, f)
      /\ (n = 1 => j < xcfg.sizes[f]) /\ f \in Files
  BY DEF WriteFacts, InQueue
<1>2. xcfg.sizes[f] \in Nat
  BY <1>1 DEF PlanFits
<1>3. y.data = v.data \cup E
  BY <1>1 DEF Wrote
<1>4. \A g : Arrived(v, g) \subseteq Arrived(y, g)
  BY <1>3 DEF Arrived
<1>5. Arrived(y, f) = Arrived(v, f) \cup B
  <2>1. ASSUME NEW i \in Blk(f) PROVE <<f, i, <<f, i>>>> \in E <=> i \in B
    OBVIOUS
  <2>2. n = 1 => j \in Blk(f)
    BY <1>1, <1>2 DEF Blk
  <2> QED BY <1>3, <2>1, <2>2 DEF Arrived
<1>6. IsFiniteSet(Arrived(v, f))
  <2>1. IsFiniteSet(Blk(f))
    BY <1>2, FS_Interval DEF Blk
  <2> QED BY <2>1, FS_Subset DEF Arrived
<1>7. Cardinality(Arrived(v, f)) \in Nat
  BY <1>6, FS_CardinalityType
<1>8. Cardinality(Arrived(y, f)) = Cardinality(Arrived(v, f)) + n
  <2>1. CASE n = 1
    <3>1. Arrived(y, f) = Arrived(v, f) \cup {j}
      BY <1>5, <2>1
    <3> QED BY <1>1, <1>6, <2>1, <3>1, FS_AddElement
  <2>2. CASE n = 0
    <3>1. Arrived(y, f) = Arrived(v, f)
      BY <1>5, <2>2
    <3> QED BY <1>7, <2>2, <3>1
  <2> QED BY <1>1, <2>1, <2>2
<1> QED BY <1>2, <1>4, <1>5, <1>6, <1>7, <1>8

\* The invariant when the pool is done with a block.
LEMMA XferArrival ==
  ASSUME PlanFits, NEW v, Working(v), NEW r, WriteFacts(v, r), NEW y, Wrote(v, r, y)
  PROVE  /\ Working(y) /\ Cur(y) = Cur(v) /\ Queue(y) = Queue(v) /\ Master(y) = Master(v) /\ InQueue(y)
         /\ SlaveReady(y) /\ MasterReady(y) /\ NoMessage(y) /\ (NoData(v) => NoData(y))
         /\ (\A b \in Ends, k \in Int : RefsBut(v, b, k) => RefsBut(y, b, k))
<1> DEFINE f == Cur(v)
           j == r.index[1]
           n == r.index[2]
<1>0. /\ TransferShape(v) /\ OneFile(v) /\ OneToken(v) /\ RequestFacts(v) /\ Blocks(v) /\ DiskFits(v) /\ ErrorsKnown(v)
      /\ FinishMeans(v) /\ WokenFirst(v) /\ Master(v).task # "none"
  BY DEF Working, Core
<1>1. /\ r.file = f /\ r.index[3] = <<f, j>> /\ n \in {0, 1} /\ j \in Nat /\ j \notin Arrived(v, f)
      /\ (n = 1 => j < Master(v).indexIO /\ j < xcfg.sizes[f]) /\ f \in Files /\ NoMessage(v) /\ ~v.forkFailed
      /\ (\A q \in v.req : q.op \in {"read", "write"}) /\ InQueue(v) /\ SlaveReady(v) /\ MasterReady(v)
      /\ (\A i \in 1 .. Len(v.net["s"]) : IsData(v, i) => v.net["s"][i].arg.index # j)
      /\ (\A q \in v.req : q.op = "write" => q.index[1] # j)
  BY DEF WriteFacts, InQueue
<1>2. /\ Arrived(y, f) = Arrived(v, f) \cup (IF n = 1 THEN {j} ELSE {}) /\ Cardinality(Arrived(v, f)) \in Nat
      /\ Cardinality(Arrived(y, f)) = Cardinality(Arrived(v, f)) + n
      /\ (\A g : Arrived(v, g) \subseteq Arrived(y, g)) /\ xcfg.sizes[f] \in Nat
  BY XferOneMore
<1>3. /\ TransferShape(y) /\ y.net = v.net /\ y.req = v.req /\ y.made = v.made /\ y.told = v.told /\ y.summary = v.summary
      /\ y.forkFailed = v.forkFailed /\ y.emptyFailed = v.emptyFailed /\ y.fds = v.fds /\ y.ctx["m"] = v.ctx["m"]
      /\ Master(y) = Master(v) /\ Queue(y) = Queue(v) /\ Cur(y) = f /\ InQueue(y) /\ MasterReady(y) /\ SlaveReady(y)
  BY <1>1 DEF Wrote, Master, Queue, Cur, InQueue, MasterReady, SlaveReady, Slave
<1>4. \A e \in Ends : /\ y.ctx[e].task = v.ctx[e].task /\ y.ctx[e].isFdOpen = v.ctx[e].isFdOpen
                      /\ y.ctx[e].openFd = v.ctx[e].openFd /\ y.ctx[e].ioFinish = v.ctx[e].ioFinish
                      /\ y.ctx[e].lastErrno = v.ctx[e].lastErrno /\ y.ctx[e].closeNotify = v.ctx[e].closeNotify
                      /\ y.ctx[e].singalStop = v.ctx[e].singalStop /\ y.ctx[e].refCount = v.ctx[e].refCount
  BY XferEnds DEF Wrote
<1>5. \A e \in Ends : (Closing(y, e) <=> Closing(v, e)) /\ \A i : Live(y, e, i) <=> Live(v, e, i)
  BY <1>3, <1>4 DEF Closing, Live
<1>6. NoMessage(y)
  BY <1>1, <1>3, <1>5 DEF NoMessage, TokenAt, Control
<1>7. WokenFirst(y) /\ Master(y).task # "none"
  <2>1. Master(y).task # "none" /\ Slave(y).task = Slave(v).task
    BY <1>0, <1>3, <1>4, XferEnds DEF Slave
  <2> QED BY <1>0, <1>3, <2>1 DEF WokenFirst
<1>8. OneFile(y)
  <2> SUFFICES ASSUME NEW e \in Ends
               PROVE  /\ y.fds[e] = IF y.ctx[e].isFdOpen THEN {y.ctx[e].openFd} ELSE {}
                      /\ y.ctx[e].ioFinish => ~y.ctx[e].isFdOpen
                      /\ y.ctx[e].task = "deleted" => ~y.ctx[e].isFdOpen /\ \A p \in y.req : p.end # e
    BY DEF OneFile
  <2>1. /\ v.fds[e] = IF v.ctx[e].isFdOpen THEN {v.ctx[e].openFd} ELSE {}
        /\ v.ctx[e].ioFinish => ~v.ctx[e].isFdOpen
        /\ v.ctx[e].task = "deleted" => ~v.ctx[e].isFdOpen /\ \A p \in v.req : p.end # e
    BY <1>0 DEF OneFile
  <2> QED BY <1>3, <1>4, <2>1
<1>9. OneToken(y)
  <2>1. \A p, q \in y.req : p.op # "write" /\ q.op # "write" => p = q
    BY <1>0, <1>3 DEF OneToken
  <2>2. \A a, b \in Ends : \A i \in 1 .. Len(y.net[a]), k \in 1 .. Len(y.net[b]) :
          TokenAt(y, a, i) /\ TokenAt(y, b, k) => a = b /\ i = k
    BY <1>6 DEF NoMessage
  <2> QED BY <1>6, <2>1, <2>2 DEF OneToken
<1>10. RequestFacts(y)
  <2>1. ReadFacts(y) <=> ReadFacts(v)
    BY <1>1, <1>3 DEF ReadFacts
  <2>2. ASSUME NEW q \in y.req
        PROVE  /\ q.op \notin {"open", "install"}
               /\ q.op = "read" => /\ ReadFacts(y) /\ q.file = Cur(y) /\ q.index = Master(y).indexIO
                                   /\ q.index < xcfg.sizes[Cur(y)] \/ (xcfg.sizes[Cur(y)] = 0 /\ q.index = 0)
    BY <1>0, <1>1, <1>3, <2>1 DEF RequestFacts
  <2> QED BY <2>2 DEF RequestFacts
<1>11. MessageFacts(y)
  BY <1>6, XferEnds DEF MessageFacts, NoMessage
<1>12. (\A i : IsData(y, i) <=> IsData(v, i)) /\ (NoData(y) <=> NoData(v))
  BY <1>3 DEF IsData, NoData
<1>13. Blocks(y)
  <2>1. \A k, m, p : k # j /\ BlockFits(v, k, m, p) => BlockFits(y, k, m, p)
    BY <1>2, <1>3 DEF BlockFits
  <2>2. \A i \in 1 .. Len(y.net["s"]) : IsData(y, i) =>
          LET d == y.net["s"][i].arg IN BlockFits(y, d.index, d.n, RecvIOPayload(d.payload))
    BY <1>0, <1>1, <1>3, <1>12, <2>1 DEF Blocks
  <2>3. \A q \in y.req : q.op = "write" =>
          /\ q.file = Cur(y) /\ q.index = <<q.index[1], q.index[2], q.index[3]>>
          /\ BlockFits(y, q.index[1], q.index[2], q.index[3])
          /\ \A i \in 1 .. Len(y.net["s"]) : IsData(y, i) => y.net["s"][i].arg.index # q.index[1]
    BY <1>0, <1>1, <1>3, <1>12, <2>1 DEF Blocks
  <2>4. /\ \A i, k \in 1 .. Len(y.net["s"]) :
             IsData(y, i) /\ IsData(y, k) /\ y.net["s"][i].arg.index = y.net["s"][k].arg.index => i = k
        /\ \A p, q \in y.req : p.op = "write" /\ q.op = "write" /\ p.index[1] = q.index[1] => p = q
    BY <1>0, <1>3, <1>12 DEF Blocks
  <2> QED BY <1>3, <2>2, <2>3, <2>4 DEF Blocks
<1>14. DiskFits(y)
  <2>1. \A d \in y.data : d[1] \in y.made /\ d[2] \in Blk(d[1]) /\ d = <<d[1], d[2], <<d[1], d[2]>>>>
    <3> SUFFICES ASSUME NEW d \in y.data, d \notin v.data
                 PROVE  d[1] \in y.made /\ d[2] \in Blk(d[1]) /\ d = <<d[1], d[2], <<d[1], d[2]>>>>
      BY <1>0, <1>3 DEF DiskFits
    <3>1. d = <<f, j, <<f, j>>>> /\ n = 1
      BY <1>1 DEF Wrote
    <3>2. f \in y.made
      BY <1>3 DEF SlaveReady
    <3> QED BY <1>1, <1>2, <3>1, <3>2 DEF Blk
  <2>2. ~Slave(y).ioFinish => Slave(y).indexIO = Cardinality(Arrived(y, f))
    <3> SUFFICES ASSUME ~Slave(y).ioFinish PROVE Slave(y).indexIO = Cardinality(Arrived(y, f))
      OBVIOUS
    <3>1. Slave(y).indexIO = Slave(v).indexIO + n /\ ~Slave(v).ioFinish
      BY DEF Wrote, Slave
    <3>2. Slave(v).indexIO = Cardinality(Arrived(v, f))
      BY <1>0, <1>1, <3>1 DEF DiskFits
    <3> QED BY <1>2, <3>1, <3>2
  <2>3. Arrived(y, f) \subseteq 0 .. (Master(y).indexIO - 1)
    <3>1. Arrived(v, f) \subseteq 0 .. (Master(v).indexIO - 1)
      BY <1>0, <1>1 DEF DiskFits
    <3>2. Master(v).indexIO \in Nat
      <4>1. CtxShape(v.ctx["m"])
        BY <1>0, XferParts, XferEnds
      <4> QED BY <4>1 DEF CtxShape, Master
    <3>3. n = 1 => j \in 0 .. (Master(v).indexIO - 1)
      BY <1>1, <3>2
    <3> QED BY <1>2, <1>3, <3>1, <3>3
  <2>4. y.made \subseteq Files /\ \A g \in y.made : g >= Cur(y)
    BY <1>0, <1>3 DEF DiskFits
  <2> QED BY <1>3, <2>1, <2>2, <2>3, <2>4 DEF DiskFits
<1>15. \A g : Done(v, g) => Done(y, g)
  <2>1. \A g : Arrived(y, g) \subseteq Blk(g)
    BY DEF Arrived
  <2> QED BY <1>2, <1>3, <2>1 DEF Done
<1>16. ErrorsKnown(y)
  <2>1. /\ Slave(y).closeNotify = Slave(v).closeNotify /\ Slave(y).ioFinish = Slave(v).ioFinish
        /\ Slave(y).lastErrno = Slave(v).lastErrno /\ Slave(y).singalStop = Slave(v).singalStop
    BY <1>4, XferEnds DEF Slave
  <2>2. Free(v) => Free(y)
    BY <1>3, <1>6 DEF Free, TokenIn
  <2>3. (Closing(y, "m") <=> Closing(v, "m")) /\ (NoData(y) <=> NoData(v)) /\ (InQueue(y) <=> InQueue(v))
        /\ (MasterReady(y) <=> MasterReady(v))
    BY <1>1, <1>3, <1>5, <1>12, XferEnds
  <2> QED BY <1>0, <1>1, <1>3, <2>1, <2>2, <2>3 DEF ErrorsKnown
<1>17. FinishMeans(y)
  <2>1. AllDone(v) => AllDone(y)
    BY <1>15 DEF AllDone
  <2>2. \A i : Live(y, "m", i) <=> Live(v, "m", i)
    BY <1>5, XferEnds
  <2> QED BY <1>0, <1>3, <1>15, <2>1, <2>2 DEF FinishMeans
<1>18. Working(y)
  BY <1>3, <1>7, <1>8, <1>9, <1>10, <1>11, <1>13, <1>14, <1>16, <1>17 DEF Working, Core
<1>19. \A b \in Ends, k \in Int : RefsBut(v, b, k) => RefsBut(y, b, k)
  BY <1>3, <1>4, XferRefsSame
<1> QED BY <1>3, <1>6, <1>12, <1>18, <1>19

\* While blocks are on their way no file is asked for, and the master has its
\* file open only as long as it reads.
LEMMA XferHeldWrite ==
  ASSUME NEW v, NEW r, WriteFacts(v, r), NEW y, y.req = v.req, Master(y).isFdOpen = Master(v).isFdOpen
  PROVE  Held(y)
BY DEF WriteFacts, Held

\* When a file whose size did not change is complete, nothing is left of it.
LEMMA XferComplete ==
  ASSUME PlanFits, NEW v, Working(v), NEW r, WriteFacts(v, r), NEW y, Wrote(v, r, y), Working(y), ~xcfg.shrinks,
         r.index[2] = 0 \/ Cardinality(Arrived(y, Cur(v))) >= xcfg.sizes[Cur(v)]
  PROVE  /\ NoData(y) /\ Free(y) /\ ~Master(y).lastErrno /\ ~Master(y).isFdOpen /\ Done(y, Cur(y)) /\ ~y.forkFailed
<1> DEFINE f == Cur(v)
           j == r.index[1]
           n == r.index[2]
<1>0. /\ Cur(y) = f /\ Master(y) = Master(v) /\ InQueue(y) /\ SlaveReady(y) /\ MasterReady(y) /\ NoMessage(y)
      /\ y.req = v.req /\ y.net = v.net /\ ~y.forkFailed
  BY XferArrival DEF Wrote, WriteFacts
<1>1. /\ n \in {0, 1} /\ j \in Nat /\ (n = 1 => j < xcfg.sizes[f]) /\ xcfg.sizes[f] \in Nat
      /\ (n = 0 => /\ j = Master(v).indexIO /\ (\A q \in v.req : q.op # "read") /\ ~Master(v).lastErrno
                   /\ xcfg.sizes[f] = 0)
      /\ (\A i \in 1 .. Len(v.net["s"]) : IsData(v, i) => v.net["s"][i].arg.index # j)
      /\ (\A q \in v.req : q.op = "write" => q.index[1] # j)
      /\ (\A q \in v.req : q.op \in {"read", "write"}) /\ (Master(v).isFdOpen => \E q \in v.req : q.op = "read")
  BY XferOneMore DEF WriteFacts
<1>2. Arrived(y, f) = Blk(f)
  <2>1. Arrived(y, f) \subseteq Blk(f)
    BY DEF Arrived
  <2>2. CASE n = 0
    <3>1. Blk(f) = {}
      BY <1>1, <2>2 DEF Blk
    <3> QED BY <2>1, <3>1
  <2>3. CASE n = 1
    <3>1. IsFiniteSet(Blk(f)) /\ Cardinality(Blk(f)) = xcfg.sizes[f]
      <4>1. 0 \in Int /\ (xcfg.sizes[f] - 1) \in Int
        BY <1>1
      <4>2. Cardinality(0 .. (xcfg.sizes[f] - 1)) = IF 0 > xcfg.sizes[f] - 1 THEN 0 ELSE xcfg.sizes[f] - 1 - 0 + 1
        BY <4>1, FS_Interval
      <4>3. IsFiniteSet(0 .. (xcfg.sizes[f] - 1))
        BY <4>1, FS_Interval
      <4>4. Cardinality(0 .. (xcfg.sizes[f] - 1)) = xcfg.sizes[f]
        BY <1>1, <4>2
      <4> QED BY <4>3, <4>4 DEF Blk
    <3>2. Cardinality(Arrived(y, f)) >= xcfg.sizes[f]
      BY <2>3
    <3>3. IsFiniteSet(Arrived(y, f)) /\ Cardinality(Arrived(y, f)) <= Cardinality(Blk(f))
          /\ (Cardinality(Arrived(y, f)) = Cardinality(Blk(f)) => Arrived(y, f) = Blk(f))
      BY <2>1, <3>1, FS_Subset
    <3>4. Cardinality(Arrived(y, f)) \in Nat
      BY <3>3, FS_CardinalityType
    <3> QED BY <1>1, <3>1, <3>2, <3>3, <3>4
  <2> QED BY <1>1, <2>2, <2>3
<1>3. Master(v).indexIO \in Nat
  <2>1. CtxShape(v.ctx["m"])
    BY XferParts, XferEnds DEF Working, Core
  <2> QED BY <2>1 DEF CtxShape, Master
<1>4. n = 1 => Master(v).indexIO >= xcfg.sizes[f] /\ xcfg.sizes[f] > 0
  <2> SUFFICES ASSUME n = 1 PROVE Master(v).indexIO >= xcfg.sizes[f] /\ xcfg.sizes[f] > 0
    OBVIOUS
  <2>1. Arrived(y, f) \subseteq 0 .. (Master(v).indexIO - 1)
    BY <1>0 DEF Working, Core, DiskFits
  <2>2. xcfg.sizes[f] > 0 /\ (xcfg.sizes[f] - 1) \in Blk(f)
    BY <1>1 DEF Blk
  <2>3. (xcfg.sizes[f] - 1) \in 0 .. (Master(v).indexIO - 1)
    BY <1>2, <2>1, <2>2
  <2> QED BY <1>1, <1>3, <2>2, <2>3
<1>5. \A q \in v.req : q.op # "read"
  <2> SUFFICES ASSUME NEW q \in v.req, q.op = "read" PROVE FALSE
    OBVIOUS
  <2>1. n = 1
    BY <1>1
  <2>2. /\ q.index = Master(v).indexIO
        /\ q.index < xcfg.sizes[f] \/ (xcfg.sizes[f] = 0 /\ q.index = 0)
    BY DEF Working, Core, RequestFacts
  <2> QED BY <1>1, <1>3, <1>4, <2>1, <2>2
<1>6. ~Master(v).lastErrno
  <2> SUFFICES ASSUME Master(v).lastErrno PROVE FALSE
    OBVIOUS
  <2>1. n = 1
    BY <1>1
  <2>2. Master(v).indexIO < xcfg.sizes[f] \/ xcfg.sizes[f] = 0
    BY DEF Working, Core, ErrorsKnown
  <2> QED BY <1>1, <1>3, <1>4, <2>1, <2>2
<1>7. \A k, m, p : BlockFits(y, k, m, p) => k = j /\ n = 0
  <2> SUFFICES ASSUME NEW k, NEW m, NEW p, BlockFits(y, k, m, p) PROVE k = j /\ n = 0
    OBVIOUS
  <2>1. /\ m \in {0, 1} /\ k \in Nat /\ k \notin Blk(f) /\ (m = 1 => k < xcfg.sizes[f])
        /\ (m = 0 => k = Master(v).indexIO /\ xcfg.sizes[f] = 0)
    BY <1>0, <1>2 DEF BlockFits
  <2>2. m = 0
    BY <1>1, <2>1 DEF Blk
  <2>3. n = 0
    BY <1>1, <1>4, <2>1, <2>2
  <2> QED BY <1>1, <2>1, <2>2, <2>3
<1>8. NoData(y)
  <2>1. Blocks(y)
    BY DEF Working, Core
  <2>2. \A i : IsData(y, i) <=> IsData(v, i)
    BY <1>0 DEF IsData
  <2> QED BY <1>0, <1>1, <1>7, <2>1, <2>2 DEF Blocks, NoData
<1>9. Free(y)
  BY <1>0, <1>1, <1>5, <1>8 DEF Free, TokenIn, NoData
<1>10. Done(y, Cur(y))
  BY <1>0, <1>2 DEF Done, SlaveReady
<1> QED BY <1>0, <1>1, <1>5, <1>6, <1>8, <1>9, <1>10

\* The last file of a transfer that may shrink is the only one.
LEMMA XferOnlyFile ==
  ASSUME PlanFits, NEW x, TransferShape(x), InQueue(x), xcfg.shrinks
  PROVE  ~isApp /\ Queue(x) = <<>>
<1>1. ~isApp /\ Len(xcfg.sizes) = 1 /\ QueueShape(Queue(x))
  BY DEF PlanFits, TransferShape
<1>2. Len(Queue(x)) \in Nat /\ (Queue(x) # <<>> => Len(Queue(x)) \in Files)
  BY <1>1, XferQueue
<1>3. Len(Queue(x)) + 1 \in 1 .. 1
  BY <1>1 DEF InQueue, Cur, Files
<1> QED BY <1>1, <1>2, <1>3 DEF Files

\* OnFileIO of the slave: a completion that finishes the file.
LEMMA XferSlaveEnds ==
  ASSUME PlanFits, NEW v, NEW r, WriteFacts(v, r), NEW b, Working(b), b.req = v.req,
         Master(b).isFdOpen = Master(v).isFdOpen, InQueue(b),
         NEW u, TransferShape(u), RefsBut(u, "s", 1), u.fds = b.fds, u.ctx["s"].isFdOpen = b.ctx["s"].isFdOpen,
         u.net = b.net, u.req = b.req, u.made = b.made, u.data = b.data, u.told = b.told, u.forkFailed = b.forkFailed,
         b.emptyFailed => u.emptyFailed, u.summary = b.summary \/ (u.summary = "ok" /\ ~u.emptyFailed => AllDone(b)),
         u.ctx["m"] = b.ctx["m"], CtxRest(b.ctx["s"], u.ctx["s"]), b.ctx["s"].task \in {"run", "stopped"},
         u.ctx["s"].lastErrno /\ ~isApp /\ ~b.ctx["s"].singalStop => Closing(b, "m"),
         ~xcfg.shrinks /\ u.ctx["s"].closeNotify /\ ~u.ctx["s"].lastErrno =>
           NoData(b) /\ Free(b) /\ ~Master(b).lastErrno /\ ~Master(b).isFdOpen /\ Done(b, Cur(b)) /\ ~b.forkFailed,
         NEW z \in ProcressFileIOFinish([u EXCEPT !.ctx["s"].ioFinish = TRUE], "s")
  PROVE  Good(DropRef(z, "s"))
<1> DEFINE w == Finishing(u, "s")
<1>0. "m" \in Ends /\ "s" \in Ends /\ OtherEnd("s") = "m" /\ TransferShape(b) /\ OneFile(b)
  BY XferEnds DEF Working, Core
<1>1. u.fds["s"] = IF u.ctx["s"].isFdOpen THEN {u.ctx["s"].openFd} ELSE {}
  BY <1>0 DEF OneFile, CtxRest
<1>2. Settled(u, "s", w)
  BY <1>0, <1>1, XferSettled
<1>3. w = Finishing(u, "s")
  OBVIOUS
<1> HIDE DEF w
<1>4. /\ TransferShape(w) /\ w.net = b.net /\ w.req = b.req /\ w.made = b.made /\ w.data = b.data /\ w.told = b.told
      /\ w.forkFailed = b.forkFailed /\ w.summary = u.summary /\ w.emptyFailed = u.emptyFailed
      /\ w.ctx["m"] = b.ctx["m"] /\ w.fds["m"] = b.fds["m"]
      /\ w.fds["s"] = {} /\ ~w.ctx["s"].isFdOpen /\ CtxRest(b.ctx["s"], w.ctx["s"]) /\ w.ctx["s"].ioFinish
      /\ w.ctx["s"].lastErrno = u.ctx["s"].lastErrno /\ w.ctx["s"].closeNotify = u.ctx["s"].closeNotify
  BY <1>0, <1>2, XferEnds DEF Settled, CtxRest
<1>5. (Closing(b, "m") => Closing(w, "m")) /\ Slave(w) = w.ctx["s"] /\ w.ctx["s"].singalStop = b.ctx["s"].singalStop
      /\ w.ctx["s"].task = b.ctx["s"].task /\ u.ctx["s"].task = b.ctx["s"].task
  BY <1>4 DEF Closing, Slave, CtxRest
<1>6. SlaveErrors(w)
  BY <1>4, <1>5 DEF SlaveErrors, NoData
<1>7. Calm(b, w)
  <2>1. /\ (b.emptyFailed => w.emptyFailed) /\ (b.ctx["s"].ioFinish => w.ctx["s"].ioFinish)
        /\ (w.summary = b.summary \/ (w.summary = "ok" /\ ~w.emptyFailed => AllDone(b)))
        /\ (\A e \in Ends : e # "s" => w.ctx[e] = b.ctx[e] /\ w.fds[e] = b.fds[e])
        /\ b.told \subseteq w.told /\ w.req \subseteq b.req
    BY <1>4, XferEnds
  <2> QED BY <1>0, <1>4, <1>6, <2>1, XferFileClosed
<1>8. Held(w) /\ Working(w)
  <2>1. Master(w).isFdOpen = Master(v).isFdOpen /\ w.req = v.req
    BY <1>4 DEF Master
  <2> QED BY <1>7, <2>1, XferHeldWrite DEF Calm
<1>9. /\ InQueue(w) /\ Cur(w) = Cur(b) /\ Queue(w) = Queue(b) /\ (Free(b) => Free(w)) /\ (NoData(b) => NoData(w))
      /\ (\A f : Done(b, f) => Done(w, f)) /\ Master(w) = Master(b) /\ SlaveClosed(w)
  BY <1>4, <1>5, <1>7 DEF Calm, Master, SlaveClosed
<1>10. ASSUME u.ctx["s"].lastErrno \/ u.ctx["s"].closeNotify, ~isApp, ~w.ctx["s"].singalStop
       PROVE  MaySend(w, OtherEnd("s"), [cmd |-> "FINISH", arg |-> 1])
  <2> DEFINE c == [cmd |-> "FINISH", arg |-> 1]
  <2>1. c.cmd = "FINISH" /\ c.arg = 1
    OBVIOUS
  <2> HIDE DEF c
  <2>2. c.cmd \in Commands("m") \ {"WAKEUP_SLAVETASK"} /\ Slave(w).task # "none"
    BY <1>5, <2>1 DEF Commands, ToMasterCommands
  <2>3. CASE Closing(w, "m")
    BY <1>10, <2>1, <2>2, <2>3, <1>0 DEF MaySend, c
  <2>4. CASE xcfg.shrinks
    <3>1. Queue(w) = <<>>
      BY <1>4, <1>9, <2>4, XferOnlyFile
    <3>2. ~Control(w, "m", c)
      BY <2>1, <3>1 DEF Control
    <3> QED BY <1>0, <1>10, <2>1, <2>2, <2>4, <3>2 DEF MaySend, c
  <2>5. CASE ~xcfg.shrinks /\ ~Closing(w, "m")
    <3>1. ~u.ctx["s"].lastErrno /\ u.ctx["s"].closeNotify
      BY <1>5, <1>10, <2>5
    <3>2. NoData(w) /\ Free(w) /\ ~Master(w).lastErrno /\ Done(w, Cur(w)) /\ ~w.forkFailed
      BY <1>4, <1>9, <2>5, <3>1
    <3>3. MasterMessage(w, c)
      BY <1>9, <1>10, <2>1, <3>2 DEF MasterMessage
    <3> QED BY <1>0, <1>10, <2>1, <2>2, <3>2, <3>3 DEF MaySend, c
  <2> QED BY <2>3, <2>4, <2>5
<1>11. ASSUME u.ctx["s"].lastErrno \/ u.ctx["s"].closeNotify, isApp, ~Slave(w).lastErrno
       PROVE  Free(w) /\ PackageFacts(w) /\ ~w.forkFailed
  <2>1. ~xcfg.shrinks /\ u.ctx["s"].closeNotify /\ ~u.ctx["s"].lastErrno
    BY <1>4, <1>5, <1>11 DEF PlanFits
  <2> QED BY <1>4, <1>9, <1>11, <2>1 DEF PackageFacts
<1>12. u.ctx["s"].task \in {"run", "stopped"}
  BY <1>5
<1> QED BY <1>0, <1>1, <1>3, <1>8, <1>10, <1>11, <1>12, XferEndOfFile

\* Written: the disk changes and nothing else.
LEMMA XferWrittenData ==
  ASSUME NEW x, TransferShape(x), NEW E
  PROVE  LET y == [x EXCEPT !.data = @ \cup E]
         IN  /\ TransferShape(y) /\ y.ctx = x.ctx /\ y.net = x.net /\ y.req = x.req /\ y.made = x.made /\ y.told = x.told
             /\ y.summary = x.summary /\ y.forkFailed = x.forkFailed /\ y.emptyFailed = x.emptyFailed /\ y.fds = x.fds
             /\ y.data = x.data \cup E
<1> DEFINE y == [x EXCEPT !.data = @ \cup E]
<1>1. /\ DOMAIN x = DOMAIN NoTransfer /\ DOMAIN x.ctx = Ends
      /\ (\A e \in Ends : CtxShape(x.ctx[e])) /\ DOMAIN x.fds = Ends /\ IsFiniteSet(x.req)
      /\ x.forkFailed \in BOOLEAN /\ x.emptyFailed \in BOOLEAN /\ x.ctx["s"].taskQueue = <<>>
  BY XferParts
<1>2. /\ y.ctx = x.ctx /\ y.net = x.net /\ y.req = x.req /\ y.made = x.made /\ y.told = x.told
      /\ y.summary = x.summary /\ y.forkFailed = x.forkFailed /\ y.emptyFailed = x.emptyFailed /\ y.fds = x.fds
      /\ y.data = x.data \cup E /\ DOMAIN y = DOMAIN x
  BY <1>1 DEF NoTransfer
<1> HIDE DEF y
<1>3. TransferShape(y)
  <2>1. /\ (\A e \in Ends : CtxShape(y.ctx[e])) /\ y.ctx["s"].taskQueue = <<>> /\ Queue(y) = Queue(x)
        /\ (\A q \in y.req : q \in x.req) /\ IsFiniteSet(y.req) /\ DOMAIN y.fds = Ends /\ DOMAIN y.ctx = Ends
        /\ y.forkFailed \in BOOLEAN /\ y.emptyFailed \in BOOLEAN
    BY <1>1, <1>2 DEF Queue, Master
  <2> QED BY <1>2, <2>1, XferShape, Zenon
<1> QED BY <1>2, <1>3 DEF y

\* Two states of the same disk that differ in the slave's task at most.
SlaveOnly(x, y) ==
  /\ TransferShape(y) /\ y.net = x.net /\ y.req = x.req /\ y.made = x.made /\ y.data = x.data /\ y.told = x.told
  /\ y.summary = x.summary /\ y.forkFailed = x.forkFailed /\ y.emptyFailed = x.emptyFailed /\ y.fds = x.fds
  /\ y.ctx["m"] = x.ctx["m"]
  /\ LET c == x.ctx["s"]
         d == y.ctx["s"]
     IN  /\ d.isFdOpen = c.isFdOpen /\ d.openFd = c.openFd /\ d.fileSize = c.fileSize /\ d.ioFinish = c.ioFinish
         /\ d.lastErrno = c.lastErrno /\ d.taskQueue = c.taskQueue
         /\ d.refCount = c.refCount /\ d.singalStop = c.singalStop /\ d.task = c.task

\* ProcressFileIOWrite: what was written is counted.
LEMMA XferCounted ==
  ASSUME NEW x, TransferShape(x), NEW n \in {0, 1}
  PROVE  LET y == [x EXCEPT !.ctx["s"].indexIO = @ + n]
         IN  SlaveOnly(x, y) /\ y.ctx["s"].indexIO = x.ctx["s"].indexIO + n /\ y.ctx["s"].closeNotify = x.ctx["s"].closeNotify
<1> DEFINE i == x.ctx["s"].indexIO + n
           y == [x EXCEPT !.ctx["s"].indexIO = @ + n]
<1>1. /\ DOMAIN x = DOMAIN NoTransfer /\ DOMAIN x.ctx = Ends /\ DOMAIN x.ctx["s"] = DOMAIN NewCtx("none")
      /\ (\A e \in Ends : CtxShape(x.ctx[e])) /\ DOMAIN x.fds = Ends /\ IsFiniteSet(x.req)
      /\ x.forkFailed \in BOOLEAN /\ x.emptyFailed \in BOOLEAN /\ x.ctx["s"].taskQueue = <<>>
  BY XferParts, XferEnds
<1>2. /\ y.ctx = [x.ctx EXCEPT !["s"] = [x.ctx["s"] EXCEPT !.indexIO = i]] /\ y.net = x.net /\ y.req = x.req
      /\ SameDisk(x, y) /\ DOMAIN y = DOMAIN x
  BY <1>1 DEF NoTransfer, SameDisk
<1>3. i \in Nat
  <2>1. CtxShape(x.ctx["s"])
    BY <1>1, XferEnds
  <2> QED BY <2>1 DEF CtxShape
<1>4. i = x.ctx["s"].indexIO + n
  OBVIOUS
<1> HIDE DEF y, i
<1>5. y.ctx["s"] = [x.ctx["s"] EXCEPT !.indexIO = i] /\ y.ctx["m"] = x.ctx["m"] /\ DOMAIN y.ctx = Ends
  BY <1>1, <1>2, XferEnds
<1>6. /\ DOMAIN y.ctx["s"] = DOMAIN x.ctx["s"] /\ y.ctx["s"].isFdOpen = x.ctx["s"].isFdOpen
      /\ y.ctx["s"].openFd = x.ctx["s"].openFd /\ y.ctx["s"].fileSize = x.ctx["s"].fileSize /\ y.ctx["s"].indexIO = i
      /\ y.ctx["s"].ioFinish = x.ctx["s"].ioFinish /\ y.ctx["s"].lastErrno = x.ctx["s"].lastErrno
      /\ y.ctx["s"].closeNotify = x.ctx["s"].closeNotify /\ y.ctx["s"].taskQueue = x.ctx["s"].taskQueue
      /\ y.ctx["s"].refCount = x.ctx["s"].refCount /\ y.ctx["s"].singalStop = x.ctx["s"].singalStop
      /\ y.ctx["s"].task = x.ctx["s"].task
  BY <1>1, <1>5 DEF NewCtx
<1>7. CtxShape(y.ctx["s"])
  <2>1. CtxShape(x.ctx["s"])
    BY <1>1, XferEnds
  <2> QED BY <1>3, <1>6, <2>1, Zenon DEF CtxShape
<1>8. TransferShape(y)
  <2>1. /\ (\A e \in Ends : CtxShape(y.ctx[e])) /\ y.ctx["s"].taskQueue = <<>> /\ Queue(y) = Queue(x)
        /\ (\A q \in y.req : q \in x.req) /\ IsFiniteSet(y.req) /\ DOMAIN y.fds = Ends
        /\ y.forkFailed \in BOOLEAN /\ y.emptyFailed \in BOOLEAN
    BY <1>1, <1>2, <1>5, <1>6, <1>7, XferEnds DEF Queue, Master, SameDisk
  <2> QED BY <1>2, <1>5, <2>1, XferShape, Zenon
<1>9. SlaveOnly(x, y)
  BY <1>2, <1>5, <1>6, <1>8 DEF SlaveOnly, SameDisk
<1> QED BY <1>4, <1>6, <1>9 DEF y, i

\* ProcressFileIOWrite: the file is complete.
LEMMA XferNotified ==
  ASSUME NEW x, TransferShape(x)
  PROVE  LET y == [x EXCEPT !.ctx["s"].closeNotify = TRUE]
         IN  SlaveOnly(x, y) /\ y.ctx["s"].indexIO = x.ctx["s"].indexIO
<1> DEFINE y == [x EXCEPT !.ctx["s"].closeNotify = TRUE]
<1>1. /\ DOMAIN x = DOMAIN NoTransfer /\ DOMAIN x.ctx = Ends /\ DOMAIN x.ctx["s"] = DOMAIN NewCtx("none")
      /\ (\A e \in Ends : CtxShape(x.ctx[e])) /\ DOMAIN x.fds = Ends /\ IsFiniteSet(x.req)
      /\ x.forkFailed \in BOOLEAN /\ x.emptyFailed \in BOOLEAN /\ x.ctx["s"].taskQueue = <<>>
  BY XferParts, XferEnds
<1>2. /\ y.ctx = [x.ctx EXCEPT !["s"] = [x.ctx["s"] EXCEPT !.closeNotify = TRUE]] /\ y.net = x.net /\ y.req = x.req
      /\ SameDisk(x, y) /\ DOMAIN y = DOMAIN x
  BY <1>1 DEF NoTransfer, SameDisk
<1> HIDE DEF y
<1>5. y.ctx["s"] = [x.ctx["s"] EXCEPT !.closeNotify = TRUE] /\ y.ctx["m"] = x.ctx["m"] /\ DOMAIN y.ctx = Ends
  BY <1>1, <1>2, XferEnds
<1>6. /\ DOMAIN y.ctx["s"] = DOMAIN x.ctx["s"] /\ y.ctx["s"].isFdOpen = x.ctx["s"].isFdOpen
      /\ y.ctx["s"].openFd = x.ctx["s"].openFd /\ y.ctx["s"].fileSize = x.ctx["s"].fileSize
      /\ y.ctx["s"].indexIO = x.ctx["s"].indexIO
      /\ y.ctx["s"].ioFinish = x.ctx["s"].ioFinish /\ y.ctx["s"].lastErrno = x.ctx["s"].lastErrno
      /\ y.ctx["s"].closeNotify = TRUE /\ y.ctx["s"].taskQueue = x.ctx["s"].taskQueue
      /\ y.ctx["s"].refCount = x.ctx["s"].refCount /\ y.ctx["s"].singalStop = x.ctx["s"].singalStop
      /\ y.ctx["s"].task = x.ctx["s"].task
  BY <1>1, <1>5 DEF NewCtx
<1>7. CtxShape(y.ctx["s"])
  <2>1. CtxShape(x.ctx["s"])
    BY <1>1, XferEnds
  <2> QED BY <1>6, <2>1, Zenon DEF CtxShape
<1>8. TransferShape(y)
  <2>1. /\ (\A e \in Ends : CtxShape(y.ctx[e])) /\ y.ctx["s"].taskQueue = <<>> /\ Queue(y) = Queue(x)
        /\ (\A q \in y.req : q \in x.req) /\ IsFiniteSet(y.req) /\ DOMAIN y.fds = Ends
        /\ y.forkFailed \in BOOLEAN /\ y.emptyFailed \in BOOLEAN
    BY <1>1, <1>2, <1>5, <1>6, <1>7, XferEnds DEF Queue, Master, SameDisk
  <2> QED BY <1>2, <1>5, <2>1, XferShape, Zenon
<1>9. SlaveOnly(x, y)
  BY <1>2, <1>5, <1>6, <1>8 DEF SlaveOnly, SameDisk
<1> QED BY <1>6, <1>9 DEF y

\* OnFileIO of the slave: a write that completes after the end of its file.
LEMMA XferLateWrite ==
  ASSUME PlanFits, NEW v, Working(v), NEW r, r.op = "write", WriteFacts(v, r), RefsBut(v, "s", 1),
         v.ctx["s"].task \in {"run", "stopped"}, v.ctx["s"].ioFinish,
         NEW error \in BOOLEAN, NEW b, b = Written(v, r, error),
         NEW z \in ProcressFileIOFinish([b EXCEPT !.ctx["s"].ioFinish = TRUE], "s")
  PROVE  Good(DropRef(z, "s"))
<1> DEFINE E == {<<r.file, r.index[1], r.index[3]>>}
<1>0. TransferShape(v) /\ 1 \in Int /\ "s" \in Ends /\ r.index[2] \in {0, 1} /\ InQueue(v)
  BY XferEnds DEF Working, Core, WriteFacts
<1>1. /\ Working(b) /\ TransferShape(b) /\ b.ctx = v.ctx /\ b.req = v.req /\ RefsBut(b, "s", 1) /\ InQueue(b)
  <2>1. CASE ~error /\ r.index[2] = 1
    <3>1. b = [v EXCEPT !.data = @ \cup E]
      BY <2>1 DEF Written
    <3>2. /\ TransferShape(b) /\ b.ctx = v.ctx /\ b.net = v.net /\ b.req = v.req /\ b.made = v.made /\ b.told = v.told
          /\ b.summary = v.summary /\ b.forkFailed = v.forkFailed /\ b.emptyFailed = v.emptyFailed /\ b.fds = v.fds
          /\ b.data = v.data \cup E
      BY <1>0, <3>1, XferWrittenData
    <3>3. Wrote(v, r, b)
      BY <2>1, <3>2 DEF Wrote
    <3>4. \A a \in Ends, k \in Int : RefsBut(v, a, k) => RefsBut(b, a, k)
      BY <3>3, XferArrival
    <3>5. Working(b) /\ InQueue(b)
      BY <3>3, XferArrival
    <3> QED BY <1>0, <3>2, <3>4, <3>5
  <2>2. CASE error \/ r.index[2] = 0
    <3>1. b = v
      BY <2>2 DEF Written
    <3> QED BY <1>0, <3>1
  <2> QED BY <1>0, <2>1, <2>2
<1>2. /\ (b.ctx["s"].lastErrno /\ ~isApp /\ ~b.ctx["s"].singalStop => Closing(b, "m"))
      /\ ~(~xcfg.shrinks /\ b.ctx["s"].closeNotify /\ ~b.ctx["s"].lastErrno)
  BY <1>1 DEF Working, Core, ErrorsKnown, Slave, WriteFacts
<1>3. Master(b).isFdOpen = Master(v).isFdOpen /\ CtxRest(b.ctx["s"], b.ctx["s"]) /\ b.ctx["s"].task \in {"run", "stopped"}
  BY <1>1 DEF Master, CtxRest
<1> QED BY <1>1, <1>2, <1>3, XferSlaveEnds

\* OnFileIO of the slave: the block is on the disk, and counted.
LEMMA XferWroteBlock ==
  ASSUME NEW v, TransferShape(v), NEW r, r.op = "write", WriteFacts(v, r), ~v.ctx["s"].ioFinish
  PROVE  Wrote(v, r, [Written(v, r, FALSE) EXCEPT !.ctx["s"].indexIO = @ + r.index[2]])
<1> DEFINE E == {<<r.file, r.index[1], r.index[3]>>}
           n == r.index[2]
           b == Written(v, r, FALSE)
           y == [b EXCEPT !.ctx["s"].indexIO = @ + n]
<1>0. n \in {0, 1}
  BY DEF WriteFacts
<1>1. /\ TransferShape(b) /\ b.ctx = v.ctx /\ b.net = v.net /\ b.req = v.req /\ b.made = v.made /\ b.told = v.told
      /\ b.summary = v.summary /\ b.forkFailed = v.forkFailed /\ b.emptyFailed = v.emptyFailed /\ b.fds = v.fds
      /\ b.data = v.data \cup (IF n = 1 THEN E ELSE {})
  <2>1. CASE n = 1
    <3>1. b = [v EXCEPT !.data = @ \cup E]
      BY <2>1 DEF Written
    <3> HIDE DEF b, E
    <3>2. /\ TransferShape(b) /\ b.ctx = v.ctx /\ b.net = v.net /\ b.req = v.req /\ b.made = v.made /\ b.told = v.told
          /\ b.summary = v.summary /\ b.forkFailed = v.forkFailed /\ b.emptyFailed = v.emptyFailed /\ b.fds = v.fds
          /\ b.data = v.data \cup E
      BY <3>1, XferWrittenData
    <3>3. b.data = v.data \cup (IF n = 1 THEN E ELSE {})
      BY <2>1, <3>2
    <3> QED BY <3>2, <3>3
  <2>2. CASE n = 0
    <3>1. b = v
      BY <2>2 DEF Written
    <3>2. v.data = v.data \cup (IF n = 1 THEN E ELSE {})
      BY <2>2
    <3> HIDE DEF b, E, n
    <3> QED BY <3>1, <3>2
  <2> QED BY <1>0, <2>1, <2>2
<1> HIDE DEF b
<1>2. SlaveOnly(b, y) /\ y.ctx["s"].indexIO = b.ctx["s"].indexIO + n /\ y.ctx["s"].closeNotify = b.ctx["s"].closeNotify
  <2> HIDE DEF n
  <2> QED BY <1>0, <1>1, XferCounted
<1> HIDE DEF y
<1>3. Wrote(v, r, y)
  BY <1>1, <1>2 DEF SlaveOnly, Wrote
<1> QED BY <1>3 DEF y, b

\* OnFileIO of the slave: what the two ends of ProcressFileIOWrite lead to.
LEMMA XferWriteEnds ==
  ASSUME NEW p, NEW y, NEW u, NEW full,
         full => p.x = u /\ p.finished = TRUE, ~full => p.x = y /\ p.finished = FALSE,
         NEW z \in IF p.finished THEN ProcressFileIOFinish([p.x EXCEPT !.ctx["s"].ioFinish = p.finished], "s")
                   ELSE {[p.x EXCEPT !.ctx["s"].ioFinish = p.finished]}
  PROVE  /\ full => z \in ProcressFileIOFinish([u EXCEPT !.ctx["s"].ioFinish = TRUE], "s")
         /\ ~full => z = [y EXCEPT !.ctx["s"].ioFinish = FALSE]
<1>1. CASE full
  BY <1>1, Zenon
<1>2. CASE ~full
  BY <1>2, Zenon
<1> QED BY <1>1, <1>2

\* OnFileIO of the slave: the file is complete.
LEMMA XferLastBlock ==
  ASSUME PlanFits, NEW v, Working(v), NEW r, WriteFacts(v, r), RefsBut(v, "s", 1),
         v.ctx["s"].task \in {"run", "stopped"}, ~v.ctx["s"].ioFinish,
         NEW y, Wrote(v, r, y), y.ctx["s"].indexIO >= y.ctx["s"].fileSize \/ r.index[2] = 0,
         NEW u, SlaveOnly(y, u), u.ctx["s"].indexIO = y.ctx["s"].indexIO,
         NEW z \in ProcressFileIOFinish([u EXCEPT !.ctx["s"].ioFinish = TRUE], "s")
  PROVE  Good(DropRef(z, "s"))
<1> DEFINE n == r.index[2]
           f == Cur(v)
<1>0. TransferShape(v) /\ 1 \in Int /\ "s" \in Ends
  BY XferEnds DEF Working, Core
<1>1. /\ Working(y) /\ Cur(y) = f /\ Master(y) = Master(v) /\ InQueue(y) /\ SlaveReady(y)
  BY XferArrival
<1>2. RefsBut(y, "s", 1) /\ TransferShape(y) /\ y.req = v.req
  <2>1. \A a \in Ends, k \in Int : RefsBut(v, a, k) => RefsBut(y, a, k)
    BY XferArrival
  <2> QED BY <1>0, <2>1 DEF Wrote
<1>3. SlaveOnly(y, u)
  OBVIOUS
<1>4. RefsBut(u, "s", 1)
  <2>1. u.req = y.req /\ u.forkFailed = y.forkFailed /\ \A e \in Ends : u.ctx[e].refCount = y.ctx[e].refCount
    BY <1>3, XferEnds DEF SlaveOnly
  <2>2. \A a \in Ends, k \in Int : RefsBut(y, a, k) => RefsBut(u, a, k)
    BY <2>1, XferRefsSame
  <2> QED BY <1>0, <1>2, <2>2
<1>5. ~xcfg.shrinks =>
        NoData(y) /\ Free(y) /\ ~Master(y).lastErrno /\ ~Master(y).isFdOpen /\ Done(y, Cur(y)) /\ ~y.forkFailed
  <2> SUFFICES ASSUME ~xcfg.shrinks
               PROVE  NoData(y) /\ Free(y) /\ ~Master(y).lastErrno /\ ~Master(y).isFdOpen /\ Done(y, Cur(y)) /\ ~y.forkFailed
    OBVIOUS
  <2>1. y.ctx["s"].indexIO = Cardinality(Arrived(y, f)) /\ y.ctx["s"].fileSize = xcfg.sizes[f]
    <3>1. ~Slave(y).ioFinish
      BY DEF Wrote, Slave
    <3> QED BY <1>1, <3>1 DEF Working, Core, DiskFits, SlaveReady, Slave
  <2>2. n = 0 \/ Cardinality(Arrived(y, f)) >= xcfg.sizes[f]
    BY <2>1
  <2> QED BY <1>1, <2>2, XferComplete
<1>6. /\ TransferShape(u) /\ u.fds = y.fds /\ u.ctx["s"].isFdOpen = y.ctx["s"].isFdOpen /\ u.net = y.net /\ u.req = y.req
      /\ u.made = y.made /\ u.data = y.data /\ u.told = y.told /\ u.forkFailed = y.forkFailed
      /\ u.emptyFailed = y.emptyFailed /\ u.summary = y.summary /\ u.ctx["m"] = y.ctx["m"]
      /\ u.ctx["s"].lastErrno = y.ctx["s"].lastErrno
  BY <1>3 DEF SlaveOnly
<1>7. CtxRest(y.ctx["s"], u.ctx["s"])
  BY <1>3 DEF SlaveOnly, CtxRest
<1>8. y.ctx["s"].task \in {"run", "stopped"} /\ y.ctx["s"].singalStop = v.ctx["s"].singalStop
  BY DEF Wrote
<1>9. u.ctx["s"].lastErrno /\ ~isApp /\ ~y.ctx["s"].singalStop => Closing(y, "m")
  BY <1>1, <1>6 DEF Working, Core, ErrorsKnown, Slave
<1> QED BY <1>1, <1>2, <1>4, <1>5, <1>6, <1>7, <1>8, <1>9, XferSlaveEnds

\* OnFileIO of the slave: the file is not complete yet.
LEMMA XferMoreBlocks ==
  ASSUME PlanFits, NEW v, Working(v), NEW r, WriteFacts(v, r), RefsBut(v, "s", 1),
         v.ctx["s"].task \in {"run", "stopped"}, ~v.ctx["s"].ioFinish, NEW y, Wrote(v, r, y)
  PROVE  Good(DropRef([y EXCEPT !.ctx["s"].ioFinish = FALSE], "s"))
<1> DEFINE t == [y EXCEPT !.ctx["s"].ioFinish = FALSE]
<1>0. TransferShape(v) /\ 1 \in Int /\ "s" \in Ends
  BY XferEnds DEF Working, Core
<1>1. ~y.ctx["s"].ioFinish /\ TransferShape(y) /\ y.req = v.req
  BY DEF Wrote
<1>2. Working(y) /\ Master(y) = Master(v)
  BY XferArrival
<1>3. RefsBut(y, "s", 1)
  <2>1. \A a \in Ends, k \in Int : RefsBut(v, a, k) => RefsBut(y, a, k)
    BY XferArrival
  <2> QED BY <1>0, <2>1
<1>4. Like(y, t) /\ RefsBut(t, "s", 1)
  BY <1>0, <1>1, <1>3, XferNotFinished
<1>5. Held(y)
  BY <1>1, <1>2, XferHeldWrite
<1> HIDE DEF t
<1>6. Working(t) /\ Held(t)
  BY <1>2, <1>4, <1>5, XferLike
<1>7. Good(DropRef(t, "s"))
  BY <1>0, <1>4, <1>6, XferDropOne
<1> QED BY <1>7 DEF t

\* OnFileIO of the slave: a write has completed without an error.
LEMMA XferWriteBlock ==
  ASSUME PlanFits, NEW v, Working(v), NEW r, r.op = "write", WriteFacts(v, r), RefsBut(v, "s", 1),
         v.ctx["s"].task \in {"run", "stopped"}, ~v.ctx["s"].ioFinish,
         NEW y, Wrote(v, r, y), NEW z,
         y.ctx["s"].indexIO >= y.ctx["s"].fileSize \/ r.index[2] = 0 =>
           z \in ProcressFileIOFinish([[y EXCEPT !.ctx["s"].closeNotify = TRUE] EXCEPT !.ctx["s"].ioFinish = TRUE], "s"),
         ~(y.ctx["s"].indexIO >= y.ctx["s"].fileSize \/ r.index[2] = 0) => z = [y EXCEPT !.ctx["s"].ioFinish = FALSE]
  PROVE  Good(DropRef(z, "s"))
<1> DEFINE u == [y EXCEPT !.ctx["s"].closeNotify = TRUE]
           full == y.ctx["s"].indexIO >= y.ctx["s"].fileSize \/ r.index[2] = 0
<1>1. Wrote(v, r, y)
  OBVIOUS
<1>2. full => z \in ProcressFileIOFinish([u EXCEPT !.ctx["s"].ioFinish = TRUE], "s")
  BY Zenon
<1>3. TransferShape(y)
  BY <1>1 DEF Wrote
<1>4. SlaveOnly(y, u) /\ u.ctx["s"].indexIO = y.ctx["s"].indexIO
  BY <1>3, XferNotified
<1> HIDE DEF u
<1>5. CASE full
  BY <1>1, <1>2, <1>4, <1>5, XferLastBlock, Zenon
<1>6. CASE ~full
  <2>1. z = [y EXCEPT !.ctx["s"].ioFinish = FALSE]
    BY <1>6, Zenon
  <2>2. Good(DropRef([y EXCEPT !.ctx["s"].ioFinish = FALSE], "s"))
    BY <1>1, XferMoreBlocks, Zenon
  <2> QED BY <2>1, <2>2, Zenon
<1> QED BY <1>5, <1>6

\* TransferSummary changes what the user is told and nothing else.
LEMMA XferSummaryOnly ==
  ASSUME NEW x, TransferShape(x), NEW a \in Ends
  PROVE  LET y == TransferSummary(x, a)
         IN  /\ TransferShape(y) /\ y.ctx = x.ctx /\ y.net = x.net /\ y.req = x.req /\ y.made = x.made /\ y.told = x.told
             /\ y.data = x.data /\ y.forkFailed = x.forkFailed /\ y.emptyFailed = x.emptyFailed /\ y.fds = x.fds
             /\ y.summary = IF x.summary # "none" THEN x.summary
                            ELSE IF x.ctx[a].indexIO >= x.ctx[a].fileSize \/ ~x.ctx[a].lastErrno THEN "ok" ELSE "fail"
<1> DEFINE y == TransferSummary(x, a)
<1>1. /\ DOMAIN x = DOMAIN NoTransfer /\ DOMAIN x.ctx = Ends
      /\ (\A e \in Ends : CtxShape(x.ctx[e])) /\ DOMAIN x.fds = Ends /\ IsFiniteSet(x.req)
      /\ x.forkFailed \in BOOLEAN /\ x.emptyFailed \in BOOLEAN /\ x.ctx["s"].taskQueue = <<>>
  BY XferParts
<1>2. /\ y.ctx = x.ctx /\ y.net = x.net /\ y.req = x.req /\ y.made = x.made /\ y.told = x.told
      /\ y.data = x.data /\ y.forkFailed = x.forkFailed /\ y.emptyFailed = x.emptyFailed /\ y.fds = x.fds
      /\ DOMAIN y = DOMAIN x
      /\ y.summary = IF x.summary # "none" THEN x.summary
                     ELSE IF x.ctx[a].indexIO >= x.ctx[a].fileSize \/ ~x.ctx[a].lastErrno THEN "ok" ELSE "fail"
  BY <1>1 DEF NoTransfer, TransferSummary
<1> HIDE DEF y
<1>3. TransferShape(y)
  <2>1. /\ (\A e \in Ends : CtxShape(y.ctx[e])) /\ y.ctx["s"].taskQueue = <<>> /\ Queue(y) = Queue(x)
        /\ (\A q \in y.req : q \in x.req) /\ IsFiniteSet(y.req) /\ DOMAIN y.fds = Ends /\ DOMAIN y.ctx = Ends
        /\ y.forkFailed \in BOOLEAN /\ y.emptyFailed \in BOOLEAN
    BY <1>1, <1>2 DEF Queue, Master
  <2> QED BY <1>2, <2>1, XferShape, Zenon
<1> QED BY <1>2, <1>3 DEF y

\* A write that fails: the sum of what was written is below the size, unless
\* the file is empty.
LEMMA XferMissing ==
  ASSUME PlanFits, NEW v, Working(v), NEW r, WriteFacts(v, r), ~v.ctx["s"].ioFinish, ~xcfg.shrinks,
         v.ctx["s"].indexIO >= v.ctx["s"].fileSize
  PROVE  v.ctx["s"].fileSize = 0
<1> DEFINE f == Cur(v)
           j == r.index[1]
           n == r.index[2]
           A == Arrived(v, f)
<1>1. /\ n \in {0, 1} /\ j \in Nat /\ j \notin A /\ (n = 1 => j < xcfg.sizes[f])
      /\ (n = 0 => xcfg.sizes[f] = 0) /\ SlaveReady(v) /\ f \in Files
  BY DEF WriteFacts, InQueue
<1>2. xcfg.sizes[f] \in Nat /\ v.ctx["s"].fileSize = xcfg.sizes[f] /\ v.ctx["s"].indexIO = Cardinality(A)
  BY <1>1 DEF PlanFits, SlaveReady, Slave, Working, Core, DiskFits
<1>3. CASE n = 0
  BY <1>1, <1>2, <1>3
<1>4. CASE n = 1
  <2>1. (xcfg.sizes[f] - 1) \in Int /\ j \in Blk(f)
    BY <1>1, <1>2, <1>4 DEF Blk
  <2>2. IsFiniteSet(Blk(f))
    BY <2>1, FS_Interval DEF Blk
  <2>3. Cardinality(0 .. (xcfg.sizes[f] - 1)) = IF 0 > xcfg.sizes[f] - 1 THEN 0 ELSE xcfg.sizes[f] - 1 - 0 + 1
    BY <2>1, FS_Interval
  <2>4. Cardinality(Blk(f)) = xcfg.sizes[f]
    <3>1. Cardinality(0 .. (xcfg.sizes[f] - 1)) = xcfg.sizes[f]
      BY <1>2, <2>3
    <3> QED BY <3>1 DEF Blk
  <2>5. A \subseteq Blk(f) \ {j}
    BY <1>1 DEF Arrived
  <2>6. IsFiniteSet(Blk(f) \ {j}) /\ Cardinality(Blk(f) \ {j}) = Cardinality(Blk(f)) - 1
    BY <2>1, <2>2, FS_RemoveElement
  <2>7. IsFiniteSet(A) /\ Cardinality(A) <= Cardinality(Blk(f) \ {j})
    BY <2>5, <2>6, FS_Subset
  <2>8. Cardinality(A) \in Nat
    BY <2>7, FS_CardinalityType
  <2> QED BY <1>2, <2>4, <2>6, <2>7, <2>8
<1> QED BY <1>1, <1>3, <1>4

\* A write of the slave has failed: u is the state after TransferSummary and
\* TaskFinish, b is the state that TaskFinish alone would have led to.
FailedWrite(v, b, u) ==
  /\ TransferShape(u) /\ u.net = b.net /\ u.req = b.req /\ u.fds = b.fds /\ u.made = b.made /\ u.data = b.data
  /\ u.told = b.told /\ u.forkFailed = b.forkFailed /\ u.emptyFailed = (v.emptyFailed \/ v.ctx["s"].fileSize = 0)
  /\ u.summary = v.summary \/ (u.summary = "ok" => v.ctx["s"].indexIO >= v.ctx["s"].fileSize)
  /\ u.ctx["m"] = v.ctx["m"] /\ CtxRest(v.ctx["s"], u.ctx["s"]) /\ u.ctx["s"].isFdOpen = v.ctx["s"].isFdOpen
  /\ u.ctx["s"].lastErrno /\ RefsBut(u, "s", 1)

\* ProcressFileIO of the slave: the file ends with the error.
LEMMA XferErrorEnds ==
  ASSUME PlanFits, NEW v, Working(v), NEW r, WriteFacts(v, r), v.ctx["s"].task \in {"run", "stopped"}, ~v.ctx["s"].ioFinish,
         NEW b, Working(b), b.ctx = v.ctx, b.req = v.req, SameDisk(v, b), ~isApp /\ ~b.ctx["s"].singalStop => Closing(b, "m"),
         NEW u, FailedWrite(v, b, u), NEW z \in ProcressFileIOFinish([u EXCEPT !.ctx["s"].ioFinish = TRUE], "s")
  PROVE  Good(DropRef(z, "s"))
<1>1. /\ Master(b).isFdOpen = Master(v).isFdOpen /\ InQueue(b) /\ b.ctx["s"].task \in {"run", "stopped"}
      /\ u.ctx["m"] = b.ctx["m"] /\ CtxRest(b.ctx["s"], u.ctx["s"]) /\ u.ctx["s"].isFdOpen = b.ctx["s"].isFdOpen
  BY DEF WriteFacts, InQueue, Cur, Queue, Master, FailedWrite
<1>2. b.emptyFailed => u.emptyFailed
  BY DEF FailedWrite, SameDisk
<1>3. u.summary = b.summary \/ (u.summary = "ok" /\ ~u.emptyFailed => AllDone(b))
  <2> SUFFICES ASSUME u.summary # v.summary, u.summary = "ok", ~u.emptyFailed, ~xcfg.shrinks PROVE FALSE
    BY DEF AllDone, SameDisk
  <2>1. v.ctx["s"].indexIO >= v.ctx["s"].fileSize /\ v.ctx["s"].fileSize # 0
    BY DEF FailedWrite
  <2> QED BY <2>1, XferMissing
<1>4. /\ TransferShape(u) /\ RefsBut(u, "s", 1) /\ u.fds = b.fds /\ u.net = b.net /\ u.req = b.req /\ u.made = b.made
      /\ u.data = b.data /\ u.told = b.told /\ u.forkFailed = b.forkFailed /\ u.ctx["s"].lastErrno
  BY DEF FailedWrite
<1> QED BY <1>1, <1>2, <1>3, <1>4, XferSlaveEnds

\* ProcressFileIO of the slave: what the error leaves, with the summary.
LEMMA XferFailedSummary ==
  ASSUME NEW v, TransferShape(v), RefsBut(v, "s", 1)
  PROVE  /\ FailedWrite(v, v, Failed(v, "s")) /\ FailedWrite(v, v, TransferSummary(Failed(v, "s"), "s"))
         /\ TransferSummary(Failed(v, "s"), "s").ctx["s"].singalStop = v.ctx["s"].singalStop
<1> DEFINE F == Failed(v, "s")
           T == TransferSummary(F, "s")
<1>0. 1 \in Int /\ "s" \in Ends /\ "m" \in Ends /\ "m" # "s"
  BY XferEnds
<1>1. /\ TransferShape(F) /\ F.net = v.net /\ F.req = v.req /\ F.fds = v.fds /\ F.made = v.made /\ F.data = v.data
      /\ F.told = v.told /\ F.summary = v.summary /\ F.forkFailed = v.forkFailed
      /\ F.emptyFailed = (v.emptyFailed \/ v.ctx["s"].fileSize = 0)
      /\ (\A e \in Ends : e # "s" => F.ctx[e] = v.ctx[e])
      /\ CtxRest(v.ctx["s"], F.ctx["s"]) /\ F.ctx["s"].isFdOpen = v.ctx["s"].isFdOpen
      /\ F.ctx["s"].lastErrno
  BY <1>0, XferFailed
<1>2. RefsBut(F, "s", 1)
  BY <1>0, XferFailed
<1> HIDE DEF F
<1>3. FailedWrite(v, v, F)
  BY <1>0, <1>1, <1>2 DEF FailedWrite
<1>4. /\ TransferShape(T) /\ T.ctx = F.ctx /\ T.net = F.net /\ T.req = F.req /\ T.made = F.made /\ T.told = F.told
      /\ T.data = F.data /\ T.forkFailed = F.forkFailed /\ T.emptyFailed = F.emptyFailed /\ T.fds = F.fds
      /\ T.summary = IF F.summary # "none" THEN F.summary
                     ELSE IF F.ctx["s"].indexIO >= F.ctx["s"].fileSize \/ ~F.ctx["s"].lastErrno THEN "ok" ELSE "fail"
  BY <1>0, <1>1, XferSummaryOnly
<1> HIDE DEF T
<1>5. RefsBut(T, "s", 1)
  <2>1. \A a \in Ends, k \in Int : RefsBut(F, a, k) => RefsBut(T, a, k)
    BY <1>4, XferRefsSame
  <2> QED BY <1>0, <1>2, <2>1
<1>6. T.summary = v.summary \/ (T.summary = "ok" => v.ctx["s"].indexIO >= v.ctx["s"].fileSize)
  <2>1. F.ctx["s"].indexIO = v.ctx["s"].indexIO /\ F.ctx["s"].fileSize = v.ctx["s"].fileSize
    BY <1>1 DEF CtxRest
  <2> QED BY <1>1, <1>4, <2>1
<1>7. FailedWrite(v, v, T) /\ T.ctx["s"].singalStop = v.ctx["s"].singalStop
  BY <1>0, <1>1, <1>4, <1>5, <1>6 DEF FailedWrite, CtxRest
<1> QED BY <1>3, <1>7 DEF T, F

\* TaskFinish after TransferSummary: the same message as without it.
LEMMA XferFailedFinish ==
  ASSUME NEW v, TransferShape(v), NEW T, FailedWrite(v, v, T), ~v.ctx["s"].singalStop, ~T.ctx["s"].singalStop
  PROVE  FailedWrite(v, TaskFinish(v, "s"), TaskFinish(T, "s"))
<1> DEFINE c == [cmd |-> "CHANNEL_CLOSE", arg |-> 1]
           b == [v EXCEPT !.net["m"] = Append(@, c)]
           u == [T EXCEPT !.net["m"] = Append(@, c)]
<1>0. TransferShape(T) /\ "m" \in Ends /\ "s" \in Ends /\ c.cmd \in Commands("m") /\ OtherEnd("s") = "m" /\ 1 \in Int
      /\ RefsBut(T, "s", 1)
  BY XferEnds DEF FailedWrite, Commands, ToMasterCommands
<1>1. TaskFinish(v, "s") = b /\ TaskFinish(T, "s") = u
  BY <1>0 DEF TaskFinish, SendToAnother
<1>2. b.net = [v.net EXCEPT !["m"] = Append(@, c)] /\ b.req = v.req /\ b.fds = v.fds /\ b.made = v.made /\ b.data = v.data
      /\ b.told = v.told /\ b.forkFailed = v.forkFailed
  <2> HIDE DEF c
  <2> QED BY <1>0, XferAppendFacts
<1>3. /\ u.net = [T.net EXCEPT !["m"] = Append(@, c)] /\ u.req = T.req /\ u.fds = T.fds /\ u.made = T.made /\ u.data = T.data
      /\ u.told = T.told /\ u.forkFailed = T.forkFailed /\ u.emptyFailed = T.emptyFailed /\ u.summary = T.summary
      /\ u.ctx = T.ctx /\ TransferShape(u)
  <2> HIDE DEF c
  <2> QED BY <1>0, XferAppendFacts
<1> HIDE DEF b, u, c
<1>4. RefsBut(u, "s", 1)
  <2>1. \A a \in Ends, k \in Int : RefsBut(T, a, k) => RefsBut(u, a, k)
    BY <1>3, XferRefsSame
  <2> QED BY <1>0, <2>1
<1>5. T.net = v.net
  BY DEF FailedWrite
<1>6. u.net = b.net
  BY <1>2, <1>3, <1>5
<1>7. FailedWrite(v, b, u)
  BY <1>2, <1>3, <1>4, <1>6 DEF FailedWrite
<1> QED BY <1>1, <1>7

\* OnFileIO of the slave: a write that fails ends the transfer.
LEMMA XferWriteFails ==
  ASSUME PlanFits, NEW v, Working(v), NEW r, WriteFacts(v, r), RefsBut(v, "s", 1),
         v.ctx["s"].task \in {"run", "stopped"}, ~v.ctx["s"].ioFinish,
         NEW z \in ProcressFileIOFinish([FileFinish(Failed(v, "s"), "s", 0) EXCEPT !.ctx["s"].ioFinish = TRUE], "s")
  PROVE  Good(DropRef(z, "s"))
<1> DEFINE F == Failed(v, "s")
           T == TransferSummary(F, "s")
           u == FileFinish(F, "s", 0)
           b == TaskFinish(v, "s")
<1>0. TransferShape(v) /\ "s" \in Ends /\ OtherEnd("s") = "m" /\ Slave(v).task # "none" /\ SameDisk(v, v)
  BY XferEnds DEF Working, Core, Slave, SameDisk
<1>1. FailedWrite(v, v, F) /\ FailedWrite(v, v, T) /\ T.ctx["s"].singalStop = v.ctx["s"].singalStop
  BY <1>0, XferFailedSummary
<1>2. u = IF isApp THEN F ELSE TaskFinish(T, "s")
  BY DEF FileFinish
<1>3. z \in ProcressFileIOFinish([u EXCEPT !.ctx["s"].ioFinish = TRUE], "s")
  OBVIOUS
<1>4. Sent(v, b) /\ (~v.ctx["s"].singalStop => Closing(b, "m"))
  BY <1>0, XferTaskFinish
<1> HIDE DEF F, T, u
<1>5. CASE isApp
  <2>1. FailedWrite(v, v, u)
    BY <1>1, <1>2, <1>5
  <2> QED BY <1>0, <1>3, <1>5, <2>1, XferErrorEnds
<1>6. CASE ~isApp /\ v.ctx["s"].singalStop
  <2>1. FailedWrite(v, v, u)
    BY <1>1, <1>2, <1>6 DEF TaskFinish, SendToAnother
  <2> QED BY <1>0, <1>3, <1>6, <2>1, XferErrorEnds
<1>7. CASE ~isApp /\ ~v.ctx["s"].singalStop
  <2>1. FailedWrite(v, b, u)
    BY <1>0, <1>1, <1>2, <1>7, XferFailedFinish
  <2> HIDE DEF b
  <2>2. Working(b) /\ b.ctx = v.ctx /\ b.req = v.req /\ SameDisk(v, b) /\ Closing(b, "m")
    BY <1>4, <1>7 DEF Sent
  <2> QED BY <1>0, <1>3, <2>1, <2>2, XferErrorEnds
<1> QED BY <1>5, <1>6, <1>7

\* OnFileIO: a write of the slave has completed.
LEMMA XferWriteStep ==
  ASSUME PlanFits, NEW x, Good(x), NEW r \in x.req, r.op = "write", x.ctx[r.end].task \in {"run", "stopped"},
         NEW error \in BOOLEAN, NEW p, p = ProcressFileIO(Written(Without(x, r), r, error), r, error),
         NEW z \in IF p.finished THEN ProcressFileIOFinish([p.x EXCEPT !.ctx[r.end].ioFinish = p.finished], r.end)
                   ELSE {[p.x EXCEPT !.ctx[r.end].ioFinish = p.finished]}
  PROVE  Good(DropRef(z, r.end))
<1> DEFINE v == Without(x, r)
           b == Written(v, r, error)
           n == r.index[2]
<1>1. Working(v) /\ v.ctx = x.ctx /\ RefsBut(v, "s", 1) /\ WriteFacts(v, r) /\ r.end = "s" /\ TransferShape(v)
  BY XferWriteFacts DEF WriteFacts, Working, Core
<1>2. p = ProcressFileIO(b, r, error)
  BY SMTT(30)
<1> HIDE DEF v
<1>3. b = Written(v, r, error) /\ b.ctx = v.ctx /\ (error => b = v)
  BY <1>1, XferWrittenData DEF Written
<1> HIDE DEF b
<1>4. v.ctx["s"].task \in {"run", "stopped"}
  BY <1>1
<1>5. z \in IF p.finished THEN ProcressFileIOFinish([p.x EXCEPT !.ctx["s"].ioFinish = p.finished], "s")
            ELSE {[p.x EXCEPT !.ctx["s"].ioFinish = p.finished]}
  BY <1>1
<1>6. CASE v.ctx["s"].ioFinish
  <2>1. p.x = b /\ p.finished = TRUE
    <3>1. b.ctx[r.end].ioFinish
      BY <1>1, <1>3, <1>6
    <3>2. p = [x |-> b, finished |-> TRUE]
      BY <1>2, <3>1, XferFileIO, Zenon
    <3> QED BY <3>2
  <2>2. z \in ProcressFileIOFinish([b EXCEPT !.ctx["s"].ioFinish = TRUE], "s")
    BY <1>5, <2>1
  <2> QED BY <1>1, <1>3, <1>4, <1>6, <2>2, XferLateWrite
<1>7. CASE ~v.ctx["s"].ioFinish /\ error
  <2>1. p.x = FileFinish(Failed(v, "s"), "s", 0) /\ p.finished = TRUE
    <3>1. p = [x |-> IF r.end = "s" THEN FileFinish(Failed(v, r.end), r.end, 0) ELSE Failed(v, r.end), finished |-> TRUE]
      <4>1. ~v.ctx[r.end].ioFinish /\ error /\ p = ProcressFileIO(v, r, error)
        BY <1>1, <1>2, <1>3, <1>7
      <4> QED BY <4>1, XferFileIO, Zenon
    <3> QED BY <1>1, <3>1
  <2>2. z \in ProcressFileIOFinish([FileFinish(Failed(v, "s"), "s", 0) EXCEPT !.ctx["s"].ioFinish = TRUE], "s")
    BY <1>5, <2>1
  <2> QED BY <1>1, <1>4, <1>7, <2>2, XferWriteFails
<1>8. CASE ~v.ctx["s"].ioFinish /\ ~error
  <2> DEFINE y == [b EXCEPT !.ctx["s"].indexIO = @ + n]
             full == y.ctx["s"].indexIO >= y.ctx["s"].fileSize \/ n = 0
             u == [y EXCEPT !.ctx["s"].closeNotify = TRUE]
  <2>1. p = ProcressFileIOWrite(b, r, n)
    <3>1. ~b.ctx[r.end].ioFinish /\ ~error
      BY <1>1, <1>3, <1>8
    <3> DEFINE m == IF r.op = "write" THEN r.index[2] ELSE IF r.index < Available(r.file) THEN 1 ELSE 0
    <3>2. p = IF r.end = "m" THEN ProcressFileIORead(b, r, m) ELSE ProcressFileIOWrite(b, r, m)
      BY <1>2, <3>1, XferFileIO, ZenonT(40)
    <3>3. m = n /\ r.end # "m"
      BY <1>1
    <3> QED BY <3>2, <3>3, Zenon
  <2>2. (full => p.x = u /\ p.finished = TRUE) /\ (~full => p.x = y /\ p.finished = FALSE)
    <3>1. p = IF full THEN [x |-> u, finished |-> TRUE] ELSE [x |-> y, finished |-> FALSE]
      BY <2>1, Zenon DEF ProcressFileIOWrite
    <3> HIDE DEF full, u, y
    <3> QED BY <3>1
  <2>3. /\ full => z \in ProcressFileIOFinish([u EXCEPT !.ctx["s"].ioFinish = TRUE], "s")
        /\ ~full => z = [y EXCEPT !.ctx["s"].ioFinish = FALSE]
    <3> HIDE DEF full, u, y
    <3> QED BY <1>5, <2>2, XferWriteEnds, Zenon
  <2>4. b = Written(v, r, FALSE)
    BY <1>3, <1>8
  <2>5. Wrote(v, r, y)
    BY <1>1, <1>8, <2>4, XferWroteBlock, Zenon
  <2> HIDE DEF y
  <2>6. /\ y.ctx["s"].indexIO >= y.ctx["s"].fileSize \/ r.index[2] = 0 =>
             z \in ProcressFileIOFinish([[y EXCEPT !.ctx["s"].closeNotify = TRUE] EXCEPT !.ctx["s"].ioFinish = TRUE], "s")
        /\ ~(y.ctx["s"].indexIO >= y.ctx["s"].fileSize \/ r.index[2] = 0) => z = [y EXCEPT !.ctx["s"].ioFinish = FALSE]
    BY <2>3, Zenon
  <2>7. Working(v) /\ WriteFacts(v, r) /\ RefsBut(v, "s", 1) /\ v.ctx["s"].task \in {"run", "stopped"} /\ ~v.ctx["s"].ioFinish
    BY <1>1, <1>4, <1>8
  <2>8. Good(DropRef(z, "s"))
    BY <2>5, <2>6, <2>7, XferWriteBlock, Zenon
  <2> QED BY <1>1, <2>8, Zenon
<1> QED BY <1>6, <1>7, <1>8

\* Every step of a transfer that has begun keeps the invariant.
LEMMA XferStep ==
  ASSUME PlanFits, Good(xfer), TransferNextState
  PROVE  Good(xfer') /\ xcfg' = xcfg
<1>0. Working(xfer) /\ Master(xfer).task # "none"
  BY DEF Good, Working
<1>1. CASE BeginTransfer
  BY <1>0, <1>1 DEF BeginTransfer, Master
<1>2. CASE ClientLeaves
  <2>1. PICK a \in Ends : xfer' = [xfer EXCEPT !.aborted = TRUE, !.net[a] = Append(@, [cmd |-> "CHANNEL_CLOSE", arg |-> 1])]
    BY <1>2, Zenon DEF ClientLeaves
  <2>2. Slave(xfer).task = "run" /\ xcfg' = xcfg
    BY <1>2 DEF ClientLeaves, Slave
  <2> QED BY <2>1, <2>2, XferLeaveStep, Zenon
<1>3. ASSUME NEW a \in Ends, CommandDispatch(a) PROVE Good(xfer') /\ xcfg' = xcfg
  <2>1. Good(xfer')
    BY <1>3, XferCommandStep
  <2> QED BY <1>3, <2>1 DEF CommandDispatch
<1>4. ASSUME NEW a \in Ends, ReleaseTask(a) PROVE Good(xfer') /\ xcfg' = xcfg
  <2>1. /\ xfer' = [(IF ClosedAtEnd(xfer.ctx[a]) THEN CloseCtxFd(xfer, a) ELSE xfer) EXCEPT !.ctx[a].task = "deleted"]
        /\ xfer.ctx[a].task = "stopped" /\ ReadyForRelease(xfer.ctx[a]) /\ xcfg' = xcfg
    BY <1>4 DEF ReleaseTask
  <2> QED BY <2>1, XferReleaseStep
<1>5. ASSUME NEW r \in xfer.req, OnFileOpen(r) PROVE Good(xfer') /\ xcfg' = xcfg
  <2> DEFINE a == r.end
             u == DropRef(Without(xfer, r), a)
             y == OpenedAt(u, a, r.file)
  <2>1. /\ r.op = "open" /\ xfer.ctx[r.end].task \in {"run", "stopped"} /\ xcfg' = xcfg
        /\ \/ xfer' = OnFileOpenFailed([u EXCEPT !.told = @ \cup {r.file}], a)
           \/ a = "m" /\ xfer' = CheckMaster(y, r.file)
           \/ a = "s" /\ xfer' = SendToAnother([y EXCEPT !.made = @ \cup {r.file}], "s", "BEGIN", r.file)
    BY <1>5, Zenon DEF OnFileOpen, Complete, OpenedAt
  <2> QED BY <2>1, XferOpenStep
<1>6. ASSUME NEW r \in xfer.req, OnFileIO(r) PROVE Good(xfer') /\ xcfg' = xcfg
  <2>1. PICK error \in BOOLEAN :
          LET p == ProcressFileIO(Written(Without(xfer, r), r, error), r, error)
          IN  \E z \in IF p.finished THEN ProcressFileIOFinish([p.x EXCEPT !.ctx[r.end].ioFinish = p.finished], r.end)
                       ELSE {[p.x EXCEPT !.ctx[r.end].ioFinish = p.finished]} : xfer' = DropRef(z, r.end)
    BY <1>6, Zenon DEF OnFileIO
  <2> DEFINE p == ProcressFileIO(Written(Without(xfer, r), r, error), r, error)
  <2>2. p = ProcressFileIO(Written(Without(xfer, r), r, error), r, error)
    OBVIOUS
  <2>3. PICK z \in IF p.finished THEN ProcressFileIOFinish([p.x EXCEPT !.ctx[r.end].ioFinish = p.finished], r.end)
                   ELSE {[p.x EXCEPT !.ctx[r.end].ioFinish = p.finished]} : xfer' = DropRef(z, r.end)
    BY <2>1, Zenon
  <2> HIDE DEF p
  <2>4. r.op \in {"read", "write"} /\ xfer.ctx[r.end].task \in {"run", "stopped"} /\ xcfg' = xcfg
    BY <1>6 DEF OnFileIO, Complete
  <2>5. Good(DropRef(z, r.end))
    BY <2>2, <2>4, XferReadStep, XferWriteStep, Zenon
  <2> QED BY <2>3, <2>4, <2>5
<1>7. ASSUME NEW r \in xfer.req, AsyncInstallFinish(r) PROVE Good(xfer') /\ xcfg' = xcfg
  <2>1. /\ r.op = "install" /\ xfer.ctx[r.end].task \in {"run", "stopped"} /\ xcfg' = xcfg
        /\ xfer' = DropRef(SendToAnother(Without(xfer, r), "s", "APP_FINISH", r.file), "s")
    BY <1>7 DEF AsyncInstallFinish, Complete
  <2> QED BY <2>1, XferInstallStep
<1> QED BY <1>1, <1>2, <1>3, <1>4, <1>5, <1>6, <1>7 DEF TransferNextState

\* The state before the transfer satisfies the invariant.
LEMMA XferNothingYet ==
  ASSUME PlanFits
  PROVE  Core(NoTransfer) /\ Held(NoTransfer) /\ RefsCount(NoTransfer)
<1> DEFINE x == NoTransfer
<1>0. /\ DOMAIN x = DOMAIN NoTransfer /\ x.ctx = [a \in Ends |-> NewCtx("none")] /\ x.net = [a \in Ends |-> <<>>] /\ x.req = {}
      /\ x.fds = [a \in Ends |-> {}] /\ x.made = {} /\ x.data = {} /\ x.told = {} /\ x.summary = "none"
      /\ x.forkFailed = FALSE /\ x.emptyFailed = FALSE /\ x = NoTransfer
  BY DEF NoTransfer
<1> HIDE DEF x
<1>1. /\ "m" \in Ends /\ "s" \in Ends /\ DOMAIN x.ctx = Ends /\ DOMAIN x.net = Ends /\ DOMAIN x.fds = Ends
      /\ \A a \in Ends : x.ctx[a] = NewCtx("none") /\ x.net[a] = <<>> /\ x.fds[a] = {} /\ Len(x.net[a]) = 0
  BY <1>0 DEF Ends
<1>2. \A c : c = NewCtx("none") =>
        /\ c.task = "none" /\ c.isFdOpen = FALSE /\ c.indexIO = 0 /\ c.fileSize = 0 /\ c.ioFinish = FALSE
        /\ c.closeNotify = FALSE /\ c.lastErrno = FALSE /\ c.taskQueue = <<>> /\ c.refCount = 0 /\ c.singalStop = FALSE
        /\ c.openFd = 0
  BY DEF NewCtx
<1>3. TransferShape(x)
  <2>1. \A a \in Ends : CtxShape(x.ctx[a])
    <3>1. CtxShape(NewCtx("none"))
      <4> DEFINE c == NewCtx("none")
      <4>1. c.indexIO \in Nat /\ c.refCount \in Int /\ c.task = "none" /\ ~c.singalStop
        BY <1>2
      <4>2. /\ c.isFdOpen = FALSE /\ c.ioFinish = FALSE /\ c.lastErrno = FALSE /\ c.closeNotify = FALSE
            /\ c.singalStop = FALSE /\ DOMAIN c = DOMAIN NewCtx("none")
        BY <1>2
      <4> HIDE DEF c
      <4>3. CtxShape(c)
        BY <4>1, <4>2, Zenon DEF CtxShape
      <4> QED BY <4>3 DEF c
    <3> QED BY <1>1, <3>1
  <2>2. \A a \in Ends : NetShape(x.net[a], a)
    BY <1>1 DEF NetShape
  <2>3. IsFiniteSet(x.req) /\ \A r \in x.req : ReqShape(r)
    BY <1>0, FS_EmptySet
  <2>4. Slave(x).taskQueue = <<>> /\ QueueShape(Queue(x))
    BY <1>1, <1>2 DEF Slave, Queue, Master, QueueShape, PlanFits
  <2> QED BY <1>0, <1>1, <2>1, <2>2, <2>3, <2>4 DEF TransferShape
<1>4. \A a \in Ends : \A i : i \notin 1 .. Len(x.net[a])
  BY <1>1
<1>5. /\ Master(x).task = "none" /\ Slave(x).task = "none" /\ ~Master(x).isFdOpen /\ ~Slave(x).isFdOpen
      /\ ~Master(x).lastErrno /\ ~Slave(x).lastErrno /\ ~Master(x).closeNotify /\ ~Slave(x).closeNotify
      /\ Queue(x) = <<>> /\ Slave(x).openFd = 0 /\ Master(x).openFd = 0
  BY <1>1, <1>2 DEF Master, Slave, Queue
<1>6. WokenFirst(x)
  BY <1>0, <1>1, <1>4, <1>5 DEF WokenFirst
<1>7. OneFile(x)
  BY <1>0, <1>1, <1>2 DEF OneFile
<1>8. OneToken(x)
  BY <1>0, <1>4 DEF OneToken, TokenAt, TokenIn
<1>9. RequestFacts(x) /\ MessageFacts(x)
  BY <1>0, <1>1, <1>4 DEF RequestFacts, MessageFacts
<1>10. Blocks(x) /\ NoData(x)
  BY <1>0, <1>1, <1>4 DEF Blocks, NoData, IsData
<1>11. DiskFits(x)
  BY <1>0 DEF DiskFits, SlaveReady
<1>12. ErrorsKnown(x)
  BY <1>0, <1>5 DEF ErrorsKnown
<1>13. FinishMeans(x)
  BY <1>0, <1>1, <1>4, <1>5 DEF FinishMeans
<1>14. Held(x)
  BY <1>0, <1>10 DEF Held
<1>15. RefsCount(x)
  <2>1. \A a \in Ends : {r \in x.req : r.end = a} = {} /\ Leaked(x, a) = 0 /\ x.ctx[a].refCount = 0
    BY <1>0, <1>1, <1>2 DEF Leaked
  <2>2. Cardinality({}) = 0
    BY FS_EmptySet
  <2>3. \A a \in Ends : Cardinality({r \in x.req : r.end = a}) = 0
    BY <2>1, <2>2, Zenon
  <2> QED BY <2>1, <2>3 DEF RefsCount
<1> QED BY <1>3, <1>6, <1>7, <1>8, <1>9, <1>10, <1>11, <1>12, <1>13, <1>14, <1>15 DEF Core, x

\* The plan never changes: what holds of the next state under the plan of this
\* one holds under its own.
LEMMA XferSamePlan ==
  ASSUME xcfg' = xcfg, Core(xfer'), Held(xfer'), RefsCount(xfer')
  PROVE  (Core(xfer) /\ Held(xfer) /\ RefsCount(xfer))'
<1>1. TransferShape(xfer)'
  BY Zenon DEF Core, TransferShape, CtxShape, NetShape, Commands, ToSlaveCommands, ToMasterCommands, ReqShape, QueueShape, Slave,
         Queue, Master, NoTransfer, NewCtx, Ends
<1>2. WokenFirst(xfer)'
  BY Zenon DEF Core, WokenFirst, Slave, Master, NoTransfer, NewCtx, Ends
<1>3. OneFile(xfer)'
  BY Zenon DEF Core, OneFile, Ends
<1>4. OneToken(xfer)'
  BY Zenon DEF Core, OneToken, TokenAt, TokenIn, NoMessage, Live, Control, Queue, Master, Ends
<1>5. RequestFacts(xfer)'
  BY ZenonT(40) DEF Core, RequestFacts, OpenFacts, Begun, ReadFacts, PackageFacts, MasterReady, SlaveReady, SlaveClosed, Closing,
         InQueue, Cur, Queue, Master, Slave, NoData, IsData, isApp, Files
<1>6. MessageFacts(xfer)'
  BY ZenonT(40) DEF Core, MessageFacts, SlaveMessage, MasterMessage, TokenAt, Live, Control, Ends,
         OpenFacts, Begun, ReadFacts, PackageFacts, MasterReady, SlaveReady, SlaveClosed, Closing,
         InQueue, Cur, Queue, Master, Slave, NoData, IsData, isApp, Files
<1>7. Blocks(xfer)'
  BY ZenonT(40) DEF Core, Blocks, BlockFits, RecvIOPayload, Arrived, Blk, MasterReady, SlaveReady, InQueue, Cur, Queue, Master, Slave,
         NoData, IsData, isApp, Files
<1>8. DiskFits(xfer)'
  BY Zenon DEF Core, DiskFits, Arrived, Blk, MasterReady, SlaveReady, Cur, Queue, Master, Slave, isApp, Files
<1>9. ErrorsKnown(xfer)'
  BY Zenon DEF Core, ErrorsKnown, Free, TokenIn, NoMessage, TokenAt, Live, Control, Ends, MasterReady, InQueue, Cur, Queue,
         Master, Slave, NoData, IsData, isApp, Files, Closing
<1>10. FinishMeans(xfer)'
  BY Zenon DEF Core, FinishMeans, AllDone, Done, Arrived, Blk, Live, Cur, Queue, Master, isApp, Files
<1>11. Held(xfer)'
  BY Zenon DEF Held, SlaveClosed, Closing, NoData, IsData, Master, Slave
<1>12. RefsCount(xfer)'
  BY Zenon DEF RefsCount, Leaked, Ends
<1> QED BY <1>1, <1>2, <1>3, <1>4, <1>5, <1>6, <1>7, <1>8, <1>9, <1>10, <1>11, <1>12, Zenon DEF Core

\* The inductive invariant of a transfer.
THEOREM TransferInvariant == TransferSpec => []TransferInv
<1>1. TransferInit => TransferInv
  BY XferPlans, XferNothingYet DEF TransferInit, TransferInv
<1>2. TransferInv /\ [TransferNextState]_xferVars => TransferInv'
  <2> SUFFICES ASSUME TransferInv, [TransferNextState]_xferVars PROVE TransferInv'
    OBVIOUS
  <2>1. xcfg' = xcfg
    BY Zenon DEF TransferNextState, BeginTransfer, ClientLeaves, CommandDispatch, ReleaseTask, OnFileOpen, OnFileIO,
           AsyncInstallFinish, xferVars
  <2>2. xcfg \in Plans /\ (Tractable => PlanFits /\ Core(xfer) /\ Held(xfer) /\ RefsCount(xfer))
    BY XferPlans DEF TransferInv
  <2>3. ASSUME Tractable PROVE Core(xfer') /\ Held(xfer') /\ RefsCount(xfer')
    <3>1. CASE UNCHANGED xferVars
      <4>1. xfer' = xfer
        BY <3>1 DEF xferVars
      <4> QED BY <2>2, <2>3, <4>1
    <3>2. CASE TransferNextState /\ Master(xfer).task # "none"
      <4>1. Good(xfer)
        BY <2>2, <2>3, <3>2 DEF Good, Working
      <4>2. Good(xfer')
        BY <2>2, <2>3, <3>2, <4>1, XferStep
      <4> QED BY <4>2 DEF Good, Working
    <3>3. CASE TransferNextState /\ Master(xfer).task = "none"
      <4>1. xfer = NoTransfer
        BY <2>2, <2>3, <3>3 DEF Core, WokenFirst
      <4>2. /\ xfer.req = {} /\ \A a \in Ends : xfer.net[a] = <<>> /\ xfer.ctx[a].task = "none"
        BY <4>1 DEF NoTransfer, NewCtx
      <4>3. BeginTransfer
        BY <3>3, <4>2, XferEnds, Zenon DEF TransferNextState, ClientLeaves, CommandDispatch, ReleaseTask
      <4>4. Good(xfer')
        BY <2>2, <2>3, <4>1, <4>3, XferBeginTransferStep
      <4> QED BY <4>4 DEF Good, Working
    <3> QED BY <3>1, <3>2, <3>3
  <2>4. Tractable' => Tractable
    BY <2>1 DEF Tractable
  <2>5. Tractable' => (Core(xfer) /\ Held(xfer) /\ RefsCount(xfer))'
    BY <2>1, <2>3, <2>4, XferSamePlan
  <2>6. (xcfg \in Plans)'
    BY <2>1, <2>2 DEF Plans
  <2> QED BY <2>5, <2>6 DEF TransferInv
<1> QED BY <1>1, <1>2, PTL DEF TransferSpec

\* refCount of a task counts the requests the pool still has for it, so a task
\* is not deleted under one, and no file stays open behind a deleted task
\* (OnFileIO, OnFileOpen, PackageShell, ReadyForRelease, ~HdcTransferBase).
THEOREM TransferResourcesHold == TransferSpec => []TransferResources
<1>1. TransferInv => TransferResources
  <2> SUFFICES ASSUME TransferInv, Tractable, NEW a \in Ends
               PROVE  LET n == Cardinality({r \in xfer.req : r.end = a})
                      IN  /\ xfer.ctx[a].refCount = n + (IF a = "s" /\ xfer.forkFailed THEN 1 ELSE 0)
                          /\ xfer.ctx[a].task = "deleted" => n = 0 /\ xfer.fds[a] = {}
    BY DEF TransferResources, Tractable
  <2>1. OneFile(xfer) /\ RefsCount(xfer)
    BY DEF TransferInv, Core
  <2>2. xfer.ctx[a].task = "deleted" => {r \in xfer.req : r.end = a} = {} /\ xfer.fds[a] = {}
    BY <2>1 DEF OneFile
  <2>3. xfer.ctx[a].task = "deleted" => Cardinality({r \in xfer.req : r.end = a}) = 0
    BY <2>2, FS_EmptySet
  <2> QED BY <2>1, <2>2, <2>3 DEF RefsCount, Leaked
<1> QED BY <1>1, TransferInvariant, PTL

\* What is reported as transferred is on the other end, block by block, or the
\* user was told about it (TransferSummary, ProcressFileIOWrite).
THEOREM ReportedIsIntactHolds == TransferSpec => []ReportedIsIntact
<1>1. TransferInv => ReportedIsIntact
  <2> SUFFICES ASSUME TransferInv, xfer.summary = "ok", ~xcfg.shrinks, ~xfer.emptyFailed, NEW f \in Files, f \notin xfer.told
               PROVE  Intact(f)
    BY DEF ReportedIsIntact
  <2>1. DiskFits(xfer) /\ FinishMeans(xfer)
    BY DEF TransferInv, Core, Tractable
  <2>2. f \in xfer.made /\ Arrived(xfer, f) = Blk(f)
    BY <2>1 DEF FinishMeans, AllDone, Done
  <2>3. \A d \in xfer.data : d[2] \in Blk(d[1]) /\ d = <<d[1], d[2], <<d[1], d[2]>>>>
    BY <2>1 DEF DiskFits
  <2>4. \A i \in Blk(f) : <<f, i, <<f, i>>>> \in xfer.data
    BY <2>2 DEF Arrived
  <2>5. {d \in xfer.data : d[1] = f} = {<<f, i, <<f, i>>>> : i \in Blk(f)}
    BY <2>3, <2>4
  <2> QED BY <2>2, <2>5 DEF Intact, Blk
<1> QED BY <1>1, TransferInvariant, PTL
=============================================================================
