------------------------- MODULE HdcServices_proofs -------------------------
(***************************************************************************)
(* Proofs about the services of a session: port forwarding, and the list of *)
(* processes that can be debugged.  The inductive invariants are at the end *)
(* of the components' modules: ForwardInv speaks of a state x of both tasks, *)
(* since the handlers are built from operators that map such a state to the *)
(* next; JdwpInv of the daemon's queues, the connections and the list.       *)
(***************************************************************************)
EXTENDS HdcForward, HdcJdwp, FiniteSetTheorems, TLAPS

-----------------------------------------------------------------------------
(* Port forwarding: what each operator of the model keeps                  *)

\* There are finitely many connections, so that contexts can be counted.
LEMMA FwdConnsFinite == IsFiniteSet(Conns)
BY FS_Interval, ForwardBounds DEF Conns

\* The two ends are the other side of each other.
LEMMA FwdOther == \A e \in FwdEnds : OtherSide(e) \in FwdEnds /\ OtherSide(e) # e
                                     /\ \A d \in FwdEnds : d = e \/ d = OtherSide(e)
BY DEF FwdEnds, OtherSide

\* The id of a message under way is that of a connection.
LEMMA FwdIds ==
  ASSUME NEW x, ForwardShape(x), NEW e \in FwdEnds, NEW k \in 1 .. Len(x.net[e])
  PROVE  x.net[e][k].id \in Conns
<1>1. x.net[e] \in Seq(ForwardMessages)
  BY DEF ForwardShape
<1>2. x.net[e][k] \in ForwardMessages
  BY <1>1
<1> QED BY <1>2 DEF ForwardMessages

\* SendToTask changes the messages to the other end only.
LEMMA FwdSendFacts ==
  ASSUME NEW x, ForwardShape(x), NEW e \in FwdEnds, NEW cmd \in ForwardCommands, NEW i \in Conns
  PROVE  LET y == SendToTask(x, e, cmd, i)
         IN  /\ ForwardShape(y)
             /\ y.ctx = x.ctx /\ y.mapCtxPoint = x.mapCtxPoint /\ y.refCount = x.refCount /\ y.task = x.task
             /\ y.arkFd = x.arkFd
             /\ y.net[OtherSide(e)] = Append(x.net[OtherSide(e)], [cmd |-> cmd, id |-> i])
             /\ y.net[e] = x.net[e]
<1> DEFINE y == SendToTask(x, e, cmd, i)
           m == [cmd |-> cmd, id |-> i]
           d == OtherSide(e)
<1>0. d \in FwdEnds /\ d # e /\ \A f \in FwdEnds : f = e \/ f = d
  BY FwdOther
<1>1. y = [x EXCEPT !.net[d] = Append(@, m)]
  BY DEF SendToTask
<1>2. m \in ForwardMessages
  BY DEF ForwardMessages
<1> HIDE DEF m, d, y
<1>3. /\ y.ctx = x.ctx /\ y.mapCtxPoint = x.mapCtxPoint /\ y.refCount = x.refCount /\ y.task = x.task
      /\ y.arkFd = x.arkFd /\ y.net[d] = Append(x.net[d], m) /\ y.net[e] = x.net[e]
      /\ DOMAIN y = DOMAIN x /\ DOMAIN y.net = FwdEnds
  BY <1>0, <1>1 DEF ForwardShape
<1>4. Append(x.net[d], m) \in Seq(ForwardMessages)
  BY <1>0, <1>2 DEF ForwardShape
<1>5. \A f \in FwdEnds : y.net[f] \in Seq(ForwardMessages)
  BY <1>0, <1>3, <1>4 DEF ForwardShape
<1>6. ForwardShape(y)
  BY <1>3, <1>5 DEF ForwardShape
<1> QED BY <1>3, <1>6 DEF y, d, m

\* Setting one context.
LEMMA FwdSetFacts ==
  ASSUME NEW x, ForwardShape(x), NEW e \in FwdEnds, NEW i \in Conns,
         NEW c, DOMAIN c = DOMAIN NoContext
  PROVE  LET y == [x EXCEPT !.ctx[e][i] = c]
         IN  /\ ForwardShape(y)
             /\ y.mapCtxPoint = x.mapCtxPoint /\ y.refCount = x.refCount /\ y.task = x.task /\ y.net = x.net
             /\ y.arkFd = x.arkFd
             /\ y.ctx[e][i] = c
             /\ \A d \in FwdEnds, j \in Conns : d # e \/ j # i => y.ctx[d][j] = x.ctx[d][j]
BY DEF ForwardShape

\* What a step may do to a context without a count or a message changing.
CtxMoves(c, d) ==
  /\ d.st \in {"live", "connecting", "closing", "closed"} <=> c.st \in {"live", "connecting", "closing", "closed"}
  /\ d.st \in {"none", "live", "connecting", "closing", "closed", "deleted"}
  /\ d.st = "none" <=> c.st = "none"
  /\ c.st = "none" => d = c
  /\ d.st \in {"closing", "closed", "deleted"} => d.finish
  /\ d.idle = c.idle /\ d.checkPoint = c.checkPoint
  /\ d.io = "run" => d.st \in {"live", "closing"}
  /\ fkind # "dev" /\ c.connected => d.connected

\* Messages under way keep fitting while no context is unmade, no target is lost
\* and no context is made that the master has just asked for.
LEMMA FwdMessagesKept ==
  ASSUME NEW x, ForwardFits(x), NEW y, y.net = x.net,
         \A i \in Conns :
           /\ x.ctx["master"][i].st # "none" => y.ctx["master"][i].st # "none"
           /\ \/ x.ctx["slave"][i].st = "none" => y.ctx["slave"][i].st = "none"
              \/ \A k \in 1 .. Len(x.net["slave"]) :
                   ~(x.net["slave"][k].cmd \in Opening /\ x.net["slave"][k].id = i)
           /\ fkind # "dev" /\ x.ctx["slave"][i].connected => y.ctx["slave"][i].connected
  PROVE  MessagesFit(y)
<1>1. \A e \in FwdEnds : \A k \in 1 .. Len(x.net[e]) : x.net[e][k].id \in Conns
  BY FwdIds DEF ForwardFits
<1>2. \A k \in 1 .. Len(y.net["slave"]) : ToSlave(y, y.net["slave"][k])
  <2> TAKE k \in 1 .. Len(y.net["slave"])
  <2>1. k \in 1 .. Len(x.net["slave"]) /\ y.net["slave"][k] = x.net["slave"][k]
    OBVIOUS
  <2>2. ToSlave(x, x.net["slave"][k]) /\ x.net["slave"][k].id \in Conns
    BY <1>1, <2>1 DEF ForwardFits, MessagesFit, FwdEnds
  <2> QED BY <2>1, <2>2 DEF ToSlave
<1>3. \A k \in 1 .. Len(y.net["master"]) : ToMaster(y, y.net["master"][k])
  <2> TAKE k \in 1 .. Len(y.net["master"])
  <2>1. k \in 1 .. Len(x.net["master"]) /\ y.net["master"][k] = x.net["master"][k]
    OBVIOUS
  <2>2. ToMaster(x, x.net["master"][k]) /\ x.net["master"][k].id \in Conns
    BY <1>1, <2>1 DEF ForwardFits, MessagesFit, FwdEnds
  <2> QED BY <2>1, <2>2 DEF ToMaster
<1> QED BY <1>2, <1>3 DEF ForwardFits, MessagesFit

\* A step that makes and deletes no context, tells nothing and counts nothing.
LEMMA FwdQuiet ==
  ASSUME NEW x, ForwardFits(x), NEW y, ForwardShape(y),
         y.net = x.net, y.refCount = x.refCount,
         \A e \in FwdEnds : /\ y.mapCtxPoint[e] \subseteq x.mapCtxPoint[e]
                            /\ y.task[e] = x.task[e] \/ (x.task[e] = "run" /\ y.task[e] = "stopped")
                            /\ \A i \in Conns : CtxMoves(x.ctx[e][i], y.ctx[e][i]),
         fkind # "dev" => \A i \in Conns \ {0} : y.ctx["master"][i].ready =>
                             x.ctx["master"][i].ready \/ y.ctx["slave"][i].connected
  PROVE  ForwardFits(y)
<1> USE DEF FwdEnds
<1>1. ContextStages(y)
  BY DEF ForwardFits, ContextStages, CtxMoves
<1>2. MessagesFit(y)
  <2>1. \A i \in Conns : /\ x.ctx["master"][i].st # "none" => y.ctx["master"][i].st # "none"
                         /\ x.ctx["slave"][i].st = "none" => y.ctx["slave"][i].st = "none"
                         /\ fkind # "dev" /\ x.ctx["slave"][i].connected => y.ctx["slave"][i].connected
    BY DEF CtxMoves
  <2> QED BY <2>1, FwdMessagesKept
<1>3. RefsFit(y)
  <2>1. \A e \in FwdEnds : Undeleted(y, e) = Undeleted(x, e) /\ Idles(y, e) = Idles(x, e)
    BY DEF Undeleted, Idles, CtxMoves, ForwardFits, ContextStages
  <2> QED BY <2>1 DEF ForwardFits, RefsFit
<1>4. ReadyFit(y)
  BY DEF ForwardFits, ReadyFit, CtxMoves
<1>5. MasterFirst(y)
  BY DEF ForwardFits, MasterFirst, CtxMoves
<1> QED BY <1>1, <1>2, <1>3, <1>4, <1>5 DEF ForwardFits

\* One context moves.
LEMMA FwdQuietOne ==
  ASSUME NEW x, ForwardFits(x), NEW e \in FwdEnds, NEW i \in Conns,
         NEW c, DOMAIN c = DOMAIN NoContext, CtxMoves(x.ctx[e][i], c),
         c.ready => x.ctx[e][i].ready \/ e = "slave" \/ i = 0 \/ fkind = "dev" \/ x.ctx["slave"][i].connected
  PROVE  /\ ForwardFits([x EXCEPT !.ctx[e][i] = c])
         /\ [x EXCEPT !.ctx[e][i] = c].ctx[e][i] = c
         /\ [x EXCEPT !.ctx[e][i] = c].net = x.net
<1> DEFINE y == [x EXCEPT !.ctx[e][i] = c]
<1>1. /\ ForwardShape(y)
      /\ y.mapCtxPoint = x.mapCtxPoint /\ y.refCount = x.refCount /\ y.task = x.task /\ y.net = x.net
      /\ y.ctx[e][i] = c
      /\ \A d \in FwdEnds, j \in Conns : d # e \/ j # i => y.ctx[d][j] = x.ctx[d][j]
  BY FwdSetFacts DEF ForwardFits
<1> HIDE DEF y
<1>2. \A d \in FwdEnds, j \in Conns : CtxMoves(x.ctx[d][j], x.ctx[d][j])
  BY DEF ForwardFits, ContextStages, CtxMoves
<1>3. \A d \in FwdEnds, j \in Conns : CtxMoves(x.ctx[d][j], y.ctx[d][j])
  BY <1>1, <1>2
<1>4. fkind # "dev" => \A j \in Conns \ {0} : y.ctx["master"][j].ready =>
        x.ctx["master"][j].ready \/ y.ctx["slave"][j].connected
  <2>1. \A j \in Conns : fkind # "dev" /\ x.ctx["slave"][j].connected => y.ctx["slave"][j].connected
    BY <1>3 DEF CtxMoves, FwdEnds
  <2> QED BY <1>1, <2>1 DEF FwdEnds
<1>5. ForwardFits(y)
  BY <1>1, <1>3, <1>4, FwdQuiet
<1> QED BY <1>1, <1>5 DEF y

\* A message that may be sent.
MayTell(x, e, cmd, i) ==
  \/ cmd \in {"FORWARD_DATA", "FREE_CONTEXT", "CHANNEL_CLOSE 0", "CHANNEL_CLOSE 1"}
  \/ /\ e = "master" /\ cmd \in Opening /\ (cmd = "FORWARD_CHECK" => i = 0)
     /\ x.ctx["slave"][i].st = "none" /\ x.ctx["master"][i].st # "none"
     /\ \A k \in 1 .. Len(x.net["slave"]) : ~(x.net["slave"][k].cmd \in Opening /\ x.net["slave"][k].id = i)
  \/ e = "slave" /\ cmd = "FORWARD_CHECK_RESULT" /\ i = 0
  \/ e = "slave" /\ cmd = "ACTIVE_MASTER" /\ (fkind # "dev" => x.ctx["slave"][i].connected)

\* SendToTask with a command that may be told keeps the invariant.
LEMMA FwdSend ==
  ASSUME NEW x, ForwardFits(x), NEW e \in FwdEnds, NEW cmd \in ForwardCommands, NEW i \in Conns, MayTell(x, e, cmd, i)
  PROVE  ForwardFits(SendToTask(x, e, cmd, i))
<1> DEFINE y == SendToTask(x, e, cmd, i)
           m == [cmd |-> cmd, id |-> i]
<1>1. /\ ForwardShape(y)
      /\ y.ctx = x.ctx /\ y.mapCtxPoint = x.mapCtxPoint /\ y.refCount = x.refCount /\ y.task = x.task
      /\ y.net[OtherSide(e)] = Append(x.net[OtherSide(e)], m) /\ y.net[e] = x.net[e]
  BY FwdSendFacts DEF ForwardFits
<1>2. m.cmd = cmd /\ m.id = i
  OBVIOUS
<1> HIDE DEF y, m
<1>3. ContextStages(y) /\ RefsFit(y) /\ ReadyFit(y) /\ MasterFirst(y)
  <2>1. ContextStages(y)
    BY <1>1 DEF ForwardFits, ContextStages
  <2>2. RefsFit(y)
    <3>1. \A d \in FwdEnds : Undeleted(y, d) = Undeleted(x, d) /\ Idles(y, d) = Idles(x, d)
      BY <1>1 DEF Undeleted, Idles
    <3> QED BY <1>1, <3>1 DEF ForwardFits, RefsFit
  <2>3. ReadyFit(y)
    BY <1>1 DEF ForwardFits, ReadyFit
  <2>4. MasterFirst(y)
    BY <1>1 DEF ForwardFits, MasterFirst
  <2> QED BY <2>1, <2>2, <2>3, <2>4
<1>4. MessagesFit(y)
  <2>1. CASE e = "master"
    <3>1. y.net["slave"] = Append(x.net["slave"], m) /\ y.net["master"] = x.net["master"]
      BY <1>1, <2>1 DEF OtherSide
    <3>2. x.net["slave"] \in Seq(ForwardMessages)
      BY DEF ForwardFits, ForwardShape, FwdEnds
    <3>3. /\ Len(y.net["slave"]) = Len(x.net["slave"]) + 1
          /\ y.net["slave"][Len(x.net["slave"]) + 1] = m
          /\ \A k \in 1 .. Len(x.net["slave"]) : y.net["slave"][k] = x.net["slave"][k]
          /\ Len(x.net["slave"]) \in Nat
      BY <3>1, <3>2
    <3>4. \A k \in 1 .. Len(y.net["slave"]) : k \in 1 .. Len(x.net["slave"]) \/ k = Len(x.net["slave"]) + 1
      BY <3>3
    <3>5. ToSlave(y, m)
      BY <1>1, <1>2, <2>1 DEF MayTell, ToSlave, Opening
    <3>6. \A k \in 1 .. Len(y.net["slave"]) : ToSlave(y, y.net["slave"][k])
      BY <1>1, <3>3, <3>4, <3>5 DEF ForwardFits, MessagesFit, ToSlave
    <3>7. OpensOnce(y.net["slave"])
      <4> SUFFICES ASSUME NEW k \in 1 .. Len(y.net["slave"]), NEW n \in 1 .. Len(y.net["slave"]),
                          y.net["slave"][k].cmd \in Opening, y.net["slave"][n].cmd \in Opening,
                          y.net["slave"][k].id = y.net["slave"][n].id
                   PROVE  k = n
        BY DEF OpensOnce
      <4>1. OpensOnce(x.net["slave"])
        BY DEF ForwardFits, MessagesFit
      <4>2. m.cmd \in Opening => \A j \in 1 .. Len(x.net["slave"]) :
              ~(x.net["slave"][j].cmd \in Opening /\ x.net["slave"][j].id = m.id)
        BY <1>2, <2>1 DEF MayTell, Opening
      <4>3. CASE k = Len(x.net["slave"]) + 1
        BY <3>3, <3>4, <4>2, <4>3
      <4>4. CASE n = Len(x.net["slave"]) + 1
        BY <3>3, <3>4, <4>2, <4>4
      <4>5. CASE k \in 1 .. Len(x.net["slave"]) /\ n \in 1 .. Len(x.net["slave"])
        BY <3>3, <4>1, <4>5 DEF OpensOnce
      <4> QED BY <3>4, <4>3, <4>4, <4>5
    <3>8. \A k \in 1 .. Len(y.net["master"]) : ToMaster(y, y.net["master"][k])
      BY <1>1, <3>1 DEF ForwardFits, MessagesFit, ToMaster
    <3> QED BY <3>6, <3>7, <3>8 DEF MessagesFit
  <2>2. CASE e = "slave"
    <3>1. y.net["master"] = Append(x.net["master"], m) /\ y.net["slave"] = x.net["slave"]
      BY <1>1, <2>2 DEF OtherSide
    <3>2. x.net["master"] \in Seq(ForwardMessages)
      BY DEF ForwardFits, ForwardShape, FwdEnds
    <3>3. /\ Len(y.net["master"]) = Len(x.net["master"]) + 1
          /\ y.net["master"][Len(x.net["master"]) + 1] = m
          /\ \A k \in 1 .. Len(x.net["master"]) : y.net["master"][k] = x.net["master"][k]
          /\ Len(x.net["master"]) \in Nat
      BY <3>1, <3>2
    <3>4. \A k \in 1 .. Len(y.net["master"]) : k \in 1 .. Len(x.net["master"]) \/ k = Len(x.net["master"]) + 1
      BY <3>3
    <3>5. ToMaster(y, m)
      BY <1>1, <1>2, <2>2 DEF MayTell, ToMaster, Opening
    <3>6. \A k \in 1 .. Len(y.net["master"]) : ToMaster(y, y.net["master"][k])
      BY <1>1, <3>3, <3>4, <3>5 DEF ForwardFits, MessagesFit, ToMaster
    <3>8. \A k \in 1 .. Len(y.net["slave"]) : ToSlave(y, y.net["slave"][k])
      BY <1>1, <3>1 DEF ForwardFits, MessagesFit, ToSlave
    <3> QED BY <3>1, <3>6, <3>8 DEF ForwardFits, MessagesFit
  <2> QED BY <2>1, <2>2 DEF FwdEnds
<1> QED BY <1>1, <1>3, <1>4 DEF ForwardFits, y

\* Reading the first message.
Popped(x, e) == [x EXCEPT !.net[e] = Tail(@)]
\* Taking the first message keeps the invariant, and the rest moves up.
LEMMA FwdPop ==
  ASSUME NEW x, ForwardFits(x), NEW e \in FwdEnds, x.net[e] # <<>>
  PROVE  /\ ForwardFits(Popped(x, e))
         /\ Popped(x, e).ctx = x.ctx /\ Popped(x, e).task = x.task /\ Popped(x, e).mapCtxPoint = x.mapCtxPoint
         /\ Head(x.net[e]) \in ForwardMessages
         /\ Head(x.net[e]) = x.net[e][1] /\ 1 \in 1 .. Len(x.net[e])
         /\ Len(Popped(x, e).net[e]) = Len(x.net[e]) - 1
         /\ \A k \in 1 .. Len(x.net[e]) - 1 : Popped(x, e).net[e][k] = x.net[e][k + 1]
<1> DEFINE y == Popped(x, e)
<1>0. x.net[e] \in Seq(ForwardMessages)
  BY DEF ForwardFits, ForwardShape
<1>1. /\ Tail(x.net[e]) \in Seq(ForwardMessages)
      /\ Len(Tail(x.net[e])) = Len(x.net[e]) - 1
      /\ \A k \in 1 .. Len(x.net[e]) - 1 : Tail(x.net[e])[k] = x.net[e][k + 1]
      /\ Head(x.net[e]) = x.net[e][1] /\ Head(x.net[e]) \in ForwardMessages
      /\ Len(x.net[e]) \in Nat \ {0}
  BY <1>0
<1>2. /\ y.ctx = x.ctx /\ y.mapCtxPoint = x.mapCtxPoint /\ y.refCount = x.refCount /\ y.task = x.task
      /\ y.net[e] = Tail(x.net[e]) /\ \A d \in FwdEnds : d # e => y.net[d] = x.net[d]
      /\ DOMAIN y = DOMAIN x /\ DOMAIN y.net = FwdEnds
  BY DEF Popped, ForwardFits, ForwardShape
<1> HIDE DEF y
<1>3. ForwardShape(y)
  <2>1. \A d \in FwdEnds : y.net[d] \in Seq(ForwardMessages)
    BY <1>1, <1>2 DEF ForwardFits, ForwardShape
  <2> QED BY <1>2, <2>1 DEF ForwardFits, ForwardShape
<1>4. ContextStages(y) /\ RefsFit(y) /\ ReadyFit(y) /\ MasterFirst(y)
  <2>1. ContextStages(y)
    BY <1>2 DEF ForwardFits, ContextStages
  <2>2. RefsFit(y)
    <3>1. \A d \in FwdEnds : Undeleted(y, d) = Undeleted(x, d) /\ Idles(y, d) = Idles(x, d)
      BY <1>2 DEF Undeleted, Idles
    <3> QED BY <1>2, <3>1 DEF ForwardFits, RefsFit
  <2>3. ReadyFit(y)
    BY <1>2 DEF ForwardFits, ReadyFit
  <2>4. MasterFirst(y)
    BY <1>2 DEF ForwardFits, MasterFirst
  <2> QED BY <2>1, <2>2, <2>3, <2>4
<1>5. MessagesFit(y)
  <2>1. CASE e = "slave"
    <3>1. y.net["master"] = x.net["master"]
      BY <1>2, <2>1 DEF FwdEnds
    <3>2. \A k \in 1 .. Len(y.net["slave"]) : k + 1 \in 1 .. Len(x.net["slave"])
                                              /\ y.net["slave"][k] = x.net["slave"][k + 1]
      <4>1. y.net["slave"] = Tail(x.net["slave"])
        BY <1>2, <2>1
      <4> QED BY <1>1, <4>1, <2>1
    <3>3. \A k \in 1 .. Len(y.net["slave"]) : ToSlave(y, y.net["slave"][k])
      <4> TAKE k \in 1 .. Len(y.net["slave"])
      <4>1. ToSlave(x, y.net["slave"][k])
        BY <3>2 DEF ForwardFits, MessagesFit
      <4> QED BY <1>2, <4>1 DEF ToSlave
    <3>4. OpensOnce(y.net["slave"])
      <4>1. OpensOnce(x.net["slave"])
        BY DEF ForwardFits, MessagesFit
      <4> SUFFICES ASSUME NEW k \in 1 .. Len(y.net["slave"]), NEW n \in 1 .. Len(y.net["slave"]),
                          y.net["slave"][k].cmd \in Opening, y.net["slave"][n].cmd \in Opening,
                          y.net["slave"][k].id = y.net["slave"][n].id
                   PROVE  k = n
        BY DEF OpensOnce
      <4>2. k + 1 = n + 1
        BY <3>2, <4>1 DEF OpensOnce
      <4> QED BY <4>2
    <3>5. \A k \in 1 .. Len(y.net["master"]) : ToMaster(y, y.net["master"][k])
      BY <1>2, <3>1 DEF ForwardFits, MessagesFit, ToMaster
    <3> QED BY <3>3, <3>4, <3>5 DEF MessagesFit
  <2>2. CASE e = "master"
    <3>1. y.net["slave"] = x.net["slave"]
      BY <1>2, <2>2 DEF FwdEnds
    <3>2. \A k \in 1 .. Len(y.net["master"]) : k + 1 \in 1 .. Len(x.net["master"])
                                              /\ y.net["master"][k] = x.net["master"][k + 1]
      <4>1. y.net["master"] = Tail(x.net["master"])
        BY <1>2, <2>2
      <4> QED BY <1>1, <4>1, <2>2
    <3>3. \A k \in 1 .. Len(y.net["slave"]) : ToSlave(y, y.net["slave"][k])
      BY <1>2, <3>1 DEF ForwardFits, MessagesFit, ToSlave
    <3>5. \A k \in 1 .. Len(y.net["master"]) : ToMaster(y, y.net["master"][k])
      <4> TAKE k \in 1 .. Len(y.net["master"])
      <4>1. ToMaster(x, y.net["master"][k])
        BY <3>2 DEF ForwardFits, MessagesFit
      <4> QED BY <1>2, <4>1 DEF ToMaster
    <3> QED BY <3>1, <3>3, <3>5 DEF ForwardFits, MessagesFit
  <2> QED BY <2>1, <2>2 DEF FwdEnds
<1> QED BY <1>1, <1>2, <1>3, <1>4, <1>5 DEF ForwardFits, y

\* FreeContext of a context that was made.
LEMMA FwdFree ==
  ASSUME NEW x, ForwardFits(x), NEW e \in FwdEnds, NEW i \in Conns, NEW b \in BOOLEAN,
         x.ctx[e][i].st # "none"
  PROVE  ForwardFits(FreeContext(x, e, i, b))
<1>1. CASE x.ctx[e][i].finish
  BY <1>1 DEF FreeContext
<1>2. CASE ~x.ctx[e][i].finish
  <2> DEFINE y == IF b THEN SendToTask(x, e, "FREE_CONTEXT", i) ELSE x
             c == [y.ctx[e][i] EXCEPT !.finish = TRUE, !.st = "closing"]
  <2>1. ForwardFits(y) /\ y.ctx = x.ctx
    <3>1. ForwardShape(x)
      BY DEF ForwardFits
    <3>2. ForwardFits(SendToTask(x, e, "FREE_CONTEXT", i))
      <4>1. MayTell(x, e, "FREE_CONTEXT", i) /\ "FREE_CONTEXT" \in ForwardCommands
        BY DEF MayTell, ForwardCommands
      <4> QED BY <4>1, FwdSend
    <3>3. SendToTask(x, e, "FREE_CONTEXT", i).ctx = x.ctx
      <4>1. "FREE_CONTEXT" \in ForwardCommands
        BY DEF ForwardCommands
      <4> QED BY <3>1, <4>1, FwdSendFacts
    <3> QED BY <3>2, <3>3
  <2>2. FreeContext(x, e, i, b) = [y EXCEPT !.ctx[e][i].finish = TRUE, !.ctx[e][i].st = "closing"]
    BY <1>2 DEF FreeContext
  <2> HIDE DEF y
  <2>3. [y EXCEPT !.ctx[e][i].finish = TRUE, !.ctx[e][i].st = "closing"] = [y EXCEPT !.ctx[e][i] = c]
    <3>1. ForwardShape(y)
      BY <2>1 DEF ForwardFits
    <3> QED BY <3>1 DEF ForwardShape
  <2>4. DOMAIN c = DOMAIN NoContext /\ c.ready = x.ctx[e][i].ready
    BY <2>1 DEF ForwardFits, ForwardShape, NoContext
  <2>5. CtxMoves(y.ctx[e][i], c)
    BY <1>2, <2>1 DEF ForwardFits, ForwardShape, ContextStages, CtxMoves, NoContext
  <2> HIDE DEF c
  <2>6. ForwardFits([y EXCEPT !.ctx[e][i] = c])
    BY <2>1, <2>4, <2>5, FwdQuietOne
  <2> QED BY <2>2, <2>3, <2>6
<1> QED BY <1>1, <1>2

\* FinishForward and FailedDispatch.
LEMMA FwdFinish ==
  ASSUME NEW x, ForwardFits(x), NEW e \in FwdEnds
  PROVE  ForwardFits(FinishForward(x, e)) /\ ForwardFits(FailedDispatch(x, e))
<1>1. 0 \in Conns
  BY ForwardBounds DEF Conns
<1>2. ForwardFits(SendToTask(x, e, "CHANNEL_CLOSE 1", 0))
  <2>1. MayTell(x, e, "CHANNEL_CLOSE 1", 0) /\ "CHANNEL_CLOSE 1" \in ForwardCommands
    BY DEF MayTell, ForwardCommands
  <2> QED BY <1>1, <2>1, FwdSend
<1> QED BY <1>2 DEF FinishForward, FailedDispatch

\* MallocContext of a context that nobody asks for again.
LEMMA FwdMalloc ==
  ASSUME NEW x, ForwardFits(x), NEW e \in FwdEnds, NEW i \in Conns, NEW check,
         x.ctx[e][i].st = "none", x.task[e] # "none", x.task[e] # "deleted", check => i = 0,
         \A k \in 1 .. Len(x.net["slave"]) : ~(x.net["slave"][k].cmd \in Opening /\ x.net["slave"][k].id = i),
         e = "slave" => x.ctx["master"][i].st # "none"
  PROVE  LET y == MallocContext(x, e, i, check)
         IN  /\ ForwardFits(y) /\ y.net = x.net /\ y.task = x.task /\ y.arkFd = x.arkFd
             /\ y.ctx[e][i].st = "live" /\ ~y.ctx[e][i].idle /\ ~y.ctx[e][i].finish
             /\ y.ctx[e][i].io = "none"
             /\ \A d \in FwdEnds, j \in Conns : d # e \/ j # i => y.ctx[d][j] = x.ctx[d][j]
<1> DEFINE c == [NoContext EXCEPT !.st = "live", !.checkPoint = check]
           z == [x EXCEPT !.ctx[e][i] = c]
           y == MallocContext(x, e, i, check)
<1>0. /\ DOMAIN c = DOMAIN NoContext /\ c.st = "live" /\ c.checkPoint = check /\ ~c.idle /\ ~c.ready
      /\ ~c.connected /\ ~c.finish /\ c.io = "none"
  BY DEF NoContext
<1> HIDE DEF c
<1>1. /\ ForwardShape(z)
      /\ z.mapCtxPoint = x.mapCtxPoint /\ z.refCount = x.refCount /\ z.task = x.task /\ z.net = x.net
      /\ z.arkFd = x.arkFd /\ z.ctx[e][i] = c
      /\ \A d \in FwdEnds, j \in Conns : d # e \/ j # i => z.ctx[d][j] = x.ctx[d][j]
  <2>1. ForwardShape(x)
    BY DEF ForwardFits
  <2>2. DOMAIN c = DOMAIN NoContext
    BY <1>0
  <2> QED BY <2>1, <2>2, FwdSetFacts
<1>2. y = [z EXCEPT !.mapCtxPoint[e] = @ \cup {i}, !.refCount[e] = @ + 1]
  BY DEF MallocContext, c, ForwardFits, ForwardShape
<1> HIDE DEF z, y
<1>3. /\ ForwardShape(y) /\ y.ctx = z.ctx /\ y.net = x.net /\ y.task = x.task /\ y.arkFd = x.arkFd
      /\ y.mapCtxPoint[e] = x.mapCtxPoint[e] \cup {i} /\ y.refCount[e] = x.refCount[e] + 1
      /\ \A d \in FwdEnds : d # e => y.mapCtxPoint[d] = x.mapCtxPoint[d] /\ y.refCount[d] = x.refCount[d]
  BY <1>1, <1>2 DEF ForwardShape
<1>4. y.ctx[e][i] = c /\ \A d \in FwdEnds, j \in Conns : d # e \/ j # i => y.ctx[d][j] = x.ctx[d][j]
  BY <1>1, <1>3
<1>5. ContextStages(y)
  BY <1>0, <1>4 DEF ForwardFits, ContextStages
<1>6. MessagesFit(y)
  <2>1. \A j \in Conns :
          /\ x.ctx["master"][j].st # "none" => y.ctx["master"][j].st # "none"
          /\ fkind # "dev" /\ x.ctx["slave"][j].connected => y.ctx["slave"][j].connected
          /\ j # i => (x.ctx["slave"][j].st = "none" => y.ctx["slave"][j].st = "none")
    BY <1>0, <1>4 DEF FwdEnds, ForwardFits, ContextStages
  <2> QED BY <1>3, <2>1, FwdMessagesKept
<1>7. MasterFirst(y)
  BY <1>0, <1>3, <1>4 DEF ForwardFits, MasterFirst, FwdEnds
<1>8. ReadyFit(y)
  BY <1>0, <1>4 DEF ForwardFits, ReadyFit, ContextStages, FwdEnds
<1>9. RefsFit(y)
  <2>1. \A d \in FwdEnds : d # e => Undeleted(y, d) = Undeleted(x, d) /\ Idles(y, d) = Idles(x, d)
    BY <1>4 DEF Undeleted, Idles
  <2>2. Undeleted(y, e) = Undeleted(x, e) \cup {i} /\ i \notin Undeleted(x, e)
    BY <1>0, <1>4 DEF Undeleted
  <2>3. Idles(y, e) = Idles(x, e)
    BY <1>0, <1>4 DEF Idles, ForwardFits, ContextStages
  <2>4. IsFiniteSet(Undeleted(x, e)) /\ IsFiniteSet(Idles(x, e))
    BY FwdConnsFinite, FS_Subset DEF Undeleted, Idles
  <2>5. Cardinality(Undeleted(y, e)) = Cardinality(Undeleted(x, e)) + 1
    BY <2>2, <2>4, FS_AddElement
  <2>6. Cardinality(Undeleted(x, e)) \in Nat /\ Cardinality(Idles(x, e)) \in Nat
    BY <2>4, FS_CardinalityType
  <2>7. /\ y.refCount[e] = Cardinality(Undeleted(y, e)) + Cardinality(Idles(y, e))
        /\ y.mapCtxPoint[e] \subseteq Undeleted(y, e) /\ y.task[e] # "deleted"
    BY <1>3, <2>2, <2>3, <2>5, <2>6 DEF ForwardFits, RefsFit
  <2>8. \A d \in FwdEnds : d # e =>
          /\ y.refCount[d] = Cardinality(Undeleted(y, d)) + Cardinality(Idles(y, d))
          /\ y.mapCtxPoint[d] \subseteq Undeleted(y, d)
          /\ y.task[d] = "deleted" => Undeleted(y, d) = {} /\ Idles(y, d) = {}
    BY <1>3, <2>1 DEF ForwardFits, RefsFit
  <2> QED BY <2>7, <2>8 DEF RefsFit
<1> QED BY <1>0, <1>3, <1>4, <1>5, <1>6, <1>7, <1>8, <1>9 DEF ForwardFits, y

\* arkFd and listed are of no concern.
LEMMA FwdFlags ==
  ASSUME NEW x, ForwardFits(x), NEW v
  PROVE  /\ ForwardFits([x EXCEPT !.arkFd = v]) /\ [x EXCEPT !.arkFd = v].ctx = x.ctx
         /\ ForwardFits([x EXCEPT !.listed = v]) /\ [x EXCEPT !.listed = v].ctx = x.ctx
         /\ [x EXCEPT !.arkFd = v].net = x.net /\ [x EXCEPT !.listed = v].net = x.net
<1>1. ASSUME NEW y, ForwardShape(y), y.ctx = x.ctx, y.net = x.net, y.refCount = x.refCount,
             y.mapCtxPoint = x.mapCtxPoint, y.task = x.task
      PROVE  ForwardFits(y)
  <2>1. \A e \in FwdEnds, i \in Conns : CtxMoves(x.ctx[e][i], y.ctx[e][i])
    BY <1>1 DEF ForwardFits, ContextStages, CtxMoves
  <2> QED BY <1>1, <2>1, FwdQuiet
<1> DEFINE y == [x EXCEPT !.arkFd = v]
           z == [x EXCEPT !.listed = v]
<1>2. /\ ForwardShape(y) /\ y.ctx = x.ctx /\ y.net = x.net /\ y.refCount = x.refCount
      /\ y.mapCtxPoint = x.mapCtxPoint /\ y.task = x.task
  BY DEF ForwardFits, ForwardShape
<1>3. /\ ForwardShape(z) /\ z.ctx = x.ctx /\ z.net = x.net /\ z.refCount = x.refCount
      /\ z.mapCtxPoint = x.mapCtxPoint /\ z.task = x.task
  BY DEF ForwardFits, ForwardShape
<1> QED BY <1>1, <1>2, <1>3

\* DoForwardBegin: the master only where the slave is connected.
LEMMA FwdReady ==
  ASSUME NEW x, ForwardFits(x), NEW e \in FwdEnds, NEW i \in Conns, x.ctx[e][i].st # "none",
         e = "slave" \/ i = 0 \/ fkind = "dev" \/ x.ctx["slave"][i].connected,
         e = "slave" /\ fkind = "dev" => x.ctx[e][i].st = "live"
  PROVE  ForwardFits(DoForwardBegin(x, e, i)) /\ ForwardFits([x EXCEPT !.ctx[e][i].ready = TRUE, !.listed = TRUE])
<1> DEFINE n == IF fkind = "dev" /\ e = "slave" THEN "run" ELSE x.ctx[e][i].io
           a == [x.ctx[e][i] EXCEPT !.ready = TRUE]
           c == [x.ctx[e][i] EXCEPT !.ready = TRUE, !.io = n]
           w == [x EXCEPT !.ctx[e][i] = a]
           z == [x EXCEPT !.ctx[e][i] = c]
<1>1. /\ DOMAIN a = DOMAIN NoContext /\ DOMAIN c = DOMAIN NoContext
      /\ c.io = n /\ a.io = x.ctx[e][i].io
      /\ \A b \in {a, c} : /\ b.st = x.ctx[e][i].st /\ b.finish = x.ctx[e][i].finish /\ b.idle = x.ctx[e][i].idle
                           /\ b.checkPoint = x.ctx[e][i].checkPoint /\ b.connected = x.ctx[e][i].connected
  BY DEF ForwardFits, ForwardShape, NoContext
<1>2. w = [x EXCEPT !.ctx[e][i].ready = TRUE]
  BY DEF ForwardFits, ForwardShape
<1> DEFINE v == IF e = "slave" THEN FALSE ELSE x.arkFd
<1>3. [x EXCEPT !.ctx[e][i].ready = TRUE, !.arkFd = IF e = "slave" THEN FALSE ELSE @,
                !.ctx[e][i].io = IF fkind = "dev" /\ e = "slave" THEN "run" ELSE @] = [z EXCEPT !.arkFd = v]
  BY DEF ForwardFits, ForwardShape
<1>4. [x EXCEPT !.ctx[e][i].ready = TRUE, !.listed = TRUE] = [w EXCEPT !.listed = TRUE]
  BY <1>2 DEF ForwardFits, ForwardShape
<1> HIDE DEF a, c
<1>5. CtxMoves(x.ctx[e][i], a) /\ CtxMoves(x.ctx[e][i], c)
  BY <1>1 DEF ForwardFits, ContextStages, CtxMoves
<1>6. ForwardFits(w) /\ ForwardFits(z)
  BY <1>1, <1>5, FwdQuietOne
<1> HIDE DEF w, z
<1>7. ForwardFits([z EXCEPT !.arkFd = v]) /\ ForwardFits([w EXCEPT !.listed = TRUE])
  BY <1>6, FwdFlags
<1> QED BY <1>3, <1>4, <1>7 DEF DoForwardBegin

\* SetupPointContinue of a context that was made.
LEMMA FwdContinue ==
  ASSUME NEW x, ForwardFits(x), NEW i \in Conns, x.ctx["slave"][i].st # "none",
         NEW status \in {"ok", "failed", "255"}, status = "255" => fkind = "dev",
         fkind = "dev" => x.ctx["slave"][i].st = "live"
  PROVE  ForwardFits(SetupPointContinue(x, i, status))
<1>0. "slave" \in FwdEnds /\ ForwardShape(x)
  BY DEF FwdEnds, ForwardFits
<1>1. CASE x.ctx["slave"][i].checkPoint
  <2> DEFINE y == SendToTask(x, "slave", "FORWARD_CHECK_RESULT", i)
  <2>1. i = 0
    BY <1>0, <1>1 DEF ForwardFits, ContextStages
  <2>2. MayTell(x, "slave", "FORWARD_CHECK_RESULT", i) /\ "FORWARD_CHECK_RESULT" \in ForwardCommands
    BY <2>1 DEF MayTell, ForwardCommands
  <2>3. ForwardFits(y) /\ y.ctx = x.ctx
    BY <1>0, <2>2, FwdSend, FwdSendFacts
  <2>4. ForwardFits(FreeContext(y, "slave", i, FALSE))
    BY <1>0, <2>3, FwdFree
  <2> QED BY <1>1, <2>4 DEF SetupPointContinue
<1>2. CASE ~x.ctx["slave"][i].checkPoint /\ status = "failed"
  BY <1>0, <1>2, FwdFree DEF SetupPointContinue
<1>3. CASE ~x.ctx["slave"][i].checkPoint /\ status # "failed"
  <2> DEFINE c == [x.ctx["slave"][i] EXCEPT !.connected = (status = "ok")]
             z == [x EXCEPT !.ctx["slave"][i] = c]
             y == SendToTask(z, "slave", "ACTIVE_MASTER", i)
  <2>1. DOMAIN c = DOMAIN NoContext /\ c.ready = x.ctx["slave"][i].ready /\ c.connected = (status = "ok")
        /\ c.st = x.ctx["slave"][i].st /\ c.finish = x.ctx["slave"][i].finish
        /\ c.idle = x.ctx["slave"][i].idle /\ c.checkPoint = x.ctx["slave"][i].checkPoint
        /\ c.io = x.ctx["slave"][i].io
    BY <1>0 DEF ForwardShape, NoContext
  <2>3. [x EXCEPT !.ctx["slave"][i].connected = status = "ok"] = z
    BY <1>0 DEF ForwardShape
  <2> HIDE DEF c
  <2>2. CtxMoves(x.ctx["slave"][i], c)
    <3>1. /\ x.ctx["slave"][i].st \in {"none", "live", "connecting", "closing", "closed", "deleted"}
          /\ x.ctx["slave"][i].st \in {"closing", "closed", "deleted"} => x.ctx["slave"][i].finish
          /\ x.ctx["slave"][i].io = "run" => x.ctx["slave"][i].st \in {"live", "closing"}
      BY <1>0 DEF ForwardFits, ContextStages
    <3>2. fkind # "dev" => c.connected
      BY <1>3, <2>1
    <3> QED BY <2>1, <3>1, <3>2 DEF CtxMoves
  <2>4. ForwardFits(z) /\ z.ctx["slave"][i] = c
    BY <1>0, <2>1, <2>2, FwdQuietOne
  <2>5. MayTell(z, "slave", "ACTIVE_MASTER", i) /\ "ACTIVE_MASTER" \in ForwardCommands
    BY <1>3, <2>1, <2>4 DEF MayTell, ForwardCommands
  <2>6. ForwardShape(z)
    BY <2>4 DEF ForwardFits
  <2>7. SetupPointContinue(x, i, status) = DoForwardBegin(y, "slave", i)
    BY <1>3, <2>3 DEF SetupPointContinue
  <2> HIDE DEF z
  <2>8. ForwardFits(y) /\ y.ctx = z.ctx
    BY <1>0, <2>4, <2>5, <2>6, FwdSend, FwdSendFacts
  <2> HIDE DEF y
  <2>9. ForwardFits(DoForwardBegin(y, "slave", i))
    BY <1>0, <2>1, <2>4, <2>8, FwdReady
  <2> QED BY <2>7, <2>9
<1> QED BY <1>1, <1>2, <1>3

\* The idle callback of context i started (v) or over, with its count of the task.
IdleSet(x, i, v) ==
  [x EXCEPT !.ctx["slave"][i].idle = v,
            !.refCount["slave"] = IF v THEN x.refCount["slave"] + 1 ELSE x.refCount["slave"] - 1]

\* The idle of the loop is started or over, and is counted.
LEMMA FwdIdle ==
  ASSUME NEW x, ForwardFits(x), NEW i \in Conns, NEW v, v \in BOOLEAN, x.ctx["slave"][i].st # "none",
         x.ctx["slave"][i].idle <=> ~v, v => fkind # "dev" /\ x.ctx["slave"][i].st = "live"
  PROVE  /\ ForwardFits(IdleSet(x, i, v))
         /\ IdleSet(x, i, v).ctx["slave"][i].st = x.ctx["slave"][i].st
         /\ ~v => fkind # "dev"
<1> DEFINE c == [x.ctx["slave"][i] EXCEPT !.idle = v]
           z == [x EXCEPT !.ctx["slave"][i] = c]
           n == x.refCount["slave"]
           m == IF v THEN n + 1 ELSE n - 1
           y == IdleSet(x, i, v)
           e == "slave"
<1>0. e \in FwdEnds /\ ForwardShape(x) /\ n \in Nat
  BY DEF ForwardFits, ForwardShape, FwdEnds
<1>1. DOMAIN c = DOMAIN NoContext /\ c.idle = v
      /\ c.st = x.ctx[e][i].st /\ c.finish = x.ctx[e][i].finish /\ c.checkPoint = x.ctx[e][i].checkPoint
      /\ c.ready = x.ctx[e][i].ready /\ c.connected = x.ctx[e][i].connected /\ c.io = x.ctx[e][i].io
  BY <1>0 DEF ForwardShape, NoContext
<1>2. y = [z EXCEPT !.refCount["slave"] = m]
  BY <1>0 DEF ForwardShape, IdleSet
<1>3. m \in Nat
  <2>1. IsFiniteSet(Idles(x, e)) /\ IsFiniteSet(Undeleted(x, e))
    BY FwdConnsFinite, FS_Subset DEF Idles, Undeleted
  <2>2. ~v => i \in Idles(x, e)
    BY DEF Idles
  <2>3. ~v => Cardinality(Idles(x, e)) # 0
    BY <2>1, <2>2, FS_EmptySet
  <2>4. n = Cardinality(Undeleted(x, e)) + Cardinality(Idles(x, e))
    BY <1>0 DEF ForwardFits, RefsFit
  <2> QED BY <1>0, <2>1, <2>3, <2>4, FS_CardinalityType
<1> HIDE DEF c
<1>4. /\ ForwardShape(z)
      /\ z.mapCtxPoint = x.mapCtxPoint /\ z.refCount = x.refCount /\ z.task = x.task /\ z.net = x.net
      /\ z.ctx[e][i] = c
      /\ \A d \in FwdEnds, j \in Conns : d # e \/ j # i => z.ctx[d][j] = x.ctx[d][j]
  BY <1>0, <1>1, FwdSetFacts
<1> HIDE DEF z, y, m
<1>5. /\ ForwardShape(y) /\ y.ctx = z.ctx /\ y.net = x.net /\ y.task = x.task /\ y.mapCtxPoint = x.mapCtxPoint
      /\ y.refCount["slave"] = m /\ y.refCount["master"] = x.refCount["master"]
  BY <1>2, <1>3, <1>4 DEF ForwardShape, FwdEnds
<1>6. y.ctx[e][i] = c /\ \A d \in FwdEnds, j \in Conns : d # e \/ j # i => y.ctx[d][j] = x.ctx[d][j]
  BY <1>4, <1>5
<1>7. \A d \in FwdEnds, j \in Conns : /\ y.ctx[d][j].st = x.ctx[d][j].st /\ y.ctx[d][j].finish = x.ctx[d][j].finish
                                     /\ y.ctx[d][j].checkPoint = x.ctx[d][j].checkPoint
                                     /\ y.ctx[d][j].ready = x.ctx[d][j].ready
                                     /\ y.ctx[d][j].connected = x.ctx[d][j].connected
  BY <1>1, <1>6
<1>7a. \A j \in Conns : /\ y.ctx["master"][j].st = x.ctx["master"][j].st
                        /\ y.ctx["slave"][j].st = x.ctx["slave"][j].st
                        /\ y.ctx["master"][j].ready = x.ctx["master"][j].ready
                        /\ y.ctx["slave"][j].connected = x.ctx["slave"][j].connected
                        /\ y.ctx["master"][j].idle = x.ctx["master"][j].idle
                        /\ j # i => y.ctx["slave"][j].idle = x.ctx["slave"][j].idle
  BY <1>6, <1>7 DEF FwdEnds
<1>8. ContextStages(y)
  BY <1>1, <1>6, <1>7 DEF ForwardFits, ContextStages, FwdEnds
<1>9. MessagesFit(y)
  BY <1>5, <1>7a, FwdMessagesKept
<1>10. MasterFirst(y) /\ ReadyFit(y)
  BY <1>5, <1>7a DEF ForwardFits, MasterFirst, ReadyFit
<1>11. RefsFit(y)
  <2>1. \A d \in FwdEnds : Undeleted(y, d) = Undeleted(x, d)
    BY <1>7a DEF Undeleted, FwdEnds
  <2>2. Idles(y, "master") = Idles(x, "master")
    BY <1>7a DEF Idles
  <2>3. Idles(y, e) = IF v THEN Idles(x, e) \cup {i} ELSE Idles(x, e) \ {i}
    BY <1>0, <1>1, <1>6, <1>7a DEF Idles
  <2>4. i \in Idles(x, e) <=> ~v
    BY DEF Idles
  <2>5. IsFiniteSet(Idles(x, e)) /\ IsFiniteSet(Undeleted(x, e))
    BY FwdConnsFinite, FS_Subset DEF Idles, Undeleted
  <2>6. Cardinality(Idles(y, e)) = IF v THEN Cardinality(Idles(x, e)) + 1 ELSE Cardinality(Idles(x, e)) - 1
    BY <2>3, <2>4, <2>5, FS_AddElement, FS_RemoveElement
  <2>7. Cardinality(Idles(x, e)) \in Nat /\ Cardinality(Undeleted(x, e)) \in Nat
    BY <2>5, FS_CardinalityType
  <2>8. y.refCount[e] = Cardinality(Undeleted(y, e)) + Cardinality(Idles(y, e))
    BY <1>0, <1>5, <2>1, <2>6, <2>7 DEF ForwardFits, RefsFit, m
  <2>9. y.refCount["master"] = Cardinality(Undeleted(y, "master")) + Cardinality(Idles(y, "master"))
    BY <1>5, <2>1, <2>2 DEF ForwardFits, RefsFit, FwdEnds
  <2>10. x.task[e] # "deleted"
    <3>1. ~v => Idles(x, e) # {}
      BY <2>4
    <3>2. v => x.task[e] # "deleted"
      BY <1>0 DEF ForwardFits, RefsFit, Undeleted
    <3> QED BY <1>0, <3>1, <3>2 DEF ForwardFits, RefsFit
  <2> QED BY <1>5, <2>1, <2>2, <2>8, <2>9, <2>10 DEF ForwardFits, RefsFit, FwdEnds
<1>12. ~v => fkind # "dev"
  BY <1>0 DEF ForwardFits, ContextStages
<1> QED BY <1>0, <1>5, <1>7, <1>8, <1>9, <1>10, <1>11, <1>12 DEF ForwardFits, y

\* A point that cannot be set up frees its context and closes the channel.
LEMMA FwdGivenUp ==
  ASSUME NEW x, ForwardFits(x), NEW i \in Conns, x.ctx["slave"][i].st # "none"
  PROVE  ForwardFits(GivenUp(x, i))
BY FwdFree, FwdFinish DEF GivenUp, FwdEnds

\* SetupJdwpPoint and SetupArkPoint start the idle of a context that has none.
LEMMA FwdIdlePoint ==
  ASSUME NEW x, ForwardFits(x), NEW i \in Conns, x.ctx["slave"][i].st = "live", ~x.ctx["slave"][i].idle,
         fkind # "dev"
  PROVE  ForwardFits(IdlePoint(x, i))
<1>1. ForwardFits(IdleSet(x, i, TRUE))
  BY FwdIdle
<1>2. IdlePoint(x, i) = IdleSet(x, i, TRUE)
  BY DEF IdlePoint, IdleSet, ForwardFits, ForwardShape, FwdEnds
<1> QED BY <1>1, <1>2

\* Whatever SlaveConnect comes to.
LEMMA FwdSlaveConnect ==
  ASSUME NEW x, ForwardFits(x), NEW i \in Conns, NEW check, check \in BOOLEAN, fkind \in ForwardTypes,
         x.ctx["slave"][i].st = "none", x.task["slave"] = "run", check => i = 0,
         \A k \in 1 .. Len(x.net["slave"]) : ~(x.net["slave"][k].cmd \in Opening /\ x.net["slave"][k].id = i),
         x.ctx["master"][i].st # "none",
         NEW z \in SlaveConnect(x, i, check)
  PROVE  ForwardFits(z)
<1> DEFINE y == MallocContext(x, "slave", i, check)
<1>0. "slave" \in FwdEnds
  BY DEF FwdEnds
<1>1. ForwardFits(y)
  BY <1>0, FwdMalloc
<1>2. y.ctx["slave"][i].st = "live" /\ ~y.ctx["slave"][i].idle /\ ~y.ctx["slave"][i].finish
  BY <1>0, FwdMalloc
<1>2a. y.ctx["slave"][i].io = "none"
  BY <1>0, FwdMalloc
<1>3. z \in {GivenUp(y, i)} \cup
        (CASE check /\ fkind = "ark" -> SetupArkPoint(y, i)
           [] check /\ fkind # "ark" -> {SetupPointContinue(y, i, "ok")}
           [] OTHER                  -> SetupPoint(y, i))
  BY DEF SlaveConnect
<1> HIDE DEF y
<1>4. ForwardFits(GivenUp(y, i))
  BY <1>1, <1>2, FwdGivenUp
<1>5. /\ ForwardFits(SetupPointContinue(y, i, "ok")) /\ ForwardFits(SetupPointContinue(y, i, "failed"))
      /\ fkind = "dev" => ForwardFits(SetupPointContinue(y, i, "255"))
  BY <1>1, <1>2, FwdContinue
<1>6. ForwardFits(FailedDispatch(SetupPointContinue(y, i, "failed"), "slave"))
  BY <1>5, FwdFinish DEF FwdEnds
<1>7. fkind # "dev" => ForwardFits(IdlePoint(y, i)) /\ ForwardFits(IdlePoint([y EXCEPT !.arkFd = TRUE], i))
  <2>1. ForwardFits([y EXCEPT !.arkFd = TRUE]) /\ [y EXCEPT !.arkFd = TRUE].ctx = y.ctx
    BY <1>1, FwdFlags
  <2> QED BY <1>1, <1>2, <2>1, FwdIdlePoint
<1>8. ForwardFits([y EXCEPT !.ctx["slave"][i].st = "connecting"])
  <2> DEFINE c == [y.ctx["slave"][i] EXCEPT !.st = "connecting"]
  <2>1. [y EXCEPT !.ctx["slave"][i].st = "connecting"] = [y EXCEPT !.ctx["slave"][i] = c]
    BY <1>1 DEF ForwardFits, ForwardShape, FwdEnds
  <2>2. /\ DOMAIN c = DOMAIN NoContext /\ c.st = "connecting" /\ c.ready = y.ctx["slave"][i].ready
        /\ c.idle = y.ctx["slave"][i].idle /\ c.checkPoint = y.ctx["slave"][i].checkPoint
        /\ c.connected = y.ctx["slave"][i].connected /\ c.io = y.ctx["slave"][i].io
    BY <1>1 DEF ForwardFits, ForwardShape, FwdEnds, NoContext
  <2> HIDE DEF c
  <2>3. CtxMoves(y.ctx["slave"][i], c)
    BY <1>2, <1>2a, <2>2 DEF CtxMoves
  <2> QED BY <1>1, <2>1, <2>2, <2>3, FwdQuietOne DEF FwdEnds
<1>9. CASE check /\ fkind = "ark"
  BY <1>3, <1>4, <1>6, <1>7, <1>9 DEF SetupArkPoint
<1>10. CASE check /\ fkind # "ark"
  BY <1>3, <1>4, <1>5, <1>10
<1>11. CASE ~check
  <2>1. z = GivenUp(y, i) \/ z \in SetupPoint(y, i)
    BY <1>3, <1>11
  <2>2. CASE fkind = "tcp"
    BY <1>4, <1>8, <2>1, <2>2 DEF SetupPoint, SetupTCPPoint
  <2>3. CASE fkind = "abstract"
    BY <1>4, <1>5, <1>6, <2>1, <2>3 DEF SetupPoint, SetupFilePoint
  <2>4. CASE fkind = "jdwp"
    BY <1>4, <1>7, <2>1, <2>4 DEF SetupPoint, SetupJdwpPoint
  <2>5. CASE fkind = "dev"
    BY <1>4, <1>5, <2>1, <2>5 DEF SetupPoint, SetupDevicePoint
  <2>6. CASE fkind = "ark"
    BY <1>4, <1>5, <2>1, <2>6 DEF SetupPoint
  <2> QED BY <2>2, <2>3, <2>4, <2>5, <2>6 DEF ForwardTypes
<1> QED BY <1>9, <1>10, <1>11

\* StopTask closes the contexts of the map, empties it and deletes none.
LEMMA FwdStop ==
  ASSUME NEW x, ForwardFits(x), NEW e \in FwdEnds, x.task[e] = "run"
  PROVE  ForwardFits(StopTask(x, e))
<1> DEFINE y == StopTask(x, e)
           C(i) == IF i \in x.mapCtxPoint[e] /\ ~x.ctx[e][i].finish
                   THEN [x.ctx[e][i] EXCEPT !.finish = TRUE, !.st = "closing"] ELSE x.ctx[e][i]
<1>1. y = [x EXCEPT !.task[e] = "stopped", !.mapCtxPoint[e] = {}, !.ctx[e] = [i \in Conns |-> C(i)]]
  BY DEF StopTask
<1>2. \A i \in Conns : /\ DOMAIN C(i) = DOMAIN NoContext /\ C(i).ready = x.ctx[e][i].ready
                       /\ C(i).idle = x.ctx[e][i].idle /\ C(i).checkPoint = x.ctx[e][i].checkPoint
                       /\ C(i).connected = x.ctx[e][i].connected /\ C(i).io = x.ctx[e][i].io
                       /\ C(i) = x.ctx[e][i] \/ (C(i).st = "closing" /\ C(i).finish /\ i \in x.mapCtxPoint[e]
                                                 /\ ~x.ctx[e][i].finish)
  BY DEF ForwardFits, ForwardShape, NoContext
<1>3. \A i \in x.mapCtxPoint[e] : x.ctx[e][i].st \notin {"none", "deleted"}
  BY DEF ForwardFits, RefsFit, Undeleted
<1> HIDE DEF C
<1>4. \A i \in Conns : CtxMoves(x.ctx[e][i], C(i))
  BY <1>2, <1>3 DEF CtxMoves, ForwardFits, ContextStages
<1> HIDE DEF y
<1>5. /\ y.net = x.net /\ y.refCount = x.refCount /\ DOMAIN y = DOMAIN x
      /\ y.task[e] = "stopped" /\ y.mapCtxPoint[e] = {} /\ \A i \in Conns : y.ctx[e][i] = C(i)
      /\ \A d \in FwdEnds : d # e => y.task[d] = x.task[d] /\ y.mapCtxPoint[d] = x.mapCtxPoint[d]
                                     /\ y.ctx[d] = x.ctx[d]
      /\ DOMAIN y.ctx = FwdEnds /\ DOMAIN y.task = FwdEnds /\ DOMAIN y.mapCtxPoint = FwdEnds
      /\ DOMAIN y.ctx[e] = Conns
  BY <1>1 DEF ForwardFits, ForwardShape
<1>6. ForwardShape(y)
  <2>1. \A d \in FwdEnds : DOMAIN y.ctx[d] = Conns /\ \A i \in Conns : DOMAIN y.ctx[d][i] = DOMAIN NoContext
    BY <1>2, <1>5 DEF ForwardFits, ForwardShape
  <2>2. \A d \in FwdEnds : /\ y.task[d] \in {"none", "run", "stopped", "deleted"}
                           /\ y.mapCtxPoint[d] \subseteq Conns /\ y.net[d] \in Seq(ForwardMessages)
                           /\ y.refCount[d] \in Nat
    BY <1>5 DEF ForwardFits, ForwardShape
  <2> QED BY <1>5, <2>1, <2>2 DEF ForwardFits, ForwardShape
<1>7. \A d \in FwdEnds, i \in Conns : CtxMoves(x.ctx[d][i], x.ctx[d][i])
  BY DEF ForwardFits, ContextStages, CtxMoves
<1>8. \A d \in FwdEnds : /\ y.mapCtxPoint[d] \subseteq x.mapCtxPoint[d]
                         /\ y.task[d] = x.task[d] \/ (x.task[d] = "run" /\ y.task[d] = "stopped")
                         /\ \A i \in Conns : CtxMoves(x.ctx[d][i], y.ctx[d][i])
  BY <1>4, <1>5, <1>7
<1>9. \A d \in FwdEnds, i \in Conns : y.ctx[d][i].ready = x.ctx[d][i].ready
  BY <1>2, <1>5
<1>10. \A i \in Conns : y.ctx["master"][i].ready => x.ctx["master"][i].ready
  BY <1>9 DEF FwdEnds
<1>11. ForwardFits(y)
  BY <1>5, <1>6, <1>8, <1>10, FwdQuiet
<1> QED BY <1>11 DEF y

-----------------------------------------------------------------------------
(* Port forwarding: one lemma per action                                   *)

\* The handle of a closing context is closed.
LEMMA FwdHandleClose ==
  ASSUME ForwardInv, NEW e \in FwdEnds, NEW i \in Conns, HandleClose(e, i)
  PROVE  ForwardFits(fwd')
<1> DEFINE n == IF fwd.ctx[e][i].io = "run" THEN "abandoned" ELSE fwd.ctx[e][i].io
           c == [fwd.ctx[e][i] EXCEPT !.st = "closed", !.writes = 0, !.io = n]
<1>1. fwd' = [fwd EXCEPT !.ctx[e][i] = c] /\ fwd.ctx[e][i].st = "closing"
  <2>1. /\ fwd' = [fwd EXCEPT !.ctx[e][i].st = "closed", !.ctx[e][i].writes = 0, !.ctx[e][i].io = n]
        /\ fwd.ctx[e][i].st = "closing"
    BY DEF HandleClose, ForwardInv, ForwardFits, ForwardShape
  <2>2. e \in DOMAIN fwd.ctx /\ i \in DOMAIN fwd.ctx[e] /\ "ctx" \in DOMAIN fwd
    BY DEF ForwardInv, ForwardFits, ForwardShape
  <2> HIDE DEF n
  <2>3. [fwd EXCEPT !.ctx[e][i].st = "closed", !.ctx[e][i].writes = 0, !.ctx[e][i].io = n]
        = [fwd EXCEPT !.ctx[e][i] = c]
    BY <2>2
  <2> QED BY <2>1, <2>3
<1>2. /\ DOMAIN c = DOMAIN NoContext /\ c.st = "closed" /\ c.ready = fwd.ctx[e][i].ready
      /\ c.idle = fwd.ctx[e][i].idle /\ c.checkPoint = fwd.ctx[e][i].checkPoint
      /\ c.connected = fwd.ctx[e][i].connected /\ c.io # "run" /\ c.finish = fwd.ctx[e][i].finish
  BY DEF ForwardInv, ForwardFits, ForwardShape, NoContext
<1> HIDE DEF c
<1>3. CtxMoves(fwd.ctx[e][i], c)
  BY <1>1, <1>2 DEF CtxMoves, ForwardInv, ForwardFits, ContextStages
<1> QED BY <1>1, <1>2, <1>3, FwdQuietOne DEF ForwardInv

\* FreeContextCallBack takes the context out of the map and gives back its count.
LEMMA FwdFreeContextCallBack ==
  ASSUME ForwardInv, NEW e \in FwdEnds, NEW i \in Conns, FreeContextCallBack(e, i)
  PROVE  ForwardFits(fwd')
<1> DEFINE c == [fwd.ctx[e][i] EXCEPT !.st = "deleted"]
           z == [fwd EXCEPT !.ctx[e][i] = c]
           n == IF fwd.refCount[e] > 0 THEN fwd.refCount[e] - 1 ELSE fwd.refCount[e]
           y == fwd'
<1>0. ForwardShape(fwd) /\ ForwardFits(fwd) /\ fwd.refCount[e] \in Nat
  BY DEF ForwardInv, ForwardFits, ForwardShape
<1>1. fwd.ctx[e][i].st = "closed" /\ fwd.ctx[e][i].finish
  BY DEF FreeContextCallBack, ForwardInv, ForwardFits, ContextStages
<1>2. y = [z EXCEPT !.mapCtxPoint[e] = fwd.mapCtxPoint[e] \ {i}, !.refCount[e] = n]
  BY <1>0 DEF FreeContextCallBack, RemoveContext, ForwardShape
<1>3. /\ DOMAIN c = DOMAIN NoContext /\ c.st = "deleted" /\ c.ready = fwd.ctx[e][i].ready
      /\ c.idle = fwd.ctx[e][i].idle /\ c.checkPoint = fwd.ctx[e][i].checkPoint
      /\ c.connected = fwd.ctx[e][i].connected /\ c.io = fwd.ctx[e][i].io /\ c.finish = fwd.ctx[e][i].finish
  BY <1>0 DEF ForwardShape, NoContext
<1> HIDE DEF c
<1>4. /\ ForwardShape(z)
      /\ z.mapCtxPoint = fwd.mapCtxPoint /\ z.refCount = fwd.refCount /\ z.task = fwd.task /\ z.net = fwd.net
      /\ z.ctx[e][i] = c
      /\ \A d \in FwdEnds, j \in Conns : d # e \/ j # i => z.ctx[d][j] = fwd.ctx[d][j]
  BY <1>0, <1>3, FwdSetFacts
<1>5. n \in Nat
  BY <1>0
<1> HIDE DEF z, n, y
<1>6. /\ ForwardShape(y) /\ y.ctx = z.ctx /\ y.net = fwd.net /\ y.task = fwd.task
      /\ y.mapCtxPoint[e] = fwd.mapCtxPoint[e] \ {i} /\ y.refCount[e] = n
      /\ \A d \in FwdEnds : d # e => y.mapCtxPoint[d] = fwd.mapCtxPoint[d] /\ y.refCount[d] = fwd.refCount[d]
  BY <1>2, <1>4, <1>5 DEF ForwardShape
<1>7. y.ctx[e][i] = c /\ \A d \in FwdEnds, j \in Conns : d # e \/ j # i => y.ctx[d][j] = fwd.ctx[d][j]
  BY <1>4, <1>6
<1>8. \A d \in FwdEnds, j \in Conns : /\ y.ctx[d][j].ready = fwd.ctx[d][j].ready
                                     /\ y.ctx[d][j].connected = fwd.ctx[d][j].connected
                                     /\ y.ctx[d][j].idle = fwd.ctx[d][j].idle
                                     /\ y.ctx[d][j].st = "none" <=> fwd.ctx[d][j].st = "none"
  BY <1>1, <1>3, <1>7
<1>8a. \A j \in Conns : /\ y.ctx["master"][j].ready = fwd.ctx["master"][j].ready
                        /\ y.ctx["slave"][j].connected = fwd.ctx["slave"][j].connected
                        /\ y.ctx["master"][j].st = "none" <=> fwd.ctx["master"][j].st = "none"
                        /\ y.ctx["slave"][j].st = "none" <=> fwd.ctx["slave"][j].st = "none"
  BY <1>1, <1>3, <1>7 DEF FwdEnds
<1>9. ContextStages(y)
  <2> SUFFICES ASSUME NEW d \in FwdEnds, NEW j \in Conns
               PROVE  LET r == y.ctx[d][j]
                      IN  /\ r.st \in {"none", "live", "connecting", "closing", "closed", "deleted"}
                          /\ r.st = "none" => ~r.idle /\ ~r.ready /\ ~r.connected /\ ~r.finish /\ r.io = "none"
                          /\ r.st \in {"closing", "closed", "deleted"} => r.finish
                          /\ r.idle => d = "slave" /\ fkind # "dev"
                          /\ r.io = "run" => r.st \in {"live", "closing"}
                          /\ r.checkPoint => j = 0
    BY DEF ContextStages
  <2>1. CASE d = e /\ j = i
    <3>1. /\ fwd.ctx[e][i].io # "run" /\ (fwd.ctx[e][i].idle => e = "slave" /\ fkind # "dev")
          /\ fwd.ctx[e][i].checkPoint => i = 0
      BY <1>0, <1>1 DEF ForwardFits, ContextStages
    <3> QED BY <1>1, <1>3, <1>7, <2>1, <3>1
  <2>2. CASE d # e \/ j # i
    BY <1>0, <1>7, <2>2 DEF ForwardFits, ContextStages
  <2> QED BY <2>1, <2>2
<1>10. MessagesFit(y)
  BY <1>0, <1>6, <1>8a, FwdMessagesKept
<1>11. MasterFirst(y) /\ ReadyFit(y)
  BY <1>0, <1>6, <1>8a DEF ForwardFits, MasterFirst, ReadyFit
<1>12. RefsFit(y)
  <2>1. \A d \in FwdEnds : d # e => Undeleted(y, d) = Undeleted(fwd, d)
    BY <1>7 DEF Undeleted
  <2>2. \A d \in FwdEnds : Idles(y, d) = Idles(fwd, d)
    <3>1. \A d \in FwdEnds, j \in Conns : y.ctx[d][j].idle = fwd.ctx[d][j].idle
      BY <1>3, <1>7
    <3> QED BY <3>1 DEF Idles
  <2>3. Undeleted(y, e) = Undeleted(fwd, e) \ {i} /\ i \in Undeleted(fwd, e)
    BY <1>1, <1>3, <1>7 DEF Undeleted
  <2>4. IsFiniteSet(Undeleted(fwd, e)) /\ IsFiniteSet(Idles(fwd, e))
    BY FwdConnsFinite, FS_Subset DEF Undeleted, Idles
  <2>5. Cardinality(Undeleted(y, e)) = Cardinality(Undeleted(fwd, e)) - 1
    BY <2>3, <2>4, FS_RemoveElement
  <2>6. Cardinality(Undeleted(fwd, e)) \in Nat /\ Cardinality(Idles(fwd, e)) \in Nat
        /\ Cardinality(Undeleted(fwd, e)) # 0
    BY <2>3, <2>4, FS_CardinalityType, FS_EmptySet
  <2>7. y.refCount[e] = Cardinality(Undeleted(y, e)) + Cardinality(Idles(y, e))
    BY <1>0, <1>6, <2>2, <2>5, <2>6 DEF ForwardFits, RefsFit, n
  <2>8. y.mapCtxPoint[e] \subseteq Undeleted(y, e) /\ y.task[e] # "deleted"
    BY <1>0, <1>6, <2>3 DEF ForwardFits, RefsFit
  <2>9. \A d \in FwdEnds : d # e =>
          /\ y.refCount[d] = Cardinality(Undeleted(y, d)) + Cardinality(Idles(y, d))
          /\ y.mapCtxPoint[d] \subseteq Undeleted(y, d)
          /\ y.task[d] = "deleted" => Undeleted(y, d) = {} /\ Idles(y, d) = {}
    BY <1>0, <1>6, <2>1, <2>2 DEF ForwardFits, RefsFit
  <2> QED BY <2>7, <2>8, <2>9 DEF RefsFit
<1> QED BY <1>6, <1>9, <1>10, <1>11, <1>12 DEF ForwardFits, y

\* The end of a connect to the target, with or without success.
LEMMA FwdConnectTarget ==
  ASSUME ForwardInv, NEW i \in Conns, ConnectTarget(i)
  PROVE  ForwardFits(fwd')
<1> DEFINE c == [fwd.ctx["slave"][i] EXCEPT !.st = "live"]
           z == [fwd EXCEPT !.ctx["slave"][i] = c]
<1>0. "slave" \in FwdEnds
  BY DEF FwdEnds
<1>1. [fwd EXCEPT !.ctx["slave"][i].st = "live"] = z /\ fwd.ctx["slave"][i].st = "connecting"
  BY <1>0 DEF ConnectTarget, ForwardInv, ForwardFits, ForwardShape
<1>2. /\ DOMAIN c = DOMAIN NoContext /\ c.st = "live" /\ c.ready = fwd.ctx["slave"][i].ready
      /\ c.idle = fwd.ctx["slave"][i].idle /\ c.checkPoint = fwd.ctx["slave"][i].checkPoint
      /\ c.connected = fwd.ctx["slave"][i].connected /\ c.io = fwd.ctx["slave"][i].io
  BY <1>0 DEF ForwardInv, ForwardFits, ForwardShape, NoContext
<1>3. CtxMoves(fwd.ctx["slave"][i], c)
  BY <1>1, <1>2 DEF CtxMoves
<1> HIDE DEF c
<1>4. ForwardFits(z) /\ z.ctx["slave"][i] = c
  BY <1>0, <1>2, <1>3, FwdQuietOne DEF ForwardInv
<1>5. PICK status \in {"ok", "failed"} : fwd' = SetupPointContinue(z, i, status)
  BY <1>1 DEF ConnectTarget
<1> HIDE DEF z
<1> QED BY <1>2, <1>4, <1>5, FwdContinue

\* The idle callback of a jdwp or ark point is over.
LEMMA FwdSetupJdwpPointCallBack ==
  ASSUME ForwardInv, NEW i \in Conns, SetupJdwpPointCallBack(i)
  PROVE  ForwardFits(fwd')
<1> DEFINE x == IdleSet(fwd, i, FALSE)
           w == [fwd EXCEPT !.ctx["slave"][i].idle = FALSE, !.refCount["slave"] = @ - 1]
<1>0. "slave" \in FwdEnds /\ ForwardFits(fwd)
  BY DEF FwdEnds, ForwardInv
<1>1. w = x
  BY <1>0 DEF ForwardFits, ForwardShape, IdleSet
<1>2. fwd.ctx["slave"][i].st # "none" /\ fwd.ctx["slave"][i].idle
  BY <1>0 DEF SetupJdwpPointCallBack, ForwardFits, ContextStages
<1>3. fwd' = w \/ fwd' = SetupPointContinue(w, i, "ok")
  BY DEF SetupJdwpPointCallBack
<1> HIDE DEF x, w
<1>4. ForwardFits(x) /\ x.ctx["slave"][i].st = fwd.ctx["slave"][i].st /\ fkind # "dev"
  BY <1>0, <1>2, FwdIdle DEF x
<1> QED BY <1>1, <1>2, <1>3, <1>4, FwdContinue

\* No context of the master means no context of the slave and no request for one.
LEMMA FwdUnasked ==
  ASSUME NEW x, ForwardFits(x), NEW i \in Conns, x.ctx["master"][i].st = "none"
  PROVE  /\ x.ctx["slave"][i].st = "none"
         /\ \A k \in 1 .. Len(x.net["slave"]) :
              ~(x.net["slave"][k].cmd \in Opening /\ x.net["slave"][k].id = i)
BY DEF ForwardFits, MasterFirst, MessagesFit, ToSlave

\* BeginForward makes the tasks and the master's listener and asks the slave for a trial.
LEMMA FwdBegin ==
  ASSUME ForwardInv, BeginForward
  PROVE  ForwardFits(fwd')
<1> DEFINE w == [fwd EXCEPT !.task = [e \in FwdEnds |-> "run"]]
           x == MallocContext(w, "master", 0, FALSE)
<1>0. "master" \in FwdEnds /\ "slave" \in FwdEnds /\ 0 \in Conns /\ ForwardFits(fwd)
  BY ForwardBounds DEF FwdEnds, ForwardInv, Conns
<1>1. fwd.ctx["master"][0].st = "none"
  BY <1>0 DEF BeginForward, ForwardFits, MasterFirst
<1>2. /\ w.ctx = fwd.ctx /\ w.net = fwd.net /\ w.refCount = fwd.refCount /\ w.mapCtxPoint = fwd.mapCtxPoint
      /\ w.task = [e \in FwdEnds |-> "run"] /\ DOMAIN w = DOMAIN fwd
  BY <1>0 DEF ForwardFits, ForwardShape
<1>3. ForwardFits(w)
  <2> HIDE DEF w
  <2>1. ForwardShape(w)
    BY <1>0, <1>2 DEF ForwardFits, ForwardShape
  <2>2. ContextStages(w) /\ ReadyFit(w)
    BY <1>0, <1>2 DEF ForwardFits, ContextStages, ReadyFit
  <2>3. MessagesFit(w)
    BY <1>0, <1>2, FwdMessagesKept
  <2>4. MasterFirst(w)
    BY <1>0, <1>2 DEF ForwardFits, MasterFirst
  <2>5. \A e \in FwdEnds : Undeleted(w, e) = Undeleted(fwd, e) /\ Idles(w, e) = Idles(fwd, e)
    BY <1>2 DEF Undeleted, Idles
  <2>6. RefsFit(w)
    BY <1>0, <1>2, <2>5 DEF ForwardFits, RefsFit
  <2> QED BY <2>1, <2>2, <2>3, <2>4, <2>6 DEF ForwardFits
<1>4. /\ fwd.ctx["slave"][0].st = "none"
      /\ \A k \in 1 .. Len(fwd.net["slave"]) :
           ~(fwd.net["slave"][k].cmd \in Opening /\ fwd.net["slave"][k].id = 0)
  BY <1>0, <1>1, FwdUnasked
<1>5. fwd' = SendToTask(x, "master", "FORWARD_CHECK", 0) \/ fwd' = FailedDispatch(x, "master")
  BY DEF BeginForward
<1> HIDE DEF w
<1>6. w.task["master"] = "run"
  BY <1>0, <1>2
<1>7. /\ ForwardFits(x) /\ x.net = w.net /\ x.ctx["master"][0].st = "live"
      /\ x.ctx["slave"][0] = w.ctx["slave"][0]
  <2>1. w.task["master"] # "none" /\ w.task["master"] # "deleted" /\ w.ctx["master"][0].st = "none"
    BY <1>1, <1>2, <1>6
  <2>2. \A k \in 1 .. Len(w.net["slave"]) : ~(w.net["slave"][k].cmd \in Opening /\ w.net["slave"][k].id = 0)
    BY <1>2, <1>4
  <2>3. /\ ForwardFits(x) /\ x.net = w.net /\ x.ctx["master"][0].st = "live"
        /\ \A d \in FwdEnds, j \in Conns : d # "master" \/ j # 0 => x.ctx[d][j] = w.ctx[d][j]
    <3> DEFINE check == FALSE
    <3>1. x = MallocContext(w, "master", 0, check) /\ (check => 0 = 0)
      OBVIOUS
    <3> HIDE DEF check, x
    <3> QED BY <1>0, <1>3, <2>1, <2>2, <3>1, FwdMalloc
  <2> QED BY <1>0, <2>3
<1> HIDE DEF x
<1>8. MayTell(x, "master", "FORWARD_CHECK", 0) /\ "FORWARD_CHECK" \in ForwardCommands
  BY <1>2, <1>4, <1>7 DEF MayTell, ForwardCommands, Opening
<1> QED BY <1>0, <1>5, <1>7, <1>8, FwdSend, FwdFinish

\* A connection to the listener gets a new context; the slave is asked for its own.
LEMMA FwdListen ==
  ASSUME ForwardInv, NEW i \in Conns, ListenCallback(i)
  PROVE  ForwardFits(fwd')
<1>0. "master" \in FwdEnds /\ "slave" \in FwdEnds /\ 0 \in Conns /\ ForwardFits(fwd)
  BY ForwardBounds DEF FwdEnds, ForwardInv, Conns
<1>1. fwd.ctx["master"][0].st = "live" /\ fwd.ctx["master"][i].st = "none" /\ i # 0
  BY DEF ListenCallback
<1>2. CASE ~fwd.ctx["master"][0].ready
  <2>1. fwd' = FinishForward(FreeContext(fwd, "master", 0, FALSE), "master")
    BY <1>2 DEF ListenCallback
  <2>2. ForwardFits(FreeContext(fwd, "master", 0, FALSE))
    BY <1>0, <1>1, FwdFree
  <2> QED BY <1>0, <2>1, <2>2, FwdFinish
<1>3. CASE fwd.ctx["master"][0].ready
  <2> DEFINE x == MallocContext(fwd, "master", i, FALSE)
  <2>1. fwd' = SendToTask(x, "master", "ACTIVE_SLAVE", i) \/ fwd' = FreeContext(x, "master", i, FALSE)
    BY <1>3 DEF ListenCallback
  <2>2. /\ fwd.ctx["slave"][i].st = "none"
        /\ \A k \in 1 .. Len(fwd.net["slave"]) :
             ~(fwd.net["slave"][k].cmd \in Opening /\ fwd.net["slave"][k].id = i)
    BY <1>0, <1>1, FwdUnasked
  <2>3. fwd.task["master"] # "deleted" /\ fwd.task["master"] # "none"
    <3>1. 0 \in Undeleted(fwd, "master")
      BY <1>0, <1>1 DEF Undeleted
    <3> QED BY <1>0, <1>1, <3>1 DEF ForwardFits, RefsFit, MasterFirst
  <2>4. /\ ForwardFits(x) /\ x.net = fwd.net /\ x.ctx["master"][i].st = "live"
        /\ x.ctx["slave"][i] = fwd.ctx["slave"][i]
    <3>1. /\ ForwardFits(x) /\ x.net = fwd.net /\ x.ctx["master"][i].st = "live"
          /\ \A d \in FwdEnds, j \in Conns : d # "master" \/ j # i => x.ctx[d][j] = fwd.ctx[d][j]
      <4> DEFINE check == FALSE
      <4>1. x = MallocContext(fwd, "master", i, check) /\ (check => i = 0)
        OBVIOUS
      <4> HIDE DEF check, x
      <4> QED BY <1>0, <1>1, <2>2, <2>3, <4>1, FwdMalloc
    <3> QED BY <1>0, <3>1
  <2> HIDE DEF x
  <2>5. MayTell(x, "master", "ACTIVE_SLAVE", i) /\ "ACTIVE_SLAVE" \in ForwardCommands
    BY <2>2, <2>4 DEF MayTell, ForwardCommands, Opening
  <2>6. ForwardFits(FreeContext(x, "master", i, FALSE))
    BY <1>0, <2>4, FwdFree
  <2> QED BY <1>0, <2>1, <2>4, <2>5, <2>6, FwdSend
<1> QED BY <1>2, <1>3

\* ReadForwardBuf passes data on or frees the context whose connection has ended.
LEMMA FwdRead ==
  ASSUME ForwardInv, NEW e \in FwdEnds, NEW i \in Conns, ReadForwardBuf(e, i)
  PROVE  ForwardFits(fwd')
<1>0. ForwardFits(fwd)
  BY DEF ForwardInv
<1>1. fwd.ctx[e][i].st # "none"
  BY <1>0 DEF ReadForwardBuf, ForwardFits, ContextStages
<1> DEFINE c == [fwd.ctx[e][i] EXCEPT !.reads = fwd.ctx[e][i].reads + 1]
           z == [fwd EXCEPT !.ctx[e][i] = c]
<1>2. [fwd EXCEPT !.ctx[e][i].reads = @ + 1] = z
  BY <1>0 DEF ForwardFits, ForwardShape
<1>3. fwd' = SendToTask(z, e, "FORWARD_DATA", i) \/ fwd' = FreeContext(fwd, e, i, TRUE)
  BY <1>2 DEF ReadForwardBuf, RemoteNotified
<1>4. /\ DOMAIN c = DOMAIN NoContext /\ c.st = fwd.ctx[e][i].st /\ c.ready = fwd.ctx[e][i].ready
      /\ c.idle = fwd.ctx[e][i].idle /\ c.checkPoint = fwd.ctx[e][i].checkPoint
      /\ c.connected = fwd.ctx[e][i].connected /\ c.io = fwd.ctx[e][i].io /\ c.finish = fwd.ctx[e][i].finish
  BY <1>0 DEF ForwardFits, ForwardShape, NoContext
<1> HIDE DEF c
<1>5. CtxMoves(fwd.ctx[e][i], c)
  BY <1>0, <1>1, <1>4 DEF CtxMoves, ForwardFits, ContextStages
<1>6. ForwardFits(z)
  BY <1>0, <1>4, <1>5, FwdQuietOne
<1> HIDE DEF z
<1>7. MayTell(z, e, "FORWARD_DATA", i) /\ "FORWARD_DATA" \in ForwardCommands
  BY DEF MayTell, ForwardCommands
<1>8. ForwardFits(FreeContext(fwd, e, i, TRUE))
  BY <1>0, <1>1, FwdFree
<1> QED BY <1>3, <1>6, <1>7, <1>8, FwdSend

\* Writes are counted up and down.
LEMMA FwdWrites ==
  ASSUME NEW x, ForwardFits(x), NEW e \in FwdEnds, NEW i \in Conns, x.ctx[e][i].st # "none", NEW n
  PROVE  /\ ForwardFits([x EXCEPT !.ctx[e][i].writes = n])
         /\ [x EXCEPT !.ctx[e][i].writes = n].ctx[e][i].st # "none"
<1> DEFINE c == [x.ctx[e][i] EXCEPT !.writes = n]
           z == [x EXCEPT !.ctx[e][i] = c]
<1>1. [x EXCEPT !.ctx[e][i].writes = n] = z
  BY DEF ForwardFits, ForwardShape
<1>2. /\ DOMAIN c = DOMAIN NoContext /\ c.st = x.ctx[e][i].st /\ c.ready = x.ctx[e][i].ready
      /\ c.idle = x.ctx[e][i].idle /\ c.checkPoint = x.ctx[e][i].checkPoint
      /\ c.connected = x.ctx[e][i].connected /\ c.io = x.ctx[e][i].io /\ c.finish = x.ctx[e][i].finish
  BY DEF ForwardFits, ForwardShape, NoContext
<1> HIDE DEF c
<1>3. CtxMoves(x.ctx[e][i], c)
  BY <1>2 DEF CtxMoves, ForwardFits, ContextStages
<1>4. ForwardFits(z) /\ z.ctx[e][i] = c
  BY <1>2, <1>3, FwdQuietOne
<1> HIDE DEF z
<1> QED BY <1>1, <1>2, <1>4

\* SendCallbackForwardBuf, with or without a write error.
LEMMA FwdSendCallback ==
  ASSUME ForwardInv, NEW e \in FwdEnds, NEW i \in Conns, SendCallbackForwardBuf(e, i)
  PROVE  ForwardFits(fwd')
<1> DEFINE n == fwd.ctx[e][i].writes - 1
           x == [fwd EXCEPT !.ctx[e][i].writes = n]
<1>0. ForwardFits(fwd) /\ fwd.ctx[e][i].st = "live"
  BY DEF ForwardInv, SendCallbackForwardBuf
<1>1. x = [fwd EXCEPT !.ctx[e][i].writes = @ - 1]
  BY <1>0 DEF ForwardFits, ForwardShape
<1>2. fwd' \in {x, FreeContext(x, e, i, TRUE)}
  BY <1>1 DEF SendCallbackForwardBuf
<1> HIDE DEF n
<1>3. ForwardFits(x) /\ x.ctx[e][i].st # "none"
  BY <1>0, FwdWrites
<1> HIDE DEF x
<1> QED BY <1>2, <1>3, FwdFree

\* A step of the I/O thread of a device.
LEMMA FwdDeviceIo ==
  ASSUME ForwardInv, NEW i \in Conns, DeviceIo(i)
  PROVE  ForwardFits(fwd')
<1> DEFINE e == "slave"
           c == [fwd.ctx[e][i] EXCEPT !.reads = fwd.ctx[e][i].reads + 1]
           z == [fwd EXCEPT !.ctx[e][i] = c]
           D(v) == [fwd.ctx[e][i] EXCEPT !.io = v]
           y(v) == [fwd EXCEPT !.ctx[e][i] = D(v)]
<1>0. ForwardFits(fwd) /\ e \in FwdEnds
  BY DEF ForwardInv, FwdEnds
<1>1. fwd.ctx[e][i].st # "none"
  BY <1>0 DEF DeviceIo, ForwardFits, ContextStages
<1>2. /\ [fwd EXCEPT !.ctx[e][i].reads = @ + 1] = z
      /\ \A v \in {"over", "none"} : [fwd EXCEPT !.ctx[e][i].io = v] = y(v)
  BY <1>0 DEF ForwardFits, ForwardShape
<1>3. \/ fwd' = SendToTask(z, e, "FORWARD_DATA", i) \/ fwd' = y("over") \/ fwd' = y("none")
      \/ fwd' = FreeContext(y("none"), e, i, TRUE)
  BY <1>2 DEF DeviceIo, RemoteNotified
<1>4. /\ DOMAIN c = DOMAIN NoContext /\ c.st = fwd.ctx[e][i].st /\ c.ready = fwd.ctx[e][i].ready
      /\ c.idle = fwd.ctx[e][i].idle /\ c.checkPoint = fwd.ctx[e][i].checkPoint
      /\ c.connected = fwd.ctx[e][i].connected /\ c.io = fwd.ctx[e][i].io /\ c.finish = fwd.ctx[e][i].finish
      /\ \A v \in {"over", "none"} :
           /\ DOMAIN D(v) = DOMAIN NoContext /\ D(v).st = fwd.ctx[e][i].st /\ D(v).ready = fwd.ctx[e][i].ready
           /\ D(v).idle = fwd.ctx[e][i].idle /\ D(v).checkPoint = fwd.ctx[e][i].checkPoint
           /\ D(v).connected = fwd.ctx[e][i].connected /\ D(v).io = v /\ D(v).finish = fwd.ctx[e][i].finish
  BY <1>0 DEF ForwardFits, ForwardShape, NoContext
<1> HIDE DEF c, D
<1>5. CtxMoves(fwd.ctx[e][i], c) /\ \A v \in {"over", "none"} : CtxMoves(fwd.ctx[e][i], D(v))
  BY <1>0, <1>1, <1>4 DEF CtxMoves, ForwardFits, ContextStages
<1>6. ForwardFits(z) /\ \A v \in {"over", "none"} : ForwardFits(y(v)) /\ y(v).ctx[e][i] = D(v)
  BY <1>0, <1>4, <1>5, FwdQuietOne
<1> HIDE DEF z, y
<1>7. MayTell(z, e, "FORWARD_DATA", i) /\ "FORWARD_DATA" \in ForwardCommands
  BY DEF MayTell, ForwardCommands
<1>8. ForwardFits(FreeContext(y("none"), e, i, TRUE))
  BY <1>0, <1>1, <1>4, <1>6, FwdFree
<1> QED BY <1>0, <1>3, <1>6, <1>7, <1>8, FwdSend

\* A command of a context that is in the map.
LEMMA FwdCommand ==
  ASSUME NEW x, ForwardFits(x), NEW e \in FwdEnds, NEW m \in ForwardMessages,
         m.cmd \in {"FORWARD_CHECK_RESULT", "ACTIVE_MASTER", "FORWARD_DATA", "FREE_CONTEXT"},
         m.cmd \in {"FORWARD_CHECK_RESULT", "ACTIVE_MASTER"} => e = "master",
         m.cmd = "FORWARD_CHECK_RESULT" => m.id = 0,
         m.cmd = "ACTIVE_MASTER" /\ fkind # "dev" => x.ctx["slave"][m.id].connected,
         NEW z \in ForwardCommandDispatch(x, e, m)
  PROVE  ForwardFits(z)
<1>0. m.id \in Conns /\ "master" \in FwdEnds
  BY DEF ForwardMessages, FwdEnds
<1>1. CASE ~QueryContext(x, e, m.id)
  BY <1>1 DEF ForwardCommandDispatch
<1>2. CASE QueryContext(x, e, m.id)
  <2>1. x.ctx[e][m.id].st # "none"
    BY <1>0, <1>2 DEF QueryContext, ForwardFits, RefsFit, Undeleted
  <2>2. CASE m.cmd = "FORWARD_CHECK_RESULT"
    <3>1. z = [x EXCEPT !.ctx["master"][m.id].ready = TRUE, !.listed = TRUE] /\ e = "master" /\ m.id = 0
      BY <1>2, <2>2 DEF ForwardCommandDispatch, CommandForwardCheckResult
    <3> QED BY <1>0, <2>1, <3>1, FwdReady
  <2>3. CASE m.cmd = "ACTIVE_MASTER"
    <3>1. z = DoForwardBegin(x, e, m.id) \/ z = FailedDispatch(FreeContext(x, e, m.id, TRUE), e)
      BY <1>2, <2>3 DEF ForwardCommandDispatch
    <3>2. ForwardFits(DoForwardBegin(x, e, m.id))
      BY <1>0, <2>1, <2>3, FwdReady
    <3>3. ForwardFits(FreeContext(x, e, m.id, TRUE))
      BY <1>0, <2>1, FwdFree
    <3> QED BY <3>1, <3>2, <3>3, FwdFinish
  <2>4. CASE m.cmd = "FORWARD_DATA"
    <3> DEFINE n == x.ctx[e][m.id].writes + 1
               y == [x EXCEPT !.ctx[e][m.id].writes = n]
    <3>1. y = [x EXCEPT !.ctx[e][m.id].writes = @ + 1]
      BY <1>0 DEF ForwardFits, ForwardShape
    <3>2. z = x \/ z = y \/ z = FreeContext(x, e, m.id, TRUE)
      BY <1>2, <2>4, <3>1 DEF ForwardCommandDispatch, SendForwardBuf
    <3> HIDE DEF n
    <3>3. ForwardFits(y)
      BY <1>0, <2>1, FwdWrites
    <3>4. ForwardFits(FreeContext(x, e, m.id, TRUE))
      BY <1>0, <2>1, FwdFree
    <3> QED BY <3>2, <3>3, <3>4
  <2>5. CASE m.cmd = "FREE_CONTEXT"
    <3>1. z = FreeContext(x, e, m.id, FALSE)
      BY <1>2, <2>5 DEF ForwardCommandDispatch
    <3> QED BY <1>0, <2>1, <3>1, FwdFree
  <2> QED BY <2>2, <2>3, <2>4, <2>5
<1> QED BY <1>1, <1>2

\* Every message a task is handed: commands, the opening of a context and the end.
LEMMA FwdDispatch ==
  ASSUME ForwardInv, NEW e \in FwdEnds, ForwardDispatch(e)
  PROVE  ForwardFits(fwd')
<1> DEFINE m == Head(fwd.net[e])
           x == Popped(fwd, e)
           stopped == IF x.task[e] = "run" THEN StopTask(x, e) ELSE x
<1>0. ForwardFits(fwd) /\ fwd.net[e] # <<>> /\ fkind \in ForwardTypes
  BY DEF ForwardInv, ForwardDispatch
<1>1. /\ ForwardFits(x) /\ x.ctx = fwd.ctx /\ m \in ForwardMessages
      /\ m = fwd.net[e][1] /\ 1 \in 1 .. Len(fwd.net[e])
      /\ Len(x.net[e]) = Len(fwd.net[e]) - 1
      /\ \A k \in 1 .. Len(fwd.net[e]) - 1 : x.net[e][k] = fwd.net[e][k + 1]
  BY <1>0, FwdPop
<1>2. /\ m.cmd = "CHANNEL_CLOSE 1" => fwd' = SendToTask(stopped, e, "CHANNEL_CLOSE 0", 0)
      /\ m.cmd = "CHANNEL_CLOSE 0" => fwd' = stopped
      /\ m.cmd \notin {"CHANNEL_CLOSE 0", "CHANNEL_CLOSE 1"} /\ x.task[e] # "run" => fwd' = x
      /\ m.cmd = "FORWARD_CHECK" /\ x.task[e] = "run" => fwd' \in SlaveConnect(x, m.id, TRUE)
      /\ m.cmd = "ACTIVE_SLAVE" /\ x.task[e] = "run" => fwd' \in SlaveConnect(x, m.id, FALSE)
      /\ m.cmd \in {"FORWARD_CHECK_RESULT", "ACTIVE_MASTER", "FORWARD_DATA", "FREE_CONTEXT"} /\ x.task[e] = "run"
           => fwd' \in ForwardCommandDispatch(x, e, m)
  BY DEF ForwardDispatch, Popped
<1>3. /\ e = "slave" => ToSlave(fwd, m)
      /\ e = "master" => ToMaster(fwd, m)
  BY <1>0, <1>1 DEF ForwardFits, MessagesFit
<1>4. m.id \in Conns /\ m.cmd \in ForwardCommands /\ 0 \in Conns
  BY <1>1, ForwardBounds DEF ForwardMessages, Conns
<1> HIDE DEF m
<1>5. ForwardFits(stopped)
  BY <1>1, FwdStop
<1> HIDE DEF stopped
<1>6. CASE m.cmd = "CHANNEL_CLOSE 1"
  <2>1. MayTell(stopped, e, "CHANNEL_CLOSE 0", 0) /\ "CHANNEL_CLOSE 0" \in ForwardCommands
    BY DEF MayTell, ForwardCommands
  <2> QED BY <1>2, <1>4, <1>5, <1>6, <2>1, FwdSend
<1>7. CASE m.cmd = "CHANNEL_CLOSE 0"
  BY <1>2, <1>5, <1>7
<1>8. CASE m.cmd \notin {"CHANNEL_CLOSE 0", "CHANNEL_CLOSE 1"} /\ x.task[e] # "run"
  BY <1>1, <1>2, <1>8
<1>9. CASE m.cmd \in Opening /\ x.task[e] = "run"
  <2>1. e = "slave" /\ (m.cmd = "FORWARD_CHECK" => m.id = 0)
        /\ fwd.ctx["slave"][m.id].st = "none" /\ fwd.ctx["master"][m.id].st # "none"
    BY <1>3, <1>9 DEF FwdEnds, ToSlave, ToMaster, Opening
  <2>2. \A k \in 1 .. Len(x.net["slave"]) : ~(x.net["slave"][k].cmd \in Opening /\ x.net["slave"][k].id = m.id)
    <3> SUFFICES ASSUME NEW k \in 1 .. Len(x.net["slave"]),
                        x.net["slave"][k].cmd \in Opening, x.net["slave"][k].id = m.id
                 PROVE  FALSE
      OBVIOUS
    <3>1. OpensOnce(fwd.net["slave"])
      BY <1>0 DEF ForwardFits, MessagesFit
    <3>2. fwd.net["slave"] \in Seq(ForwardMessages)
      BY <1>0 DEF ForwardFits, ForwardShape, FwdEnds
    <3>3. Len(fwd.net["slave"]) \in Nat
      BY <3>2
    <3>4. k \in 1 .. Len(fwd.net["slave"]) - 1 /\ k + 1 \in 1 .. Len(fwd.net["slave"])
      BY <1>1, <2>1, <3>3
    <3>5. x.net["slave"][k] = fwd.net["slave"][k + 1] /\ m = fwd.net["slave"][1]
      BY <1>1, <2>1, <3>4
    <3>6. k + 1 = 1
      BY <1>1, <1>9, <2>1, <3>1, <3>4, <3>5 DEF OpensOnce
    <3> QED BY <3>4, <3>6
  <2>3. CASE m.cmd = "FORWARD_CHECK"
    <3> DEFINE check == TRUE
    <3>1. fwd' \in SlaveConnect(x, m.id, check) /\ check \in BOOLEAN /\ (check => m.id = 0)
      BY <1>2, <1>9, <2>1, <2>3
    <3> HIDE DEF check, x
    <3> QED BY <1>0, <1>1, <1>4, <1>9, <2>1, <2>2, <3>1, FwdSlaveConnect
  <2>4. CASE m.cmd = "ACTIVE_SLAVE"
    <3> DEFINE check == FALSE
    <3>1. fwd' \in SlaveConnect(x, m.id, check) /\ check \in BOOLEAN /\ (check => m.id = 0)
      BY <1>2, <1>9, <2>4
    <3> HIDE DEF check, x
    <3> QED BY <1>0, <1>1, <1>4, <1>9, <2>1, <2>2, <3>1, FwdSlaveConnect
  <2> QED BY <1>9, <2>3, <2>4 DEF Opening
<1>10. CASE m.cmd \in {"FORWARD_CHECK_RESULT", "ACTIVE_MASTER", "FORWARD_DATA", "FREE_CONTEXT"}
            /\ x.task[e] = "run"
  <2>1. /\ m.cmd \in {"FORWARD_CHECK_RESULT", "ACTIVE_MASTER"} => e = "master"
        /\ m.cmd = "FORWARD_CHECK_RESULT" => m.id = 0
        /\ m.cmd = "ACTIVE_MASTER" /\ fkind # "dev" => fwd.ctx["slave"][m.id].connected
    BY <1>3 DEF FwdEnds, ToSlave, ToMaster, Opening
  <2>2. fwd' \in ForwardCommandDispatch(x, e, m)
    BY <1>2, <1>10
  <2> HIDE DEF x
  <2> QED BY <1>1, <1>10, <2>1, <2>2, FwdCommand
<1> QED BY <1>4, <1>6, <1>7, <1>8, <1>9, <1>10 DEF ForwardCommands, Opening

\* The task is deleted when it is stopped and counts nothing: no context is left.
LEMMA FwdRelease ==
  ASSUME ForwardInv, NEW e \in FwdEnds, ReleaseForward(e)
  PROVE  ForwardFits(fwd')
<1> DEFINE y == fwd'
<1>0. ForwardFits(fwd) /\ fwd.task[e] = "stopped" /\ fwd.refCount[e] = 0
  BY DEF ForwardInv, ReleaseForward
<1>1. y = [fwd EXCEPT !.task[e] = "deleted"]
  BY DEF ReleaseForward
<1>2. /\ y.ctx = fwd.ctx /\ y.net = fwd.net /\ y.refCount = fwd.refCount /\ y.mapCtxPoint = fwd.mapCtxPoint
      /\ y.task[e] = "deleted" /\ \A d \in FwdEnds : d # e => y.task[d] = fwd.task[d]
      /\ DOMAIN y = DOMAIN fwd /\ DOMAIN y.task = FwdEnds
  BY <1>0, <1>1 DEF ForwardFits, ForwardShape
<1> HIDE DEF y
<1>3. ForwardShape(y)
  BY <1>0, <1>2 DEF ForwardFits, ForwardShape
<1>4. ContextStages(y) /\ ReadyFit(y)
  BY <1>0, <1>2 DEF ForwardFits, ContextStages, ReadyFit
<1>5. MessagesFit(y)
  BY <1>0, <1>2, FwdMessagesKept
<1>6. MasterFirst(y)
  BY <1>0, <1>2 DEF ForwardFits, MasterFirst, FwdEnds
<1>7. RefsFit(y)
  <2>1. \A d \in FwdEnds : Undeleted(y, d) = Undeleted(fwd, d) /\ Idles(y, d) = Idles(fwd, d)
    BY <1>2 DEF Undeleted, Idles
  <2>2. IsFiniteSet(Undeleted(fwd, e)) /\ IsFiniteSet(Idles(fwd, e))
    BY FwdConnsFinite, FS_Subset DEF Undeleted, Idles
  <2>3. Cardinality(Undeleted(fwd, e)) \in Nat /\ Cardinality(Idles(fwd, e)) \in Nat
    BY <2>2, FS_CardinalityType
  <2>4. Cardinality(Undeleted(fwd, e)) = 0
    BY <1>0, <2>3 DEF ForwardFits, RefsFit
  <2>5. Undeleted(fwd, e) = {}
    BY <2>2, <2>4, FS_EmptySet
  <2>6. Idles(fwd, e) = {}
    <3>1. Cardinality(Idles(fwd, e)) = 0
      BY <1>0, <2>3 DEF ForwardFits, RefsFit
    <3> QED BY <2>2, <3>1, FS_EmptySet
  <2> QED BY <1>0, <1>2, <2>1, <2>5, <2>6 DEF ForwardFits, RefsFit
<1> QED BY <1>3, <1>4, <1>5, <1>6, <1>7 DEF ForwardFits, y

\* Removing the forward closes the channel.
LEMMA FwdRemove ==
  ASSUME ForwardInv, RemoveForward
  PROVE  ForwardFits(fwd')
<1>1. PICK e \in FwdEnds :
        LET x == IF fwd.task[e] = "run" THEN StopTask(fwd, e) ELSE fwd
        IN  fwd' = [FinishForward(x, e) EXCEPT !.listed = FALSE]
  BY DEF RemoveForward
<1> DEFINE x == IF fwd.task[e] = "run" THEN StopTask(fwd, e) ELSE fwd
           y == FinishForward(x, e)
<1>2. ForwardFits(x)
  BY FwdStop DEF ForwardInv
<1>3. fwd' = [y EXCEPT !.listed = FALSE]
  BY <1>1
<1> HIDE DEF x
<1>4. ForwardFits(y)
  BY <1>2, FwdFinish
<1> HIDE DEF y
<1> QED BY <1>3, <1>4, FwdFlags

\* ForwardFits names fkind, which no step changes.
LEMMA FwdPrime ==
  ASSUME ForwardFits(fwd'), fkind' = fkind, fkind \in ForwardTypes
  PROVE  ForwardInv'
BY DEF ForwardInv, ForwardFits, ForwardShape, ContextStages, MessagesFit, ToSlave, ToMaster, OpensOnce,
       MasterFirst, RefsFit, Undeleted, Idles, ReadyFit

\* Every step of the two tasks keeps the inductive invariant.
LEMMA FwdStep == ForwardInv /\ [ForwardNext]_fwdVars => ForwardInv'
<1> SUFFICES ASSUME ForwardInv, [ForwardNext]_fwdVars PROVE ForwardInv'
  OBVIOUS
<1>0. fkind \in ForwardTypes /\ ForwardFits(fwd)
  BY DEF ForwardInv
<1>1. CASE UNCHANGED fwdVars
  BY <1>0, <1>1, FwdPrime DEF fwdVars
<1>2. CASE BeginForward
  BY <1>0, <1>2, FwdBegin, FwdPrime DEF BeginForward
<1>3. CASE RemoveForward
  BY <1>0, <1>3, FwdRemove, FwdPrime DEF RemoveForward
<1>4. ASSUME NEW e \in FwdEnds, ForwardDispatch(e) PROVE ForwardInv'
  BY <1>0, <1>4, FwdDispatch, FwdPrime DEF ForwardDispatch
<1>5. ASSUME NEW e \in FwdEnds, ReleaseForward(e) PROVE ForwardInv'
  BY <1>0, <1>5, FwdRelease, FwdPrime DEF ReleaseForward
<1>6. ASSUME NEW i \in Conns, ListenCallback(i) PROVE ForwardInv'
  BY <1>0, <1>6, FwdListen, FwdPrime DEF ListenCallback
<1>7. ASSUME NEW i \in Conns, ConnectTarget(i) PROVE ForwardInv'
  BY <1>0, <1>7, FwdConnectTarget, FwdPrime DEF ConnectTarget
<1>8. ASSUME NEW i \in Conns, SetupJdwpPointCallBack(i) PROVE ForwardInv'
  BY <1>0, <1>8, FwdSetupJdwpPointCallBack, FwdPrime DEF SetupJdwpPointCallBack
<1>9. ASSUME NEW e \in FwdEnds, NEW i \in Conns, HandleClose(e, i) PROVE ForwardInv'
  BY <1>0, <1>9, FwdHandleClose, FwdPrime DEF HandleClose
<1>10. ASSUME NEW e \in FwdEnds, NEW i \in Conns, FreeContextCallBack(e, i) PROVE ForwardInv'
  BY <1>0, <1>10, FwdFreeContextCallBack, FwdPrime DEF FreeContextCallBack
<1>11. ASSUME NEW e \in FwdEnds, NEW i \in Conns, ReadForwardBuf(e, i) PROVE ForwardInv'
  BY <1>0, <1>11, FwdRead, FwdPrime DEF ReadForwardBuf
<1>12. ASSUME NEW e \in FwdEnds, NEW i \in Conns, SendCallbackForwardBuf(e, i) PROVE ForwardInv'
  BY <1>0, <1>12, FwdSendCallback, FwdPrime DEF SendCallbackForwardBuf
<1>13. ASSUME NEW i \in Conns, DeviceIo(i) PROVE ForwardInv'
  BY <1>0, <1>13, FwdDeviceIo, FwdPrime DEF DeviceIo
<1> QED BY <1>1, <1>2, <1>3, <1>4, <1>5, <1>6, <1>7, <1>8, <1>9, <1>10, <1>11, <1>12, <1>13 DEF ForwardNext

\* It holds before the forward command.
LEMMA FwdInit == ForwardInit => ForwardInv
<1> SUFFICES ASSUME ForwardInit PROVE ForwardInv
  OBVIOUS
<1> USE DEF ForwardInit
<1>1. ForwardShape(fwd)
  BY DEF ForwardShape, NoContext
<1>2. ContextStages(fwd) /\ ReadyFit(fwd) /\ MasterFirst(fwd)
  BY DEF ContextStages, ReadyFit, MasterFirst, NoContext, FwdEnds
<1>3. MessagesFit(fwd)
  BY DEF MessagesFit, OpensOnce, FwdEnds
<1>4. \A e \in FwdEnds : Undeleted(fwd, e) = {} /\ Idles(fwd, e) = {}
  BY DEF Undeleted, Idles, NoContext
<1>5. RefsFit(fwd)
  <2>1. \A e \in FwdEnds : fwd.refCount[e] = 0 /\ fwd.mapCtxPoint[e] = {}
    OBVIOUS
  <2>2. Cardinality({}) = 0
    BY FS_EmptySet
  <2> HIDE DEF ForwardInit
  <2> QED BY <1>4, <2>1, <2>2 DEF RefsFit
<1> QED BY <1>1, <1>2, <1>3, <1>5 DEF ForwardInv, ForwardFits

\* For any number of connections through a forward: each task's refCount counts
\* its contexts and the idles of its loop, mapCtxPoint never leads to a context that is
\* deleted, a task that is deleted has no context and no idle left, the I/O thread of
\* a device runs on a closed context only when FreeJDWP gave it up, and the master takes a
\* connection for ready only when the slave is connected to its target (a device,
\* whose open is reported before it is done, excepted).
THEOREM ForwardsSafe == ForwardSpec => []ForwardSafe
<1>1. ForwardInv => ForwardSafe
  BY DEF ForwardInv, ForwardFits, ContextStages, RefsFit, ReadyFit, ForwardSafe, ForwardRefs, ActiveMeansConnected
<1> QED BY <1>1, FwdInit, FwdStep, PTL DEF ForwardSpec

-----------------------------------------------------------------------------
(* Debuggable processes: queues, trackers and connections                  *)

\* The elements kept of a sequence: all of S, once and in their order.
LEMMA JdwpKeep ==
  ASSUME NEW S, IsFiniteSet(S), NEW q, NEW s \in Keep(q, S), Once(q)
  PROVE  /\ s \in Seq(S) /\ Once(s)
         /\ \A l : Contains(s, l) <=> l \in S
         /\ \A k \in S, l \in S : Ahead(q, k, l) => Ahead(s, k, l)
<1>1. Cardinality(S) \in Nat
  BY FS_CardinalityType
<1>2. /\ s \in [1 .. Cardinality(S) -> S] /\ ToSet(s) = S
      /\ \A i, j \in DOMAIN s : i < j => Ahead(q, s[i], s[j])
  BY DEF Keep
<1>3. s \in Seq(S) /\ Len(s) = Cardinality(S) /\ DOMAIN s = 1 .. Len(s)
  BY <1>1, <1>2
<1>4. \A k : ~Ahead(q, k, k)
  BY DEF Ahead, Once
<1>5. Once(s)
  <2> SUFFICES ASSUME NEW i \in 1 .. Len(s), NEW j \in 1 .. Len(s), s[i] = s[j], i # j PROVE FALSE
    BY DEF Once
  <2>1. CASE i < j
    BY <1>2, <1>3, <1>4, <2>1
  <2>2. CASE j < i
    BY <1>2, <1>3, <1>4, <2>2
  <2> QED BY <1>1, <1>3, <2>1, <2>2
<1>6. \A l : Contains(s, l) <=> l \in S
  BY <1>2, <1>3 DEF Contains, ToSet
<1>7. ASSUME NEW k \in S, NEW l \in S, Ahead(q, k, l) PROVE Ahead(s, k, l)
  <2>1. PICK i \in 1 .. Len(s) : s[i] = k
    BY <1>6 DEF Contains
  <2>2. PICK j \in 1 .. Len(s) : s[j] = l
    BY <1>6 DEF Contains
  <2>3. i # j
    BY <1>4, <1>7, <2>1, <2>2
  <2>4. ASSUME j < i PROVE FALSE
    <3>1. Ahead(q, l, k)
      BY <1>2, <1>3, <2>1, <2>2, <2>4
    <3>2. PICK a, b \in 1 .. Len(q) : a < b /\ q[a] = k /\ q[b] = l
      BY <1>7 DEF Ahead
    <3>3. PICK c, d \in 1 .. Len(q) : c < d /\ q[c] = l /\ q[d] = k
      BY <3>1 DEF Ahead
    <3>4. a = d /\ b = c
      BY <3>2, <3>3 DEF Once
    <3> QED BY <3>2, <3>3, <3>4
  <2> QED BY <1>1, <1>3, <2>1, <2>2, <2>3, <2>4 DEF Ahead
<1> QED BY <1>3, <1>5, <1>6, <1>7

\* A queue without its first element.
LEMMA JdwpTail ==
  ASSUME NEW T, NEW q \in Seq(T), q # <<>>, Once(q)
  PROVE  /\ Tail(q) \in Seq(T) /\ Once(Tail(q)) /\ Head(q) \in T /\ Contains(q, Head(q))
         /\ \A l : Contains(Tail(q), l) <=> Contains(q, l) /\ l # Head(q)
         /\ \A k, l : Ahead(q, k, l) => l # Head(q) /\ (k # Head(q) => Ahead(Tail(q), k, l))
<1>1. /\ Tail(q) \in Seq(T) /\ Len(Tail(q)) = Len(q) - 1 /\ Head(q) = q[1] /\ Len(q) \in Nat /\ Len(q) > 0
      /\ \A i \in 1 .. Len(Tail(q)) : Tail(q)[i] = q[i + 1]
  OBVIOUS
<1>2. Once(Tail(q))
  BY <1>1 DEF Once
<1>3. ASSUME NEW l PROVE Contains(Tail(q), l) <=> Contains(q, l) /\ l # Head(q)
  <2>1. ASSUME Contains(Tail(q), l) PROVE Contains(q, l) /\ l # Head(q)
    BY <1>1, <2>1 DEF Contains, Once
  <2>2. ASSUME Contains(q, l), l # Head(q) PROVE Contains(Tail(q), l)
    <3>1. PICK i \in 1 .. Len(q) : q[i] = l
      BY <2>2 DEF Contains
    <3>2. i - 1 \in 1 .. Len(Tail(q)) /\ Tail(q)[i - 1] = l
      BY <1>1, <2>2, <3>1
    <3> QED BY <3>2 DEF Contains
  <2> QED BY <2>1, <2>2
<1>4. ASSUME NEW k, NEW l, Ahead(q, k, l) PROVE l # Head(q) /\ (k # Head(q) => Ahead(Tail(q), k, l))
  <2>1. PICK i, j \in 1 .. Len(q) : i < j /\ q[i] = k /\ q[j] = l
    BY <1>4 DEF Ahead
  <2>2. l # Head(q)
    BY <1>1, <2>1 DEF Once
  <2>3. ASSUME k # Head(q) PROVE Ahead(Tail(q), k, l)
    <3>1. /\ i - 1 \in 1 .. Len(Tail(q)) /\ j - 1 \in 1 .. Len(Tail(q)) /\ i - 1 < j - 1
          /\ Tail(q)[i - 1] = k /\ Tail(q)[j - 1] = l
      BY <1>1, <2>1, <2>3
    <3> QED BY <3>1 DEF Ahead
  <2> QED BY <2>2, <2>3
<1> QED BY <1>1, <1>2, <1>3, <1>4 DEF Contains

\* A queue with others behind it, of which it has none.
LEMMA JdwpJoin ==
  ASSUME NEW T, NEW q \in Seq(T), NEW s \in Seq(T), Once(q), Once(s),
         \A l : ~(Contains(q, l) /\ Contains(s, l))
  PROVE  /\ q \o s \in Seq(T) /\ Once(q \o s)
         /\ \A l : Contains(q \o s, l) <=> Contains(q, l) \/ Contains(s, l)
         /\ \A k, l : Ahead(q, k, l) \/ Ahead(s, k, l) \/ (Contains(q, k) /\ Contains(s, l)) => Ahead(q \o s, k, l)
<1> DEFINE r == q \o s
<1>1. /\ r \in Seq(T) /\ Len(r) = Len(q) + Len(s) /\ Len(q) \in Nat /\ Len(s) \in Nat
      /\ \A i \in 1 .. Len(q) : r[i] = q[i]
      /\ \A i \in 1 .. Len(s) : r[Len(q) + i] = s[i]
  OBVIOUS
<1>2. \A i \in 1 .. Len(q) : i \in 1 .. Len(r)
  BY <1>1
<1>3. \A i \in 1 .. Len(s) : Len(q) + i \in 1 .. Len(r)
  BY <1>1
<1>4. \A i \in 1 .. Len(r) : i \in 1 .. Len(q) \/ (i > Len(q) /\ i - Len(q) \in 1 .. Len(s) /\ r[i] = s[i - Len(q)])
  BY <1>1
<1> HIDE DEF r
<1>5. \A l : Contains(r, l) <=> Contains(q, l) \/ Contains(s, l)
  BY <1>1, <1>2, <1>3, <1>4 DEF Contains
<1>6. Once(r)
  <2> SUFFICES ASSUME NEW i \in 1 .. Len(r), NEW j \in 1 .. Len(r), r[i] = r[j] PROVE i = j
    BY DEF Once
  <2>1. CASE i \in 1 .. Len(q) /\ j \in 1 .. Len(q)
    BY <1>1, <2>1 DEF Once
  <2>2. CASE i \notin 1 .. Len(q) /\ j \notin 1 .. Len(q)
    BY <1>1, <1>4, <2>2 DEF Once
  <2>3. CASE i \in 1 .. Len(q) /\ j \notin 1 .. Len(q)
    BY <1>1, <1>4, <2>3 DEF Contains
  <2>4. CASE i \notin 1 .. Len(q) /\ j \in 1 .. Len(q)
    <3>1. r[j] = q[j] /\ r[i] = s[i - Len(q)] /\ i - Len(q) \in 1 .. Len(s)
      BY <1>1, <1>4, <2>4
    <3> QED BY <2>4, <3>1 DEF Contains
  <2> QED BY <2>1, <2>2, <2>3, <2>4
<1>7. \A k, l : Ahead(q, k, l) => Ahead(r, k, l)
  BY <1>1, <1>2 DEF Ahead
<1>8. ASSUME NEW k, NEW l, Ahead(s, k, l) PROVE Ahead(r, k, l)
  <2>1. PICK i, j \in 1 .. Len(s) : i < j /\ s[i] = k /\ s[j] = l
    BY <1>8 DEF Ahead
  <2>2. Len(q) + i < Len(q) + j /\ r[Len(q) + i] = k /\ r[Len(q) + j] = l
    BY <1>1, <2>1
  <2> QED BY <1>3, <2>2 DEF Ahead
<1>9. ASSUME NEW k, NEW l, Contains(q, k), Contains(s, l) PROVE Ahead(r, k, l)
  <2>1. PICK i \in 1 .. Len(q) : q[i] = k
    BY <1>9 DEF Contains
  <2>2. PICK j \in 1 .. Len(s) : s[j] = l
    BY <1>9 DEF Contains
  <2>3. i < Len(q) + j /\ r[i] = k /\ r[Len(q) + j] = l
    BY <1>1, <2>1, <2>2
  <2> QED BY <1>2, <1>3, <2>3 DEF Ahead
<1>10. QED
  BY <1>1, <1>5, <1>6, <1>7, <1>8, <1>9 DEF r

\* A queue with one more.
LEMMA JdwpAppend ==
  ASSUME NEW T, NEW q \in Seq(T), NEW x \in T, Once(q), ~Contains(q, x)
  PROVE  /\ Append(q, x) \in Seq(T) /\ Once(Append(q, x))
         /\ \A l : Contains(Append(q, x), l) <=> Contains(q, l) \/ l = x
         /\ \A k, l : Ahead(q, k, l) => Ahead(Append(q, x), k, l)
         /\ \A k : Contains(q, k) => Ahead(Append(q, x), k, x)
<1> DEFINE s == <<x>>
<1>1. s \in Seq(T) /\ Append(q, x) = q \o s /\ Len(s) = 1 /\ s[1] = x
  OBVIOUS
<1>2. Once(s) /\ \A l : Contains(s, l) <=> l = x
  BY <1>1 DEF Once, Contains
<1>3. \A l : ~(Contains(q, l) /\ Contains(s, l))
  BY <1>2
<1> HIDE DEF s
<1>4. /\ q \o s \in Seq(T) /\ Once(q \o s)
      /\ \A l : Contains(q \o s, l) <=> Contains(q, l) \/ Contains(s, l)
      /\ \A k, l : Ahead(q, k, l) \/ Ahead(s, k, l) \/ (Contains(q, k) /\ Contains(s, l)) => Ahead(q \o s, k, l)
  BY <1>1, <1>2, <1>3, JdwpJoin
<1> QED BY <1>1, <1>2, <1>4
-----------------------------------------------------------------------------
(* The shape of the state, and the trackers                                *)

\* What is kept of a queue of pipes is such a queue.
LEMMA JdwpKept ==
  ASSUME NEW q \in Seq(Links \cup {0}), NEW S \in SUBSET ToSet(q)
  PROVE  /\ IsFiniteSet(S) /\ S \subseteq Links \cup {0}
         /\ \A s \in Keep(q, S) : s \in Seq(S) /\ s \in Seq(Links \cup {0})
<1>1. S \subseteq Links \cup {0}
  BY DEF ToSet
<1>2. Links \cup {0} = 0 .. MaxLinks
  BY JdwpBounds DEF Links
<1>3. IsFiniteSet(S)
  <2>1. IsFiniteSet(0 .. MaxLinks)
    BY FS_Interval, JdwpBounds
  <2> QED BY <1>1, <1>2, <2>1, FS_Subset
<1>4. Cardinality(S) \in Nat
  BY <1>3, FS_CardinalityType
<1>5. ASSUME NEW s \in Keep(q, S) PROVE s \in Seq(S) /\ s \in Seq(Links \cup {0})
  <2>1. s \in [1 .. Cardinality(S) -> S]
    BY DEF Keep
  <2>2. s \in [1 .. Cardinality(S) -> Links \cup {0}]
    BY <1>1, <2>1
  <2> QED BY <1>4, <2>1, <2>2
<1> QED BY <1>1, <1>3, <1>5

\* ProcessListUpdated sends the list as it is to every tracker up to the first stopped
\* one, and marks those behind it.
LEMMA JdwpTold ==
  ASSUME JdwpShape, jtrack' = ProcessListUpdated(jd'.mapCtxJdwp), \A p \in Pids : japp'[p].pkg = japp[p].pkg
  PROVE  /\ TrackersCurrent'
         /\ DOMAIN jtrack' = Trackers /\ \A t \in Trackers : DOMAIN jtrack'[t] = DOMAIN NoTracker
<1> DEFINE m == jd'.mapCtxJdwp
           List(dr) == GetProcessList(m, dr)
<1>1. \A dr : List(dr) = {p \in Pids : m[p] # 0 /\ (dr = 1 => japp'[p].pkg = "debug")}
  BY DEF GetProcessList
<1>2. ASSUME NEW t \in Trackers
      PROVE  /\ DOMAIN jtrack'[t] = DOMAIN NoTracker
             /\ jtrack'[t].st = "tracks" /\ ~jtrack'[t].missed =>
                  \/ Cardinality(List(jtrack'[t].dr)) > MaxList
                  \/ jtrack'[t].last = List(jtrack'[t].dr)
  <2>1. DOMAIN jtrack[t] = {"st", "dr", "last", "ahead", "missed"}
    BY DEF JdwpShape, NoTracker
  <2>2. CASE t \in FirstStopped
    <3>1. jtrack'[t] = [jtrack[t] EXCEPT !.st = "removed", !.ahead = {}]
      BY <2>2 DEF ProcessListUpdated
    <3> QED BY <2>1, <3>1 DEF NoTracker
  <2>3. CASE t \notin FirstStopped /\ jtrack[t].ahead \cap FirstStopped # {}
    <3>1. jtrack'[t] = [NotBehind(jtrack[t], FirstStopped) EXCEPT !.missed = TRUE]
      BY <2>3 DEF ProcessListUpdated
    <3> QED BY <2>1, <3>1 DEF NotBehind, NoTracker
  <2>4. CASE t \notin FirstStopped /\ jtrack[t].ahead \cap FirstStopped = {} /\ jtrack[t].st = "tracks"
    <3> DEFINE r == [jtrack[t] EXCEPT !.missed = FALSE]
    <3>1. jtrack'[t] = JdwpProcessListMsg(r, m)
      BY <2>4 DEF ProcessListUpdated
    <3>2. DOMAIN r = {"st", "dr", "last", "ahead", "missed"} /\ r.dr = jtrack[t].dr
      BY <2>1
    <3> HIDE DEF r
    <3> QED BY <3>1, <3>2 DEF JdwpProcessListMsg, NoTracker
  <2>5. CASE t \notin FirstStopped /\ jtrack[t].ahead \cap FirstStopped = {} /\ jtrack[t].st # "tracks"
    <3>1. jtrack'[t] = jtrack[t]
      BY <2>5 DEF ProcessListUpdated
    <3> QED BY <2>1, <2>5, <3>1 DEF NoTracker
  <2> QED BY <2>2, <2>3, <2>4, <2>5
<1>3. DOMAIN jtrack' = Trackers
  BY DEF ProcessListUpdated
<1> HIDE DEF List
<1>4. TrackersCurrent'
  <2> SUFFICES ASSUME NEW t \in Trackers, jtrack'[t].st = "tracks", ~jtrack'[t].missed
               PROVE  LET list == {p \in Pids : jd'.mapCtxJdwp[p] # 0 /\ (jtrack'[t].dr = 1 => japp'[p].pkg = "debug")}
                      IN  Cardinality(list) > MaxList \/ jtrack'[t].last = list
    BY DEF TrackersCurrent, GetProcessList
  <2>1. List(jtrack'[t].dr) = {p \in Pids : m[p] # 0 /\ (jtrack'[t].dr = 1 => japp'[p].pkg = "debug")}
    BY <1>1
  <2> QED BY <1>2, <2>1
<1> QED BY <1>2, <1>3, <1>4

\* The trackers that know the list still know it.
LEMMA JdwpStillTold ==
  ASSUME JdwpShape, TrackersCurrent, jtrack' = jtrack, jd'.mapCtxJdwp = jd.mapCtxJdwp,
         \A p \in Pids : japp'[p].pkg = japp[p].pkg
  PROVE  TrackersCurrent'
<1>1. \A dr : GetProcessList(jd.mapCtxJdwp, dr)' = GetProcessList(jd.mapCtxJdwp, dr)
  BY DEF GetProcessList
<1> QED BY <1>1 DEF TrackersCurrent, GetProcessList
-----------------------------------------------------------------------------
(* Pieces of steps                                                         *)

\* 0, the pipe that listens, is no connection.
LEMMA JdwpLinks == 0 \notin Links /\ \A l \in Links : l # 0
BY JdwpBounds DEF Links

\* What a connection is before it is made and after both ends are closed.
LEMMA JdwpNoLink ==
  /\ NoLink.app = "none" /\ NoLink.ctx = "none" /\ NoLink.pid = "none"
  /\ NoLink.msg = FALSE /\ NoLink.known = FALSE /\ NoLink.finish = FALSE /\ NoLink.fd = FALSE
BY DEF NoLink

\* Readable puts a pipe behind what is ready, unless it is there.
LEMMA JdwpReadable ==
  ASSUME NEW d, "ready" \in DOMAIN d, d.ready \in Seq(Links \cup {0}), NEW x \in Links \cup {0}
  PROVE  LET e == Readable(d, x)
         IN  /\ DOMAIN e = DOMAIN d /\ \A f \in DOMAIN d \ {"ready"} : e[f] = d[f]
             /\ e.ready \in Seq(Links \cup {0})
             /\ Once(d.ready) =>
                  /\ Once(e.ready)
                  /\ \A k : Contains(e.ready, k) <=> Contains(d.ready, k) \/ k = x
                  /\ \A k, l : Ahead(d.ready, k, l) => Ahead(e.ready, k, l)
                  /\ \A k : Contains(d.ready, k) /\ ~Contains(d.ready, x) => Ahead(e.ready, k, x)
<1> DEFINE e == Readable(d, x)
<1>1. CASE Contains(d.ready, x)
  BY <1>1 DEF Readable
<1>2. CASE ~Contains(d.ready, x)
  <2>1. e = [d EXCEPT !.ready = Append(d.ready, x)]
    BY <1>2 DEF Readable
  <2>2. /\ DOMAIN e = DOMAIN d /\ \A f \in DOMAIN d \ {"ready"} : e[f] = d[f]
        /\ e.ready = Append(d.ready, x)
    BY <2>1
  <2>3. e.ready \in Seq(Links \cup {0})
    BY <2>2
  <2> HIDE DEF e
  <2>4. CASE Once(d.ready)
    BY <1>2, <2>2, <2>3, <2>4, JdwpAppend DEF e
  <2> QED BY <2>2, <2>3, <2>4 DEF e
<1> QED BY <1>1, <1>2

\* A step that changes no queue, no entry and nothing of a connection but fd.
LEMMA JdwpQuiet ==
  ASSUME JdwpInv, JdwpShape', AppsFit', TrackersCurrent',
         jd'.ready = jd.ready, jd'.backlog = jd.backlog, jd'.mapCtxJdwp = jd.mapCtxJdwp,
         jd'.turnedAway = jd.turnedAway, jd'.pc # "stopping" => jd.pc # "stopping",
         \A l \in Links : /\ jlink'[l].app = jlink[l].app /\ jlink'[l].pid = jlink[l].pid
                          /\ jlink'[l].msg = jlink[l].msg /\ jlink'[l].ctx = jlink[l].ctx
                          /\ jlink'[l].known = jlink[l].known /\ jlink'[l].finish = jlink[l].finish
                          /\ jlink[l].app = "open" /\ japp'[jlink[l].pid].pc = "send" => japp[jlink[l].pid].pc = "send"
  PROVE  JdwpInv'
<1> SUFFICES ASSUME jd'.pc # "stopping" PROVE Serving'
  BY DEF JdwpInv
<1>1. Serving
  BY DEF JdwpInv
<1>2. QueuesFit'
  BY <1>1 DEF Serving, QueuesFit, QueueFits
<1>3. OldestFirst'
  BY <1>1 DEF Serving, OldestFirst, Unread, Before
<1>4. ListFits'
  BY <1>1 DEF Serving, ListFits
<1> QED BY <1>2, <1>3, <1>4 DEF Serving

\* An application whose descriptor is closed or was none, at whatever point.
LEMMA JdwpCloseCfd ==
  ASSUME JdwpInv, NEW p \in Pids, CloseCfd(p), NEW r, japp' = [japp EXCEPT ![p] = r], UNCHANGED jtrack,
         DOMAIN r = DOMAIN NoApp(0, 0), r.pkg = japp[p].pkg, r.link = 0,
         r.pc \notin {"send", "read"} \/ r.disconnectFlag
  PROVE  JdwpInv'
<1> DEFINE l == japp[p].link
           gone == l # 0 /\ jlink[l].ctx = "deleted"
<1>0. JdwpShape /\ AppsFit /\ TrackersCurrent
  BY DEF JdwpInv
<1>1. /\ DOMAIN japp' = Pids /\ japp'[p] = r /\ \A q \in Pids \ {p} : japp'[q] = japp[q]
      /\ \A q \in Pids : japp'[q].pkg = japp[q].pkg
  BY <1>0 DEF JdwpShape
<1>2. CASE l = 0
  <2>1. jlink' = jlink /\ jd' = jd
    BY <1>2 DEF CloseCfd
  <2>2. JdwpShape'
    BY <1>0, <1>1, <2>1 DEF JdwpShape, NoApp
  <2>3. \A k \in Links : jlink[k].app = "open" => jlink[k].pid # p
    BY <1>0, <1>2, JdwpLinks DEF AppsFit, AppFits, LinkFits
  <2>4. AppsFit'
    BY <1>0, <1>1, <2>1, <2>3 DEF AppsFit, AppFits, LinkFits
  <2>5. TrackersCurrent'
    BY <1>0, <1>1, <2>1, JdwpStillTold
  <2>6. \A k \in Links : jlink[k].app = "open" => jlink[k].pid \in Pids
    BY <1>0 DEF AppsFit, AppFits, LinkFits
  <2> QED BY <1>1, <2>1, <2>2, <2>3, <2>4, <2>5, <2>6, JdwpQuiet
<1>3. CASE l # 0
  <2>1. /\ l \in Links /\ jlink[l].pid = p /\ jlink[l].app = "open"
        /\ \A k \in Links \ {l} : jlink[k].app = "open" => jlink[k].pid # p
    BY <1>0, <1>3 DEF AppsFit, AppFits, LinkFits
  <2>2. /\ DOMAIN jlink' = Links /\ \A k \in Links \ {l} : jlink'[k] = jlink[k]
        /\ gone => jlink'[l] = NoLink
        /\ ~gone => /\ DOMAIN jlink'[l] = DOMAIN NoLink /\ jlink'[l].app = "closed" /\ jlink'[l].pid = p
                    /\ jlink'[l].msg = jlink[l].msg /\ jlink'[l].ctx = jlink[l].ctx
                    /\ jlink'[l].known = jlink[l].known /\ jlink'[l].finish = jlink[l].finish
    BY <1>0, <1>3, <2>1 DEF CloseCfd, JdwpShape, NoLink
  <2>3. jd' = IF gone \/ jlink[l].ctx # "open" THEN jd ELSE Readable(jd, l)
    BY <1>3 DEF CloseCfd
  <2>4. /\ DOMAIN jd' = DOMAIN jd /\ \A f \in DOMAIN jd \ {"ready"} : jd'[f] = jd[f]
        /\ jd'.ready \in Seq(Links \cup {0})
    BY <1>0, <2>1, <2>3, JdwpReadable DEF JdwpShape
  <2>5. jd'.pc = jd.pc /\ jd'.backlog = jd.backlog /\ jd'.mapCtxJdwp = jd.mapCtxJdwp /\ jd'.turnedAway = jd.turnedAway
    BY <1>0, <2>4 DEF JdwpShape
  <2>6. JdwpShape'
    <3>1. \A q \in Pids : DOMAIN japp'[q] = DOMAIN NoApp(0, 0)
      BY <1>0, <1>1 DEF JdwpShape
    <3> HIDE DEF gone
    <3> QED BY <1>0, <1>1, <2>2, <2>4, <2>5, <3>1 DEF JdwpShape
  <2>7. AppsFit'
    <3>1. ASSUME NEW q \in Pids
          PROVE  AppFits(q)'
      BY <1>0, <1>1, <2>1, <2>2 DEF AppsFit, AppFits, LinkFits
    <3>2. ASSUME NEW k \in Links
          PROVE  LinkFits(k)'
      <4>1. CASE k # l
        BY <1>0, <1>1, <2>1, <2>2, <4>1 DEF AppsFit, AppFits, LinkFits
      <4>2. CASE k = l /\ gone
        <5>1. jlink'[k] = NoLink
          BY <2>2, <4>2
        <5> QED BY <5>1, JdwpNoLink DEF LinkFits
      <4>3. CASE k = l /\ ~gone
        BY <1>0, <1>3, <2>1, <2>2, <4>3 DEF AppsFit, AppFits, LinkFits
      <4> QED BY <4>1, <4>2, <4>3
    <3> QED BY <3>1, <3>2 DEF AppsFit
  <2>8. TrackersCurrent'
    BY <1>0, <1>1, <2>5, JdwpStillTold
  <2>9. ASSUME jd.pc # "stopping" PROVE Serving'
    <3>0. QueuesFit /\ OldestFirst /\ ListFits
      BY <2>9 DEF JdwpInv, Serving
    <3>1. Once(jd.ready) /\ (gone => ~Contains(jd.ready, l))
      BY <2>1, <3>0 DEF QueuesFit, QueueFits
    <3>2. /\ Once(jd'.ready)
          /\ \A k : Contains(jd'.ready, k) <=> Contains(jd.ready, k) \/ (k = l /\ jlink[l].ctx = "open")
          /\ \A k, m : Ahead(jd.ready, k, m) => Ahead(jd'.ready, k, m)
          /\ \A k, m : Contains(jd.ready, k) /\ ~Contains(jd.ready, m) =>
                        Ahead(jd'.ready, k, m) \/ ~Contains(jd'.ready, m)
      <4>1. "ready" \in DOMAIN jd /\ jd.ready \in Seq(Links \cup {0})
        BY <1>0 DEF JdwpShape
      <4>2. CASE jlink[l].ctx # "open"
        <5>1. jd' = jd
          BY <2>3, <4>2
        <5> QED BY <3>1, <4>2, <5>1
      <4>3. CASE jlink[l].ctx = "open"
        <5>1. jd' = Readable(jd, l) /\ l \in Links \cup {0}
          BY <2>1, <2>3, <4>3
        <5>2. /\ Once(jd'.ready)
              /\ \A k : Contains(jd'.ready, k) <=> Contains(jd.ready, k) \/ k = l
              /\ \A k, m : Ahead(jd.ready, k, m) => Ahead(jd'.ready, k, m)
              /\ \A k : Contains(jd.ready, k) /\ ~Contains(jd.ready, l) => Ahead(jd'.ready, k, l)
          <6> HIDE DEF l, gone
          <6> QED BY <3>1, <4>1, <5>1, JdwpReadable
        <5> QED BY <4>3, <5>2
      <4> QED BY <4>2, <4>3
    <3>3. QueuesFit'
      <4>1. \A k \in Links \ {l} : jlink[k].app = "open" => japp'[jlink[k].pid] = japp[jlink[k].pid]
        BY <1>0, <1>1, <2>1 DEF AppsFit, AppFits, LinkFits
      <4>2. ASSUME NEW k \in Links, k # l
            PROVE QueueFits(k)'
        BY <2>2, <2>5, <3>0, <3>2, <4>1, <4>2 DEF QueuesFit, QueueFits
      <4>3. CASE gone
        BY <2>1, <2>2, <2>5, <3>0, <3>1, <3>2, <4>2, <4>3 DEF QueuesFit, QueueFits, NoLink
      <4>4. CASE ~gone
        BY <1>3, <2>1, <2>2, <2>5, <3>0, <3>2, <4>2, <4>4 DEF QueuesFit, QueueFits
      <4> QED BY <4>3, <4>4
    <3>4. OldestFirst'
      <4> SUFFICES ASSUME NEW k \in Links, NEW m \in Links, k # m, jlink'[k].pid = jlink'[m].pid, Unread(k)', Unread(m)'
                   PROVE  Before(k, m)' \/ Before(m, k)'
        BY DEF OldestFirst
      <4>1. /\ Unread(k) /\ Unread(m) /\ jlink[k].pid = jlink[m].pid
            /\ jlink'[k].known = jlink[k].known /\ jlink'[m].known = jlink[m].known
            /\ jlink[k].app = "closed" => jlink'[k].app = "closed"
            /\ jlink[m].app = "closed" => jlink'[m].app = "closed"
        BY <2>1, <2>2 DEF Unread, NoLink
      <4>2. Before(k, m) \/ Before(m, k)
        BY <3>0, <4>1 DEF OldestFirst
      <4> QED BY <2>5, <3>2, <4>1, <4>2 DEF Before
    <3>5. ListFits'
      <4>1. CASE gone
        BY <2>1, <2>2, <2>5, <3>0, <4>1 DEF ListFits, NoLink
      <4>2. CASE ~gone
        BY <2>1, <2>2, <2>5, <3>0, <4>2 DEF ListFits
      <4> QED BY <4>1, <4>2
    <3> QED BY <3>3, <3>4, <3>5 DEF Serving
  <2> QED BY <2>5, <2>6, <2>7, <2>8, <2>9 DEF JdwpInv
<1> QED BY <1>2, <1>3
\* A step of one application that leaves its descriptor alone.
LEMMA JdwpAppMoves ==
  ASSUME JdwpInv, NEW p \in Pids, NEW r, japp' = [japp EXCEPT ![p] = r], UNCHANGED <<jd, jlink, jtrack>>,
         DOMAIN r = DOMAIN NoApp(0, 0), r.pkg = japp[p].pkg, r.link = japp[p].link,
         \/ r.pc = japp[p].pc /\ r.disconnectFlag = japp[p].disconnectFlag
         \/ japp[p].link = 0 /\ (r.pc \notin {"send", "read"} \/ r.disconnectFlag)
  PROVE  JdwpInv'
<1>0. JdwpShape /\ AppsFit /\ TrackersCurrent
  BY DEF JdwpInv
<1>1. /\ DOMAIN japp' = Pids /\ japp'[p] = r /\ \A q \in Pids \ {p} : japp'[q] = japp[q]
      /\ \A q \in Pids : japp'[q].pkg = japp[q].pkg /\ japp'[q].link = japp[q].link
  BY <1>0 DEF JdwpShape
<1>2. JdwpShape'
  BY <1>0, <1>1 DEF JdwpShape, NoApp
<1>3. AppsFit'
  BY <1>0, <1>1 DEF AppsFit, AppFits, LinkFits
<1>4. TrackersCurrent'
  BY <1>0, <1>1, JdwpStillTold
<1>5. ASSUME NEW k \in Links, jlink[k].app = "open", japp'[jlink[k].pid].pc = "send"
      PROVE  japp[jlink[k].pid].pc = "send"
  <2>1. japp[jlink[k].pid].link # 0 /\ jlink[k].pid \in Pids
    BY <1>0, <1>5, JdwpLinks DEF AppsFit, LinkFits
  <2> QED BY <1>0, <1>1, <1>5, <2>1
<1> QED BY <1>2, <1>3, <1>4, <1>5, JdwpQuiet
-----------------------------------------------------------------------------
(* One lemma per action: the application                                   *)

\* StartConnect begins without a descriptor.
LEMMA JdwpStartConnect ==
  ASSUME JdwpInv, NEW p \in Pids, StartConnect(p)
  PROVE  JdwpInv'
<1> DEFINE r == [NoApp(japp[p].pkg, japp[p].starts - 1) EXCEPT !.pc = "connect"]
<1>1. /\ DOMAIN r = DOMAIN NoApp(0, 0) /\ r.pkg = japp[p].pkg /\ r.link = 0 /\ r.pc = "connect"
      /\ japp' = [japp EXCEPT ![p] = r] /\ UNCHANGED <<jd, jlink, jtrack>>
  BY DEF NoApp, StartConnect, SetApp
<1>2. japp[p].link = 0
  BY DEF JdwpInv, AppsFit, AppFits, StartConnect
<1> HIDE DEF r
<1> QED BY <1>1, <1>2, JdwpAppMoves

\* Waiting for the daemon's parameter, being told of it and returning from Connect
\* leave the descriptor alone.
LEMMA JdwpWaits ==
  ASSUME JdwpInv, NEW p \in Pids, WaitForJdwp(p) \/ ParameterChanged(p) \/ ConnectReturns(p)
  PROVE  JdwpInv'
<1>0. DOMAIN japp[p] = DOMAIN NoApp(0, 0) /\ AppFits(p)
  BY DEF JdwpInv, JdwpShape, AppsFit
<1>1. CASE WaitForJdwp(p)
  <2>1. PICK r : /\ japp' = [japp EXCEPT ![p] = r] /\ UNCHANGED <<jd, jlink, jtrack>>
                 /\ DOMAIN r = DOMAIN NoApp(0, 0) /\ r.pkg = japp[p].pkg /\ r.link = japp[p].link
                 /\ r.pc \in {"checked", "wait", "woken", "connect"} /\ japp[p].pc \in {"refused", "checked", "wait", "woken"}
    BY <1>0, <1>1 DEF WaitForJdwp, SetApp, NoApp
  <2>2. japp[p].link = 0
    BY <1>0, <2>1 DEF AppFits
  <2> QED BY <2>1, <2>2, JdwpAppMoves
<1>2. CASE ParameterChanged(p)
  <2> DEFINE r == [japp[p] EXCEPT !.note = FALSE, !.notified = TRUE]
  <2>1. /\ japp' = [japp EXCEPT ![p] = r] /\ UNCHANGED <<jd, jlink, jtrack>>
        /\ DOMAIN r = DOMAIN NoApp(0, 0) /\ r.pkg = japp[p].pkg /\ r.link = japp[p].link
        /\ r.pc = japp[p].pc /\ r.disconnectFlag = japp[p].disconnectFlag
    BY <1>0, <1>2 DEF ParameterChanged, SetApp, NoApp
  <2> HIDE DEF r
  <2> QED BY <2>1, JdwpAppMoves
<1>3. CASE ConnectReturns(p)
  <2> DEFINE r == [japp[p] EXCEPT !.pc = "ended", !.note = FALSE]
  <2>1. /\ japp' = [japp EXCEPT ![p] = r] /\ UNCHANGED <<jd, jlink, jtrack>>
        /\ DOMAIN r = DOMAIN NoApp(0, 0) /\ r.pkg = japp[p].pkg /\ r.link = japp[p].link /\ r.pc = "ended"
    BY <1>0, <1>3 DEF ConnectReturns, SetApp, NoApp
  <2>2. japp[p].link = 0
    BY <1>0, <1>3 DEF AppFits, ConnectReturns
  <2> HIDE DEF r
  <2> QED BY <2>1, <2>2, JdwpAppMoves
<1> QED BY <1>1, <1>2, <1>3

\* StopConnect and the end of the process close the descriptor.
LEMMA JdwpEnds ==
  ASSUME JdwpInv, NEW p \in Pids, Disconnect(p) \/ AppDies(p)
  PROVE  JdwpInv'
<1>0. DOMAIN japp[p] = DOMAIN NoApp(0, 0)
  BY DEF JdwpInv, JdwpShape
<1>1. CASE Disconnect(p)
  <2> DEFINE r == [japp[p] EXCEPT !.disconnectFlag = TRUE, !.link = 0, !.note = FALSE,
                                 !.pc = IF @ = "wait" THEN "woken" ELSE @]
  <2>1. /\ japp' = [japp EXCEPT ![p] = r] /\ CloseCfd(p) /\ UNCHANGED jtrack
        /\ DOMAIN r = DOMAIN NoApp(0, 0) /\ r.pkg = japp[p].pkg /\ r.link = 0 /\ r.disconnectFlag
    BY <1>0, <1>1 DEF Disconnect, SetApp, NoApp
  <2> HIDE DEF r
  <2> QED BY <2>1, JdwpCloseCfd
<1>2. CASE AppDies(p)
  <2> DEFINE r == NoApp(japp[p].pkg, japp[p].starts)
  <2>1. /\ japp' = [japp EXCEPT ![p] = r] /\ CloseCfd(p) /\ UNCHANGED jtrack
        /\ DOMAIN r = DOMAIN NoApp(0, 0) /\ r.pkg = japp[p].pkg /\ r.link = 0 /\ r.pc = "off"
    BY <1>2 DEF AppDies, SetApp, NoApp
  <2> HIDE DEF r
  <2> QED BY <2>1, JdwpCloseCfd
<1> QED BY <1>1, <1>2

\* The application's end is closed after a failed write or read.
LEMMA JdwpReconnects ==
  ASSUME JdwpInv, NEW p \in Pids, CloseCfd(p), SetApp(p, [japp[p] EXCEPT !.pc = "connect", !.link = 0]), UNCHANGED jtrack
  PROVE  JdwpInv'
<1> DEFINE r == [japp[p] EXCEPT !.pc = "connect", !.link = 0]
<1>1. /\ japp' = [japp EXCEPT ![p] = r]
      /\ DOMAIN r = DOMAIN NoApp(0, 0) /\ r.pkg = japp[p].pkg /\ r.link = 0 /\ r.pc = "connect"
  BY DEF SetApp, NoApp, JdwpInv, JdwpShape
<1> HIDE DEF r
<1> QED BY <1>1, JdwpCloseCfd

\* ReadFromJdwp takes a descriptor that was passed, or closes its end and connects again.
LEMMA JdwpReads ==
  ASSUME JdwpInv, NEW p \in Pids, ReadFromJdwp(p)
  PROVE  JdwpInv'
<1> DEFINE l == japp[p].link
<1>1. CASE jlink' = [jlink EXCEPT ![l].fd = FALSE] /\ UNCHANGED <<jd, japp, jtrack>>
  <2>0. JdwpShape /\ AppsFit /\ TrackersCurrent
    BY DEF JdwpInv
  <2>1. l \in Links /\ jlink[l].app = "open"
    BY <2>0 DEF ReadFromJdwp, AppsFit, AppFits
  <2>2. /\ DOMAIN jlink' = Links
        /\ \A k \in Links : /\ DOMAIN jlink'[k] = DOMAIN NoLink
                            /\ jlink'[k].app = jlink[k].app /\ jlink'[k].pid = jlink[k].pid
                            /\ jlink'[k].msg = jlink[k].msg /\ jlink'[k].ctx = jlink[k].ctx
                            /\ jlink'[k].known = jlink[k].known /\ jlink'[k].finish = jlink[k].finish
                            /\ jlink[k].app = "none" => jlink'[k] = jlink[k]
    BY <1>1, <2>0, <2>1 DEF JdwpShape, NoLink
  <2>3. JdwpShape'
    BY <1>1, <2>0, <2>2 DEF JdwpShape, NoApp
  <2>4. AppsFit'
    BY <1>1, <2>0, <2>2 DEF AppsFit, AppFits, LinkFits
  <2>5. TrackersCurrent'
    BY <1>1, <2>0, JdwpStillTold
  <2> QED BY <1>1, <2>2, <2>3, <2>4, <2>5, JdwpQuiet
<1>2. CASE CloseCfd(p) /\ SetApp(p, [japp[p] EXCEPT !.pc = "connect", !.link = 0]) /\ UNCHANGED jtrack
  BY <1>2, JdwpReconnects
<1> QED BY <1>1, <1>2 DEF ReadFromJdwp

\* Send2Jdwp puts the process's message on its own connection, which becomes ready behind
\* the end of an older one.
LEMMA JdwpSends ==
  ASSUME JdwpInv, NEW p \in Pids, Send2Jdwp(p)
  PROVE  JdwpInv'
<1>0. PICK l : l = japp[p].link
  OBVIOUS
<1>1. CASE jlink[l].ctx = "deleted"
  <2>1. CloseCfd(p) /\ SetApp(p, [japp[p] EXCEPT !.pc = "connect", !.link = 0]) /\ UNCHANGED jtrack
    BY <1>0, <1>1 DEF Send2Jdwp
  <2> QED BY <2>1, JdwpReconnects
<1>2. CASE jlink[l].ctx # "deleted"
  <2>0. JdwpShape /\ AppsFit /\ TrackersCurrent
    BY DEF JdwpInv
  <2>1. /\ l \in Links /\ jlink[l].app = "open" /\ jlink[l].pid = p /\ japp[p].pc = "send"
        /\ \A k \in Links \ {l} : jlink[k].app = "open" => jlink[k].pid # p
    BY <1>0, <2>0 DEF Send2Jdwp, AppsFit, AppFits, LinkFits
  <2>2. /\ jlink' = [jlink EXCEPT ![l].msg = TRUE] /\ jtrack' = jtrack
        /\ jd' = IF jlink[l].ctx = "open" THEN Readable(jd, l) ELSE jd
        /\ japp' = [japp EXCEPT ![p].pc = "read"]
    BY <1>0, <1>2, <2>0 DEF Send2Jdwp, SetApp, JdwpShape
  <2>jd. jd' = IF jlink[l].ctx = "open" THEN Readable(jd, l) ELSE jd
    BY <2>2
  <2>3. /\ DOMAIN jlink' = Links /\ \A k \in Links \ {l} : jlink'[k] = jlink[k]
        /\ DOMAIN jlink'[l] = DOMAIN NoLink /\ jlink'[l].msg = TRUE
        /\ jlink'[l].app = "open" /\ jlink'[l].pid = p /\ jlink'[l].ctx = jlink[l].ctx
        /\ jlink'[l].known = jlink[l].known /\ jlink'[l].finish = jlink[l].finish
    BY <2>0, <2>1, <2>2 DEF JdwpShape, NoLink
  <2>4. /\ DOMAIN japp' = Pids /\ \A q \in Pids \ {p} : japp'[q] = japp[q]
        /\ DOMAIN japp'[p] = DOMAIN NoApp(0, 0) /\ japp'[p].pc = "read" /\ japp'[p].link = l
        /\ japp'[p].disconnectFlag = japp[p].disconnectFlag /\ japp'[p].pkg = japp[p].pkg
    BY <1>0, <2>0, <2>2 DEF JdwpShape, NoApp
  <2>5. /\ DOMAIN jd' = DOMAIN jd /\ \A f \in DOMAIN jd \ {"ready"} : jd'[f] = jd[f]
        /\ jd'.ready \in Seq(Links \cup {0})
    BY <2>0, <2>1, <2>jd, JdwpReadable DEF JdwpShape
  <2>6. jd'.pc = jd.pc /\ jd'.backlog = jd.backlog /\ jd'.mapCtxJdwp = jd.mapCtxJdwp /\ jd'.turnedAway = jd.turnedAway
    BY <2>0, <2>5 DEF JdwpShape
  <2>7. JdwpShape'
    BY <2>0, <2>2, <2>3, <2>4, <2>5, <2>6 DEF JdwpShape, NoApp
  <2>8. AppsFit'
    <3>1. \A q \in Pids : AppFits(q)'
      BY <1>0, <2>0, <2>1, <2>3, <2>4, JdwpLinks DEF AppsFit, AppFits
    <3>2. \A k \in Links \ {l} : LinkFits(k)'
      BY <2>0, <2>1, <2>3, <2>4 DEF AppsFit, LinkFits
    <3>3. LinkFits(l)'
      BY <2>0, <2>1, <2>3, <2>4 DEF AppsFit, LinkFits
    <3> QED BY <3>1, <3>2, <3>3 DEF AppsFit
  <2>9. TrackersCurrent'
    BY <2>0, <2>2, <2>4, <2>6, JdwpStillTold
  <2>10. ASSUME jd.pc # "stopping" PROVE Serving'
    <3>0. QueuesFit /\ OldestFirst /\ ListFits
      BY <2>10 DEF JdwpInv, Serving
    <3>1. ~jlink[l].known /\ ~jlink[l].finish /\ Once(jd.ready)
      BY <1>2, <2>1, <3>0 DEF QueuesFit, QueueFits
    <3>2. /\ Once(jd'.ready)
          /\ \A k : Contains(jd'.ready, k) <=> Contains(jd.ready, k) \/ (k = l /\ jlink[l].ctx = "open")
          /\ \A k, m : Ahead(jd.ready, k, m) => Ahead(jd'.ready, k, m)
          /\ \A k, m : Contains(jd.ready, k) /\ ~Contains(jd.ready, m) =>
                        Ahead(jd'.ready, k, m) \/ ~Contains(jd'.ready, m)
      <4>1. CASE jlink[l].ctx = "open"
        <5>1. jd' = Readable(jd, l) /\ "ready" \in DOMAIN jd /\ jd.ready \in Seq(Links \cup {0})
          BY <2>0, <2>jd, <4>1 DEF JdwpShape
        <5> QED BY <2>1, <3>1, <4>1, <5>1, JdwpReadable
      <4>2. CASE jlink[l].ctx # "open"
        BY <2>jd, <3>1, <4>2
      <4> QED BY <4>1, <4>2
    <3>3. QueuesFit'
      <4>1. \A k \in Links \ {l} : jlink[k].app = "open" => japp'[jlink[k].pid] = japp[jlink[k].pid]
        BY <2>0, <2>1, <2>4 DEF AppsFit, LinkFits
      <4>2. ASSUME NEW k \in Links, k # l
            PROVE  QueueFits(k)'
        BY <2>3, <2>6, <3>0, <3>2, <4>1, <4>2 DEF QueuesFit, QueueFits
      <4>3. QueueFits(l)'
        BY <1>2, <2>1, <2>3, <2>4, <2>6, <3>0, <3>1, <3>2 DEF QueuesFit, QueueFits
      <4>4. \A k \in Links : QueueFits(k)'
        BY <4>2, <4>3
      <4> QED BY <2>6, <3>0, <3>2, <4>4 DEF QueuesFit
    <3>4. OldestFirst'
      <4> SUFFICES ASSUME NEW k \in Links, NEW m \in Links, k # m, jlink'[k].pid = jlink'[m].pid, Unread(k)', Unread(m)'
                   PROVE  Before(k, m)' \/ Before(m, k)'
        BY DEF OldestFirst
      <4>1. /\ Unread(k) /\ Unread(m) /\ jlink[k].pid = jlink[m].pid
            /\ jlink'[k].known = jlink[k].known /\ jlink'[m].known = jlink[m].known
            /\ jlink[k].app = "closed" => jlink'[k].app = "closed"
            /\ jlink[m].app = "closed" => jlink'[m].app = "closed"
        BY <2>1, <2>3 DEF Unread
      <4>2. Before(k, m) \/ Before(m, k)
        BY <3>0, <4>1 DEF OldestFirst
      <4> QED BY <2>6, <3>2, <4>1, <4>2 DEF Before
    <3>5. ListFits'
      BY <2>1, <2>3, <2>6, <3>0 DEF ListFits
    <3> QED BY <3>3, <3>4, <3>5 DEF Serving
  <2> QED BY <2>6, <2>7, <2>8, <2>9, <2>10 DEF JdwpInv
<1> QED BY <1>1, <1>2

\* Connect2Jdwp makes a connection that waits behind every older one of the process.
LEMMA JdwpConnects ==
  ASSUME JdwpInv, NEW p \in Pids, Connect2Jdwp(p)
  PROVE  JdwpInv'
<1>0. /\ JdwpShape /\ AppsFit /\ TrackersCurrent /\ DOMAIN japp[p] = DOMAIN NoApp(0, 0)
      /\ japp[p].link = 0 /\ ~japp[p].disconnectFlag
  BY DEF JdwpInv, JdwpShape, AppsFit, AppFits, Connect2Jdwp
<1>1. CASE SetApp(p, [japp[p] EXCEPT !.pc = "refused", !.gaveUp = jd.pc = "up"]) /\ UNCHANGED <<jd, jlink, jtrack>>
  <2> DEFINE r == [japp[p] EXCEPT !.pc = "refused", !.gaveUp = jd.pc = "up"]
  <2>1. /\ japp' = [japp EXCEPT ![p] = r] /\ UNCHANGED <<jd, jlink, jtrack>>
        /\ DOMAIN r = DOMAIN NoApp(0, 0) /\ r.pkg = japp[p].pkg /\ r.link = japp[p].link /\ r.pc = "refused"
    BY <1>0, <1>1 DEF SetApp, NoApp
  <2> HIDE DEF r
  <2> QED BY <1>0, <2>1, JdwpAppMoves
<1>2. ASSUME NEW l \in Links, jlink[l].app = "none", jd.pc \in {"listening", "up"}, UNCHANGED jtrack,
             jlink' = [jlink EXCEPT ![l] = [NoLink EXCEPT !.app = "open", !.pid = p]],
             jd' = Readable([jd EXCEPT !.backlog = Append(@, l)], 0),
             SetApp(p, [japp[p] EXCEPT !.pc = "send", !.link = l])
      PROVE  JdwpInv'
  <2> DEFINE d == [jd EXCEPT !.backlog = Append(jd.backlog, l)]
  <2>1. /\ DOMAIN jlink' = Links /\ \A k \in Links \ {l} : jlink'[k] = jlink[k]
        /\ DOMAIN jlink'[l] = DOMAIN NoLink /\ jlink'[l].msg = FALSE
        /\ jlink'[l].app = "open" /\ jlink'[l].pid = p /\ jlink'[l].ctx = "none"
        /\ jlink'[l].known = FALSE /\ jlink'[l].finish = FALSE
    BY <1>0, <1>2 DEF JdwpShape, NoLink
  <2>2. /\ DOMAIN japp' = Pids /\ \A q \in Pids \ {p} : japp'[q] = japp[q]
        /\ DOMAIN japp'[p] = DOMAIN NoApp(0, 0) /\ japp'[p].pc = "send" /\ japp'[p].link = l
        /\ japp'[p].disconnectFlag = japp[p].disconnectFlag /\ japp'[p].pkg = japp[p].pkg
    BY <1>0, <1>2 DEF JdwpShape, NoApp, SetApp
  <2>3. /\ DOMAIN d = DOMAIN jd /\ d.ready = jd.ready /\ d.pc = jd.pc /\ d.mapCtxJdwp = jd.mapCtxJdwp
        /\ d.turnedAway = jd.turnedAway /\ d.backlog = Append(jd.backlog, l) /\ "ready" \in DOMAIN d
        /\ jd' = Readable(d, 0)
    BY <1>0, <1>2 DEF JdwpShape
  <2> HIDE DEF d
  <2>4. /\ DOMAIN jd' = DOMAIN d /\ \A f \in DOMAIN d \ {"ready"} : jd'[f] = d[f]
        /\ jd'.ready \in Seq(Links \cup {0})
    <3>1. "ready" \in DOMAIN d /\ d.ready \in Seq(Links \cup {0}) /\ 0 \in Links \cup {0}
      BY <1>0, <2>3 DEF JdwpShape
    <3>2. /\ DOMAIN Readable(d, 0) = DOMAIN d /\ \A f \in DOMAIN d \ {"ready"} : Readable(d, 0)[f] = d[f]
          /\ Readable(d, 0).ready \in Seq(Links \cup {0})
      BY <3>1, JdwpReadable
    <3> QED BY <2>3, <3>2
  <2>5. /\ jd'.pc = jd.pc /\ jd'.mapCtxJdwp = jd.mapCtxJdwp /\ jd'.turnedAway = jd.turnedAway
        /\ jd'.backlog = Append(jd.backlog, l)
    <3>1. DOMAIN d = {"pc", "ready", "backlog", "mapCtxJdwp", "starts", "tracks", "maxMapSize", "turnedAway"}
      BY <1>0, <2>3 DEF JdwpShape
    <3> QED BY <2>3, <2>4, <3>1
  <2>6. \A k \in Links : jlink[k].app = "open" => jlink[k].pid # p
    BY <1>0, JdwpLinks DEF AppsFit, LinkFits
  <2>7. JdwpShape'
    <3>1. DOMAIN jd' = DOMAIN jd /\ jd'.backlog \in Seq(Links)
      <4>1. jd.backlog \in Seq(Links) /\ l \in Links
        BY <1>0 DEF JdwpShape
      <4>2. Append(jd.backlog, l) \in Seq(Links)
        BY <4>1
      <4>3. DOMAIN jd' = DOMAIN jd
        BY <2>3, <2>4
      <4> QED BY <2>5, <4>2, <4>3
    <3>2. jtrack' = jtrack
      BY <1>2
    <3>3. \A q \in Pids : DOMAIN japp'[q] = DOMAIN NoApp(0, 0)
      BY <1>0, <2>2 DEF JdwpShape
    <3>4. \A k \in Links : DOMAIN jlink'[k] = DOMAIN NoLink
      BY <1>0, <2>1 DEF JdwpShape
    <3>5. jd'.pc \in {"down", "listening", "up", "stopping"} /\ DOMAIN jd'.mapCtxJdwp = Pids
      BY <1>0, <2>5 DEF JdwpShape
    <3> QED BY <1>0, <2>1, <2>2, <2>4, <3>1, <3>2, <3>3, <3>4, <3>5 DEF JdwpShape
  <2>8. AppsFit'
    <3>1. \A q \in Pids : AppFits(q)'
      BY <1>0, <1>2, <2>1, <2>2, <2>6, JdwpLinks DEF AppsFit, AppFits
    <3>2. \A k \in Links \ {l} : LinkFits(k)'
      BY <1>0, <2>1, <2>2, <2>6 DEF AppsFit, LinkFits
    <3>3. LinkFits(l)'
      BY <2>1, <2>2 DEF LinkFits
    <3> QED BY <3>1, <3>2, <3>3 DEF AppsFit
  <2>9. TrackersCurrent'
    BY <1>0, <1>2, <2>2, <2>5, JdwpStillTold
  <2>10. Serving'
    <3>0. QueuesFit /\ OldestFirst /\ ListFits
      BY <1>2 DEF JdwpInv, Serving
    <3>1. jlink[l] = NoLink
      BY <1>0, <1>2 DEF AppsFit, LinkFits
    <3>2. Once(jd.ready) /\ Once(jd.backlog) /\ ~Contains(jd.backlog, l) /\ ~Contains(jd.ready, l)
      BY <3>0, <3>1, JdwpNoLink DEF QueuesFit, QueueFits
    <3>3. /\ Once(jd'.ready)
          /\ \A k \in Links : Contains(jd'.ready, k) <=> Contains(jd.ready, k)
          /\ \A k, m : Ahead(jd.ready, k, m) => Ahead(jd'.ready, k, m)
      <4>1. d.ready = jd.ready /\ jd.ready \in Seq(Links \cup {0}) /\ "ready" \in DOMAIN d /\ jd' = Readable(d, 0)
        BY <1>0, <2>3 DEF JdwpShape
      <4> QED BY <3>2, <4>1, JdwpReadable, JdwpLinks
    <3>4. /\ Once(jd'.backlog) /\ \A k : Contains(jd'.backlog, k) <=> Contains(jd.backlog, k) \/ k = l
          /\ \A k, m : Ahead(jd.backlog, k, m) => Ahead(jd'.backlog, k, m)
          /\ \A k : Contains(jd.backlog, k) => Ahead(jd'.backlog, k, l)
      BY <1>0, <2>5, <3>2, JdwpAppend DEF JdwpShape
    <3>5. QueuesFit'
      <4>1. \A k \in Links \ {l} : jlink[k].app = "open" => japp'[jlink[k].pid] = japp[jlink[k].pid]
        BY <1>0, <2>6, <2>2 DEF AppsFit, LinkFits
      <4>2. ASSUME NEW k \in Links, k # l
            PROVE  QueueFits(k)'
        BY <2>1, <2>5, <3>0, <3>3, <3>4, <4>1, <4>2 DEF QueuesFit, QueueFits
      <4>3. QueueFits(l)'
        BY <2>1, <3>2, <3>3, <3>4 DEF QueueFits
      <4> QED BY <3>3, <3>4, <4>2, <4>3 DEF QueuesFit
    <3>6. OldestFirst'
      <4>1. ASSUME NEW k \in Links, k # l, jlink'[k].pid = p, Unread(k)' PROVE Before(k, l)'
        <5>1. jlink[k].app = "closed" /\ jlink'[k].app = "closed" /\ jlink[k].ctx # "deleted" /\ ~jlink[k].finish
          BY <1>0, <2>1, <2>6, <4>1 DEF Unread, AppsFit, LinkFits
        <5>2. Contains(jd.backlog, k) \/ Contains(jd.ready, k)
          BY <1>0, <3>0, <5>1 DEF QueuesFit, QueueFits, AppsFit, LinkFits
        <5> QED BY <2>1, <3>2, <3>3, <3>4, <5>1, <5>2 DEF Before
      <4>2. ASSUME NEW k \in Links, NEW m \in Links, k # l, m # l, Before(k, m) PROVE Before(k, m)'
        BY <2>1, <3>3, <3>4, <4>2 DEF Before
      <4> SUFFICES ASSUME NEW k \in Links, NEW m \in Links, k # m, jlink'[k].pid = jlink'[m].pid, Unread(k)', Unread(m)'
                   PROVE  Before(k, m)' \/ Before(m, k)'
        BY DEF OldestFirst
      <4>3. CASE k = l
        BY <2>1, <4>1, <4>3
      <4>4. CASE m = l
        BY <2>1, <4>1, <4>4
      <4>5. CASE k # l /\ m # l
        <5>1. Unread(k) /\ Unread(m) /\ jlink[k].pid = jlink[m].pid
          BY <2>1, <4>5 DEF Unread
        <5> QED BY <3>0, <4>2, <4>5, <5>1 DEF OldestFirst
      <4> QED BY <4>3, <4>4, <4>5
    <3>7. ListFits'
      <4>1. \A q \in Pids : jd.mapCtxJdwp[q] # l
        BY <3>0, <3>1, JdwpNoLink, JdwpLinks DEF ListFits
      <4> QED BY <2>1, <2>5, <3>0, <4>1 DEF ListFits
    <3> QED BY <3>5, <3>6, <3>7 DEF Serving
  <2> QED BY <2>7, <2>8, <2>9, <2>10 DEF JdwpInv
<1> QED BY <1>1, <1>2 DEF Connect2Jdwp
-----------------------------------------------------------------------------
(* One lemma per action: the daemon                                        *)

\* What the daemon does to its ends of the connections leaves the others alone.
LeavesApp(k) ==
  \/ jlink'[k] = NoLink /\ jlink[k].app # "open"
  \/ /\ jlink'[k].app = jlink[k].app /\ jlink'[k].pid = jlink[k].pid
     /\ jlink'[k].ctx \in {"none", "open", "deleted"}
     /\ jlink'[k].msg \in BOOLEAN /\ jlink'[k].known \in BOOLEAN /\ jlink'[k].finish \in BOOLEAN
     /\ jlink[k].app # "none" /\ (jlink[k].app = "closed" => jlink'[k].ctx # "deleted")

\* Then the applications have the connections they had.
LEMMA JdwpAppsKept ==
  ASSUME JdwpShape, AppsFit, UNCHANGED japp,
         \A k \in Links : LeavesApp(k)
  PROVE  AppsFit'
<1>1. \A p \in Pids : AppFits(p)'
  BY DEF AppsFit, AppFits, LeavesApp
<1>2. ASSUME NEW k \in Links PROVE LinkFits(k)'
  <2>1. CASE jlink'[k] = NoLink
    BY <2>1, JdwpNoLink DEF LinkFits
  <2>2. CASE jlink'[k] # NoLink
    BY <2>2 DEF AppsFit, LinkFits, LeavesApp
  <2> QED BY <2>1, <2>2
<1> QED BY <1>1, <1>2 DEF AppsFit

\* AcceptClient takes the backlog in its order, so that an older end stays ahead.
LEMMA JdwpAccept ==
  ASSUME JdwpInv, AcceptClient
  PROVE  JdwpInv'
<1> DEFINE S == {l \in ToSet(jd.backlog) : jlink[l].msg \/ jlink[l].app = "closed"}
           q == Tail(jd.ready)
<1>0. /\ JdwpShape /\ AppsFit /\ TrackersCurrent /\ QueuesFit /\ OldestFirst /\ ListFits
      /\ jd.pc = "up" /\ jd.ready # <<>> /\ Head(jd.ready) = 0 /\ UNCHANGED <<japp, jtrack>>
  BY DEF JdwpInv, Serving, AcceptClient
<1>1. PICK s \in Keep(jd.backlog, S) : jd' = [jd EXCEPT !.backlog = <<>>, !.ready = q \o s]
  BY DEF AcceptClient
<1>2. /\ DOMAIN jd' = DOMAIN jd /\ jd'.pc = jd.pc /\ jd'.backlog = <<>> /\ jd'.ready = q \o s
      /\ jd'.mapCtxJdwp = jd.mapCtxJdwp /\ jd'.turnedAway = jd.turnedAway
  BY <1>0, <1>1 DEF JdwpShape
<1>3. /\ jd.ready \in Seq(Links \cup {0}) /\ jd.backlog \in Seq(Links) /\ jd.backlog \in Seq(Links \cup {0})
      /\ Once(jd.ready) /\ Once(jd.backlog)
  BY <1>0 DEF JdwpShape, QueuesFit
<1>4. \A l : l \in ToSet(jd.backlog) <=> Contains(jd.backlog, l)
  BY <1>3 DEF ToSet, Contains
<1>5. S \in SUBSET ToSet(jd.backlog)
  OBVIOUS
<1>6. IsFiniteSet(S) /\ S \subseteq Links \cup {0} /\ s \in Seq(Links \cup {0})
  BY <1>1, <1>3, <1>5, JdwpKept
<1>7. /\ Once(s) /\ \A l : Contains(s, l) <=> l \in S
      /\ \A k \in S, l \in S : Ahead(jd.backlog, k, l) => Ahead(s, k, l)
  BY <1>1, <1>3, <1>6, JdwpKeep
<1>8. /\ q \in Seq(Links \cup {0}) /\ Once(q)
      /\ \A l : Contains(q, l) <=> Contains(jd.ready, l) /\ l # 0
      /\ \A k, l : Ahead(jd.ready, k, l) => l # 0 /\ (k # 0 => Ahead(q, k, l))
  BY <1>0, <1>3, JdwpTail
<1>9. \A l \in Links : l \in S <=> Contains(jd.backlog, l) /\ (jlink[l].msg \/ jlink[l].app = "closed")
  BY <1>4
<1>10. \A l : Contains(jd.backlog, l) => l \in Links
  BY <1>3 DEF Contains
<1>11. \A l : ~(Contains(q, l) /\ Contains(s, l))
  BY <1>0, <1>4, <1>7, <1>8, <1>10 DEF QueuesFit, QueueFits
<1>12. /\ jd'.ready \in Seq(Links \cup {0}) /\ Once(jd'.ready)
       /\ \A l : Contains(jd'.ready, l) <=> Contains(q, l) \/ Contains(s, l)
       /\ \A k, l : Ahead(q, k, l) \/ Ahead(s, k, l) \/ (Contains(q, k) /\ Contains(s, l)) => Ahead(jd'.ready, k, l)
  <2> HIDE DEF S, q
  <2>1. /\ q \o s \in Seq(Links \cup {0}) /\ Once(q \o s)
        /\ \A l : Contains(q \o s, l) <=> Contains(q, l) \/ Contains(s, l)
        /\ \A k, l : Ahead(q, k, l) \/ Ahead(s, k, l) \/ (Contains(q, k) /\ Contains(s, l)) => Ahead(q \o s, k, l)
    BY <1>6, <1>7, <1>8, <1>11, JdwpJoin
  <2> QED BY <1>2, <2>1
<1>13. \A l \in Links : Contains(jd'.ready, l) <=>
          Contains(jd.ready, l) \/ (Contains(jd.backlog, l) /\ (jlink[l].msg \/ jlink[l].app = "closed"))
  BY <1>7, <1>8, <1>9, <1>12, JdwpLinks
<1>14. /\ DOMAIN jlink' = Links
       /\ \A l \in Links : /\ DOMAIN jlink'[l] = DOMAIN NoLink
                           /\ jlink'[l].app = jlink[l].app /\ jlink'[l].pid = jlink[l].pid
                           /\ jlink'[l].msg = jlink[l].msg /\ jlink'[l].known = jlink[l].known
                           /\ jlink'[l].finish = jlink[l].finish
                           /\ jlink'[l].ctx = IF Contains(jd.backlog, l) THEN "open" ELSE jlink[l].ctx
                           /\ ~Contains(jd.backlog, l) => jlink'[l] = jlink[l]
  BY <1>0, <1>4 DEF AcceptClient, Accepted, JdwpShape, NoLink
<1> HIDE DEF S, q
<1>15. JdwpShape'
  <2>1. <<>> \in Seq(Links)
    OBVIOUS
  <2> QED BY <1>0, <1>2, <1>12, <1>14, <2>1 DEF JdwpShape
<1>16. AppsFit'
  <2>1. ASSUME NEW k \in Links
        PROVE  LeavesApp(k)
    <3>1. LinkFits(k) /\ QueueFits(k)
      BY <1>0 DEF AppsFit, QueuesFit
    <3> QED BY <1>14, <3>1 DEF LinkFits, QueueFits, LeavesApp
  <2> QED BY <1>0, <2>1, JdwpAppsKept
<1>17. TrackersCurrent'
  BY <1>0, <1>2, JdwpStillTold
<1>18. QueuesFit'
  <2>1. \A l : ~Contains(jd'.backlog, l)
    BY <1>2 DEF Contains
  <2>2. ASSUME NEW l \in Links PROVE QueueFits(l)'
    <3>1. LinkFits(l) /\ QueueFits(l)
      BY <1>0 DEF AppsFit, QueuesFit
    <3> QED BY <1>0, <1>13, <1>14, <2>1, <3>1 DEF QueueFits, LinkFits
  <2>3. Once(jd'.backlog)
    BY <1>2 DEF Once
  <2> QED BY <1>12, <2>2, <2>3 DEF QueuesFit
<1>19. OldestFirst'
  <2>1. ASSUME NEW k \in Links, NEW l \in Links, Before(k, l) PROVE Before(k, l)'
    <3>1. jlink'[k].app = "closed" /\ ~jlink'[l].known /\ jlink[k].app = "closed" /\ k # 0 /\ l # 0
      BY <1>14, <2>1, JdwpLinks DEF Before
    <3>2. CASE Ahead(jd.backlog, k, l)
      <4>1. Contains(jd.backlog, k) /\ Contains(jd.backlog, l)
        BY <3>2 DEF Ahead, Contains
      <4>2. k \in S /\ Contains(jd'.ready, k)
        BY <1>9, <1>13, <3>1, <4>1
      <4>3. CASE l \in S
        BY <1>7, <1>12, <3>1, <3>2, <4>2, <4>3 DEF Before
      <4>4. CASE l \notin S
        <5>1. ~Contains(jd'.ready, l)
          BY <1>0, <1>9, <1>13, <4>1, <4>4 DEF QueuesFit, QueueFits
        <5> QED BY <3>1, <4>2, <5>1 DEF Before
      <4> QED BY <4>3, <4>4
    <3>3. CASE Contains(jd.ready, k) /\ Ahead(jd.ready, k, l)
      BY <1>8, <1>12, <3>1, <3>3 DEF Before
    <3>4. CASE Contains(jd.ready, k) /\ ~Contains(jd.ready, l)
      <4>1. Contains(q, k) /\ Contains(jd'.ready, k) /\ ~Contains(q, l)
        BY <1>8, <1>12, <3>1, <3>4
      <4> QED BY <1>12, <3>1, <4>1 DEF Before
    <3> QED BY <2>1, <3>2, <3>3, <3>4 DEF Before
  <2>2. \A k \in Links : Unread(k)' => Unread(k)
    <3> SUFFICES ASSUME NEW k \in Links, Unread(k)' PROVE Unread(k)
      OBVIOUS
    <3>1. QueueFits(k)
      BY <1>0 DEF QueuesFit
    <3> QED BY <1>14, <3>1 DEF Unread, QueueFits
  <2> QED BY <1>0, <1>14, <2>1, <2>2 DEF OldestFirst
<1>20. ListFits'
  <2>1. \A l \in Links : Contains(jd.backlog, l) => ~jlink[l].known /\ jlink[l].ctx = "none"
    BY <1>0 DEF QueuesFit, QueueFits
  <2> QED BY <1>0, <1>2, <1>14, <2>1 DEF ListFits
<1> QED BY <1>15, <1>16, <1>17, <1>18, <1>19, <1>20 DEF JdwpInv, Serving

\* ReadStream with a message: the context enters the list, after the end of any older
\* connection of the process was read, or is turned away.
LEMMA JdwpReadMessage ==
  ASSUME JdwpInv, NEW l, l = Head(jd.ready), jd.pc \in {"up", "stopping"}, jd.ready # <<>>, l # 0,
         jlink[l].ctx = "open", ReadMessage(l), UNCHANGED japp
  PROVE  JdwpInv'
<1>0. JdwpShape /\ AppsFit /\ TrackersCurrent
  BY DEF JdwpInv
<1>1. jd.ready \in Seq(Links \cup {0}) /\ l \in Links /\ Tail(jd.ready) \in Seq(Links \cup {0})
  BY <1>0 DEF JdwpShape
<1>2. PICK p : p = jlink[l].pid
  OBVIOUS
<1>3. p \in Pids /\ jlink[l].app \in {"open", "closed"} /\ jlink[l].msg
  BY <1>0, <1>1, <1>2, JdwpNoLink DEF ReadMessage, AppsFit, LinkFits
<1>4. PICK ok \in BOOLEAN : ok = (japp[p].pkg # "invalid")
  OBVIOUS
<1> DEFINE d == [jd EXCEPT !.ready = IF jlink[l].app = "closed" THEN jd.ready ELSE Tail(jd.ready)]
<1>5. /\ jlink' = [jlink EXCEPT ![l].msg = FALSE, ![l].known = ok, ![l].finish = @ \/ ~ok]
      /\ jd' = IF ok THEN AddContext(d, p, l) ELSE d
      /\ jtrack' = ProcessListUpdated(jd'.mapCtxJdwp)
  BY <1>0, <1>2, <1>4 DEF ReadMessage, JdwpShape
<1>6. /\ DOMAIN jlink' = Links /\ \A k \in Links \ {l} : jlink'[k] = jlink[k]
      /\ DOMAIN jlink'[l] = DOMAIN NoLink /\ jlink'[l].msg = FALSE /\ jlink'[l].known = ok
      /\ jlink'[l].finish = (jlink[l].finish \/ ~ok)
      /\ jlink'[l].app = jlink[l].app /\ jlink'[l].pid = p /\ jlink'[l].ctx = "open"
  BY <1>0, <1>1, <1>2, <1>5 DEF JdwpShape, NoLink
<1>7. /\ DOMAIN d = DOMAIN jd /\ d.pc = jd.pc /\ d.backlog = jd.backlog /\ d.mapCtxJdwp = jd.mapCtxJdwp
      /\ d.turnedAway = jd.turnedAway
      /\ d.ready = IF jlink[l].app = "closed" THEN jd.ready ELSE Tail(jd.ready)
  BY <1>0 DEF JdwpShape
<1> HIDE DEF d
<1>8. /\ DOMAIN jd' = DOMAIN jd /\ jd'.pc = jd.pc /\ jd'.backlog = jd.backlog /\ DOMAIN jd'.mapCtxJdwp = Pids
      /\ jd'.ready = IF jlink[l].app = "closed" THEN jd.ready ELSE Tail(jd.ready)
      /\ ~ok => jd'.mapCtxJdwp = jd.mapCtxJdwp /\ jd'.turnedAway = jd.turnedAway
      /\ ok => \/ /\ jd'.turnedAway = jd.turnedAway /\ jd'.mapCtxJdwp[p] = l
                  /\ \A q \in Pids \ {p} : jd'.mapCtxJdwp[q] = jd.mapCtxJdwp[q]
               \/ jd'.turnedAway = jd.turnedAway \cup {l} /\ jd'.mapCtxJdwp = jd.mapCtxJdwp
  <2>1. DOMAIN jd = {"pc", "ready", "backlog", "mapCtxJdwp", "starts", "tracks", "maxMapSize", "turnedAway"} /\ DOMAIN jd.mapCtxJdwp = Pids
    BY <1>0 DEF JdwpShape
  <2>2. CASE ~ok
    BY <1>5, <1>7, <2>1, <2>2
  <2>3. CASE ok /\ Cardinality(Listed(d.mapCtxJdwp)) < d.maxMapSize
    <3>1. jd' = [d EXCEPT !.mapCtxJdwp[p] = l]
      BY <1>5, <2>3 DEF AddContext
    <3> QED BY <1>3, <1>7, <2>1, <2>3, <3>1
  <2>4. CASE ok /\ ~(Cardinality(Listed(d.mapCtxJdwp)) < d.maxMapSize)
    <3>1. jd' = [d EXCEPT !.turnedAway = @ \cup {l}]
      BY <1>5, <2>4 DEF AddContext
    <3> QED BY <1>7, <2>1, <2>4, <3>1
  <2> QED BY <2>2, <2>3, <2>4
<1>9. TrackersCurrent' /\ DOMAIN jtrack' = Trackers /\ \A t \in Trackers : DOMAIN jtrack'[t] = DOMAIN NoTracker
  BY <1>0, <1>5, JdwpTold
<1>10. JdwpShape'
  <2>1. \A k \in Links : DOMAIN jlink'[k] = DOMAIN NoLink
    BY <1>0, <1>6 DEF JdwpShape
  <2>2. jd'.ready \in Seq(Links \cup {0})
    BY <1>1, <1>8
  <2> QED BY <1>0, <1>6, <1>8, <1>9, <2>1, <2>2 DEF JdwpShape
<1>11. AppsFit'
  <2>1. ASSUME NEW k \in Links
        PROVE  LeavesApp(k)
    <3>1. LinkFits(k)
      BY <1>0 DEF AppsFit
    <3>2. CASE k = l
      BY <1>2, <1>3, <1>6, <3>2 DEF LeavesApp
    <3>3. CASE k # l
      BY <1>6, <3>1, <3>3 DEF LinkFits, LeavesApp
    <3> QED BY <3>2, <3>3
  <2> QED BY <1>0, <2>1, JdwpAppsKept
<1>12. ASSUME jd.pc # "stopping" PROVE Serving'
  <2>0. QueuesFit /\ OldestFirst /\ ListFits
    BY <1>12 DEF JdwpInv, Serving
  <2>1. /\ Once(jd.ready) /\ Once(Tail(jd.ready)) /\ Contains(jd.ready, l)
        /\ \A k : Contains(Tail(jd.ready), k) <=> Contains(jd.ready, k) /\ k # l
        /\ \A k, m : Ahead(jd.ready, k, m) => m # l /\ (k # l => Ahead(Tail(jd.ready), k, m))
    BY <1>1, <2>0, JdwpTail DEF QueuesFit
  <2>2. ~jlink[l].known /\ ~jlink[l].finish /\ ~Contains(jd.backlog, l) /\ jlink'[l].finish = ~ok
    BY <1>1, <1>3, <1>6, <2>0 DEF QueuesFit, QueueFits
  <2>bool. (jlink'[l].known <=> ok) /\ (jlink'[l].finish <=> ~ok) /\ ~jlink'[l].msg
    BY <1>6, <2>2
  <2>3. /\ Once(jd'.ready) /\ \A k : k # l => (Contains(jd'.ready, k) <=> Contains(jd.ready, k))
        /\ Contains(jd'.ready, l) <=> jlink[l].app = "closed"
        /\ \A k, m : Ahead(jd.ready, k, m) => m # l /\ (k # l \/ jlink[l].app = "closed" => Ahead(jd'.ready, k, m))
    BY <1>8, <2>1
  <2>4. \A k : ~Before(k, l)
    <3>1. \A k : ~Ahead(jd.backlog, k, l)
      BY <2>2 DEF Ahead, Contains
    <3> QED BY <2>1, <3>1 DEF Before
  <2>5. QueuesFit'
    <3>1. ASSUME NEW k \in Links, k # l PROVE QueueFits(k)'
      BY <1>6, <1>8, <2>0, <2>3, <3>1 DEF QueuesFit, QueueFits
    <3>2. QueueFits(l)'
      <4>1. QueueFits(l)
        BY <1>1, <2>0 DEF QueuesFit
      <4>2. jlink[l].app = "open" => japp'[jlink'[l].pid].pc # "send"
        BY <1>2, <1>3, <1>6, <4>1 DEF QueueFits
      <4> QED BY <1>3, <1>6, <1>8, <2>2, <2>bool, <2>3, <4>2 DEF QueueFits
    <3>3. \A k \in Links : QueueFits(k)'
      BY <3>1, <3>2
    <3> QED BY <1>8, <2>0, <2>3, <3>3 DEF QueuesFit
  <2>6. OldestFirst'
    <3> SUFFICES ASSUME NEW k \in Links, NEW m \in Links, k # m, jlink'[k].pid = jlink'[m].pid, Unread(k)', Unread(m)'
                 PROVE  Before(k, m)' \/ Before(m, k)'
      BY DEF OldestFirst
    <3>1. Unread(k) /\ Unread(m) /\ jlink[k].pid = jlink[m].pid
      BY <1>2, <1>3, <1>6, <2>2 DEF Unread
    <3>2. ASSUME NEW a \in Links, NEW b \in Links, Before(a, b) PROVE Before(a, b)'
      <4>1. b # l
        BY <2>4, <3>2
      <4> QED BY <1>6, <1>8, <2>3, <3>2, <4>1 DEF Before
    <3> QED BY <2>0, <3>1, <3>2 DEF OldestFirst
  <2>7. ListFits'
    <3>1. ASSUME NEW k \in Links, k # l, jlink[k].ctx = "open", jlink[k].known, ~jlink[k].finish
          PROVE  jlink[k].pid # p
      <4>1. Unread(k) /\ Unread(l)
        BY <1>0, <1>3, <2>2, <3>1, JdwpNoLink DEF Unread, AppsFit, LinkFits
      <4> QED BY <1>1, <1>2, <2>0, <2>4, <3>1, <4>1 DEF OldestFirst, Before
    <3>2. \A q \in Pids : jd.mapCtxJdwp[q] # l
      BY <1>1, <2>0, <2>2, JdwpLinks DEF ListFits
    <3>3. ASSUME NEW q \in Pids, jd'.mapCtxJdwp[q] # 0
          PROVE  LET k == jd'.mapCtxJdwp[q]
                 IN  k \in Links /\ jlink'[k].ctx = "open" /\ jlink'[k].known /\ ~jlink'[k].finish /\ jlink'[k].pid = q
      <4> DEFINE k == jd'.mapCtxJdwp[q]
      <4>1. CASE ok /\ q = p /\ k = l
        BY <1>1, <1>6, <2>bool, <4>1
      <4>2. CASE k = jd.mapCtxJdwp[q]
        <5>1. k \in Links /\ jlink[k].ctx = "open" /\ jlink[k].known /\ ~jlink[k].finish /\ jlink[k].pid = q /\ k # l
          BY <2>0, <3>2, <3>3, <4>2 DEF ListFits
        <5> QED BY <1>6, <5>1
      <4> QED BY <1>8, <3>3, <4>1, <4>2
    <3>4. ASSUME NEW k \in Links, jlink'[k].ctx = "open", jlink'[k].known, ~jlink'[k].finish
          PROVE  jd'.mapCtxJdwp[jlink'[k].pid] = k \/ k \in jd'.turnedAway
      <4>1. CASE k = l
        BY <1>6, <1>8, <3>4, <4>1
      <4>2. CASE k # l
        <5>1. jlink'[k] = jlink[k] /\ jlink[k].pid # p /\ jlink[k].pid \in Pids
          BY <1>0, <1>6, <3>1, <3>4, <4>2, JdwpNoLink DEF AppsFit, LinkFits
        <5> QED BY <1>8, <2>0, <3>4, <5>1 DEF ListFits
      <4> QED BY <4>1, <4>2
    <3> QED BY <3>3, <3>4 DEF ListFits
  <2> QED BY <2>5, <2>6, <2>7 DEF Serving
<1> QED BY <1>8, <1>9, <1>10, <1>11, <1>12 DEF JdwpInv

\* ReadStream at the end of the pipe: FreeContext takes the context's own entry and no other.
LEMMA JdwpReadEnd ==
  ASSUME JdwpInv, NEW l, l = Head(jd.ready), jd.pc \in {"up", "stopping"}, jd.ready # <<>>, l # 0,
         jlink[l].ctx = "open", ReadEnd(l), UNCHANGED japp
  PROVE  JdwpInv'
<1>0. JdwpShape /\ AppsFit /\ TrackersCurrent
  BY DEF JdwpInv
<1>1. jd.ready \in Seq(Links \cup {0}) /\ l \in Links /\ Tail(jd.ready) \in Seq(Links \cup {0})
  BY <1>0 DEF JdwpShape
<1>2. PICK p : p = jlink[l].pid
  OBVIOUS
<1>3. p \in Pids /\ jlink[l].app \in {"open", "closed"} /\ ~jlink[l].msg
  BY <1>0, <1>1, <1>2, JdwpNoLink DEF ReadEnd, AppsFit, LinkFits
<1> DEFINE d == [jd EXCEPT !.ready = Tail(jd.ready)]
<1>4. /\ jlink' = [jlink EXCEPT ![l].finish = TRUE]
      /\ jd' = FreeJdwpContext(d, l)
      /\ jtrack' = IF jd.pc = "stopping" THEN jtrack ELSE ProcessListUpdated(jd'.mapCtxJdwp)
  BY <1>0 DEF ReadEnd, JdwpShape
<1>5. /\ DOMAIN jlink' = Links /\ \A k \in Links \ {l} : jlink'[k] = jlink[k]
      /\ DOMAIN jlink'[l] = DOMAIN NoLink /\ jlink'[l].msg = jlink[l].msg /\ jlink'[l].known = jlink[l].known
      /\ jlink'[l].finish = TRUE
      /\ jlink'[l].app = jlink[l].app /\ jlink'[l].pid = p /\ jlink'[l].ctx = "open"
  BY <1>0, <1>1, <1>2, <1>4 DEF JdwpShape, NoLink
<1>6. /\ DOMAIN d = DOMAIN jd /\ d.pc = jd.pc /\ d.backlog = jd.backlog /\ d.mapCtxJdwp = jd.mapCtxJdwp
      /\ d.turnedAway = jd.turnedAway /\ d.ready = Tail(jd.ready)
  BY <1>0 DEF JdwpShape
<1> HIDE DEF d
<1>7. /\ DOMAIN jd' = DOMAIN jd /\ jd'.pc = jd.pc /\ jd'.backlog = jd.backlog /\ DOMAIN jd'.mapCtxJdwp = Pids
      /\ jd'.ready = Tail(jd.ready) /\ jd'.turnedAway = jd.turnedAway
      /\ IF jlink[l].finish \/ ~jlink[l].known \/ jd.pc = "stopping"
         THEN jd'.mapCtxJdwp = jd.mapCtxJdwp
         ELSE jd'.mapCtxJdwp[p] = 0 /\ \A q \in Pids \ {p} : jd'.mapCtxJdwp[q] = jd.mapCtxJdwp[q]
  <2>1. DOMAIN jd = {"pc", "ready", "backlog", "mapCtxJdwp", "starts", "tracks", "maxMapSize", "turnedAway"} /\ DOMAIN jd.mapCtxJdwp = Pids
    BY <1>0 DEF JdwpShape
  <2>2. CASE jlink[l].finish \/ ~jlink[l].known \/ d.pc = "stopping"
    BY <1>4, <1>6, <2>1, <2>2 DEF FreeJdwpContext
  <2>3. CASE ~(jlink[l].finish \/ ~jlink[l].known \/ d.pc = "stopping")
    <3>1. jd' = [d EXCEPT !.mapCtxJdwp[p] = 0]
      BY <1>2, <1>4, <2>3 DEF FreeJdwpContext
    <3> QED BY <1>3, <1>6, <2>1, <2>3, <3>1
  <2> QED BY <2>2, <2>3
<1>8. TrackersCurrent' /\ DOMAIN jtrack' = Trackers /\ \A t \in Trackers : DOMAIN jtrack'[t] = DOMAIN NoTracker
  <2>1. CASE jd.pc = "stopping"
    <3>1. jtrack' = jtrack /\ jd'.mapCtxJdwp = jd.mapCtxJdwp
      BY <1>4, <1>7, <2>1
    <3> QED BY <1>0, <3>1, JdwpStillTold DEF JdwpShape
  <2>2. CASE jd.pc # "stopping"
    BY <1>0, <1>4, <2>2, JdwpTold
  <2> QED BY <2>1, <2>2
<1>9. JdwpShape'
  <2>1. \A k \in Links : DOMAIN jlink'[k] = DOMAIN NoLink
    BY <1>0, <1>5 DEF JdwpShape
  <2>2. jd'.ready \in Seq(Links \cup {0})
    BY <1>1, <1>7
  <2> QED BY <1>0, <1>5, <1>7, <1>8, <2>1, <2>2 DEF JdwpShape
<1>10. AppsFit'
  <2>1. ASSUME NEW k \in Links
        PROVE  LeavesApp(k)
    <3>1. LinkFits(k)
      BY <1>0 DEF AppsFit
    <3>2. CASE k = l
      BY <1>2, <1>3, <1>5, <3>1, <3>2 DEF LinkFits, LeavesApp
    <3>3. CASE k # l
      BY <1>5, <3>1, <3>3 DEF LinkFits, LeavesApp
    <3> QED BY <3>2, <3>3
  <2> QED BY <1>0, <2>1, JdwpAppsKept
<1>11. ASSUME jd.pc # "stopping" PROVE Serving'
  <2>0. QueuesFit /\ OldestFirst /\ ListFits
    BY <1>11 DEF JdwpInv, Serving
  <2>1. /\ Once(jd.ready) /\ Once(Tail(jd.ready)) /\ Contains(jd.ready, l)
        /\ \A k : Contains(Tail(jd.ready), k) <=> Contains(jd.ready, k) /\ k # l
        /\ \A k, m : Ahead(jd.ready, k, m) => m # l /\ (k # l => Ahead(Tail(jd.ready), k, m))
    BY <1>1, <2>0, JdwpTail DEF QueuesFit
  <2>2. jlink[l].app = "closed" /\ ~Contains(jd.backlog, l)
    BY <1>1, <1>3, <2>0, <2>1 DEF QueuesFit, QueueFits
  <2>3. QueuesFit'
    <3>1. ASSUME NEW k \in Links, k # l PROVE QueueFits(k)'
      BY <1>5, <1>7, <2>0, <2>1, <3>1 DEF QueuesFit, QueueFits
    <3>2. QueueFits(l)'
      <4>1. ~Contains(jd'.ready, l) /\ ~Contains(jd'.backlog, l) /\ jlink'[l].finish /\ ~jlink'[l].msg
        BY <1>3, <1>5, <1>7, <2>1, <2>2
      <4> QED BY <1>5, <2>2, <4>1 DEF QueueFits
    <3>3. \A k \in Links : QueueFits(k)'
      BY <3>1, <3>2
    <3> QED BY <1>7, <2>0, <2>1, <3>3 DEF QueuesFit
  <2>4. OldestFirst'
    <3> SUFFICES ASSUME NEW k \in Links, NEW m \in Links, k # m, jlink'[k].pid = jlink'[m].pid, Unread(k)', Unread(m)'
                 PROVE  Before(k, m)' \/ Before(m, k)'
      BY DEF OldestFirst
    <3>1. k # l /\ m # l
      BY <1>5 DEF Unread
    <3>2. Unread(k) /\ Unread(m) /\ jlink[k].pid = jlink[m].pid
      BY <1>5, <3>1 DEF Unread
    <3>3. ASSUME NEW a \in Links, NEW b \in Links, Before(a, b), a # l, b # l PROVE Before(a, b)'
      BY <1>5, <1>7, <2>1, <3>3 DEF Before
    <3> QED BY <2>0, <3>1, <3>2, <3>3 DEF OldestFirst
  <2>5. ListFits'
    <3>1. ASSUME NEW k \in Links, k # l, jlink[k].ctx = "open", jlink[k].known, ~jlink[k].finish,
                 ~jlink[l].finish, jlink[l].known
          PROVE  jlink[k].pid # p
      <4>1. Unread(k) /\ Unread(l)
        BY <1>0, <1>3, <3>1, JdwpNoLink DEF Unread, AppsFit, LinkFits
      <4> QED BY <1>1, <1>2, <2>0, <3>1, <4>1 DEF OldestFirst, Before
    <3>2. ASSUME NEW q \in Pids, jd'.mapCtxJdwp[q] # 0
          PROVE  LET k == jd'.mapCtxJdwp[q]
                 IN  k \in Links /\ jlink'[k].ctx = "open" /\ jlink'[k].known /\ ~jlink'[k].finish /\ jlink'[k].pid = q
      <4> DEFINE k == jd'.mapCtxJdwp[q]
      <4>1. k = jd.mapCtxJdwp[q]
        BY <1>7, <3>2
      <4>2. k \in Links /\ jlink[k].ctx = "open" /\ jlink[k].known /\ ~jlink[k].finish /\ jlink[k].pid = q
        BY <2>0, <3>2, <4>1 DEF ListFits
      <4>3. k # l
        BY <1>2, <1>7, <1>11, <3>2, <4>2
      <4> QED BY <1>5, <4>2, <4>3
    <3>3. ASSUME NEW k \in Links, jlink'[k].ctx = "open", jlink'[k].known, ~jlink'[k].finish
          PROVE  jd'.mapCtxJdwp[jlink'[k].pid] = k \/ k \in jd'.turnedAway
      <4>1. k # l
        BY <1>5, <3>3
      <4>2. jlink'[k] = jlink[k] /\ jlink[k].pid \in Pids
        BY <1>0, <1>5, <3>3, <4>1, JdwpNoLink DEF AppsFit, LinkFits
      <4> QED BY <1>7, <2>0, <3>1, <3>3, <4>1, <4>2 DEF ListFits
    <3> QED BY <3>2, <3>3 DEF ListFits
  <2> QED BY <2>3, <2>4, <2>5 DEF Serving
<1> QED BY <1>7, <1>8, <1>9, <1>10, <1>11 DEF JdwpInv

\* ReadStream is one of the two.
LEMMA JdwpReadStream ==
  ASSUME JdwpInv, ReadStream
  PROVE  JdwpInv'
<1>1. PICK l : l = Head(jd.ready)
  OBVIOUS
<1>2. jd.pc \in {"up", "stopping"} /\ jd.ready # <<>> /\ l # 0 /\ UNCHANGED japp
  BY <1>1 DEF ReadStream
<1>3. CASE jlink[l].ctx = "open"
  BY <1>1, <1>2, <1>3, JdwpReadMessage, JdwpReadEnd DEF ReadStream
<1>4. CASE jlink[l].ctx # "open"
  <2>0. JdwpShape /\ AppsFit /\ TrackersCurrent
    BY DEF JdwpInv
  <2>1. jd' = [jd EXCEPT !.ready = Tail(jd.ready)] /\ UNCHANGED <<jlink, jtrack, japp>>
    BY <1>1, <1>4, <2>0 DEF ReadStream, JdwpShape
  <2>2. /\ DOMAIN jd' = DOMAIN jd /\ jd'.pc = jd.pc /\ jd'.backlog = jd.backlog /\ jd'.mapCtxJdwp = jd.mapCtxJdwp
        /\ jd'.ready = Tail(jd.ready)
    BY <2>0, <2>1 DEF JdwpShape
  <2>3. jd.pc = "stopping"
    <3> SUFFICES ASSUME jd.pc # "stopping" PROVE FALSE
      OBVIOUS
    <3>1. QueuesFit /\ jd.ready \in Seq(Links \cup {0})
      BY <2>0 DEF JdwpInv, Serving, JdwpShape
    <3>2. l \in Links /\ Contains(jd.ready, l)
      BY <1>1, <1>2, <3>1 DEF Contains
    <3> QED BY <1>4, <3>1, <3>2 DEF QueuesFit, QueueFits
  <2>4. jd'.ready \in Seq(Links \cup {0})
    BY <1>2, <2>0, <2>2 DEF JdwpShape
  <2>5. JdwpShape'
    BY <2>0, <2>1, <2>2, <2>4 DEF JdwpShape
  <2>6. AppsFit'
    BY <2>0, <2>1 DEF AppsFit, AppFits, LinkFits
  <2>7. TrackersCurrent'
    BY <2>0, <2>1, <2>2, JdwpStillTold
  <2> QED BY <2>2, <2>3, <2>5, <2>6, <2>7 DEF JdwpInv
<1> QED BY <1>3, <1>4

\* A freed context is deleted when nothing leads to it.
LEMMA JdwpContextDeleted ==
  ASSUME JdwpInv, NEW l \in Links, ContextDeleted(l)
  PROVE  JdwpInv'
<1> DEFINE S == ToSet(jd.ready) \ {l}
<1>0. JdwpShape /\ AppsFit /\ TrackersCurrent /\ UNCHANGED <<japp, jtrack>> /\ jlink[l].ctx = "open" /\ jlink[l].finish
  BY DEF JdwpInv, ContextDeleted
<1>1. PICK s \in Keep(jd.ready, S) : jd' = [jd EXCEPT !.turnedAway = @ \ {l}, !.ready = s]
  BY DEF ContextDeleted
<1>2. /\ DOMAIN jd' = DOMAIN jd /\ jd'.pc = jd.pc /\ jd'.backlog = jd.backlog /\ jd'.ready = s
      /\ jd'.mapCtxJdwp = jd.mapCtxJdwp /\ jd'.turnedAway = jd.turnedAway \ {l}
  BY <1>0, <1>1 DEF JdwpShape
<1>3. jd.ready \in Seq(Links \cup {0})
  BY <1>0 DEF JdwpShape
<1>4. \A k : k \in ToSet(jd.ready) <=> Contains(jd.ready, k)
  BY <1>3 DEF ToSet, Contains
<1>5. S \in SUBSET ToSet(jd.ready) /\ \A k : k \in S <=> Contains(jd.ready, k) /\ k # l
  BY <1>4
<1>6. /\ DOMAIN jlink' = Links /\ \A k \in Links \ {l} : jlink'[k] = jlink[k]
      /\ DOMAIN jlink'[l] = DOMAIN NoLink
      /\ \/ jlink[l].app = "closed" /\ jlink'[l] = NoLink
         \/ /\ jlink[l].app # "closed" /\ jlink'[l].app = jlink[l].app /\ jlink'[l].pid = jlink[l].pid
            /\ jlink'[l].msg = jlink[l].msg /\ jlink'[l].known = jlink[l].known
            /\ jlink'[l].finish = jlink[l].finish /\ jlink'[l].ctx = "deleted"
  BY <1>0 DEF ContextDeleted, JdwpShape, NoLink
<1> HIDE DEF S
<1>7. IsFiniteSet(S) /\ s \in Seq(Links \cup {0})
  BY <1>1, <1>3, <1>5, JdwpKept
<1>8. JdwpShape'
  <2>1. \A k \in Links : DOMAIN jlink'[k] = DOMAIN NoLink
    BY <1>0, <1>6 DEF JdwpShape
  <2> QED BY <1>0, <1>2, <1>6, <1>7, <2>1 DEF JdwpShape
<1>9. AppsFit'
  <2>1. ASSUME NEW k \in Links
        PROVE  LeavesApp(k)
    <3>1. LinkFits(k)
      BY <1>0 DEF AppsFit
    <3>2. CASE k = l
      BY <1>0, <1>6, <3>1, <3>2, JdwpNoLink DEF LinkFits, LeavesApp
    <3>3. CASE k # l
      BY <1>6, <3>1, <3>3 DEF LinkFits, LeavesApp
    <3> QED BY <3>2, <3>3
  <2> QED BY <1>0, <2>1, JdwpAppsKept
<1>10. TrackersCurrent'
  BY <1>0, <1>2, JdwpStillTold
<1>11. ASSUME jd.pc # "stopping" PROVE Serving'
  <2>0. QueuesFit /\ OldestFirst /\ ListFits /\ Once(jd.ready)
    BY <1>11 DEF JdwpInv, Serving, QueuesFit
  <2>1. /\ Once(s) /\ \A k : Contains(s, k) <=> Contains(jd.ready, k) /\ k # l
        /\ \A k, m : k # l /\ m # l /\ Ahead(jd.ready, k, m) => Ahead(s, k, m)
    <3>1. /\ Once(s) /\ \A k : Contains(s, k) <=> k \in S
          /\ \A k \in S, m \in S : Ahead(jd.ready, k, m) => Ahead(s, k, m)
      BY <1>1, <1>7, <2>0, JdwpKeep
    <3>2. \A k, m : Ahead(jd.ready, k, m) => Contains(jd.ready, k) /\ Contains(jd.ready, m)
      BY DEF Ahead, Contains
    <3> QED BY <1>5, <3>1, <3>2
  <2>2. ~Contains(jd.backlog, l)
    BY <1>0, <2>0 DEF QueuesFit, QueueFits
  <2>3. QueuesFit'
    <3>1. ASSUME NEW k \in Links, k # l PROVE QueueFits(k)'
      BY <1>0, <1>2, <1>6, <2>0, <2>1, <3>1 DEF QueuesFit, QueueFits
    <3>2. QueueFits(l)'
      <4>1. ~Contains(jd'.ready, l) /\ ~Contains(jd'.backlog, l)
        BY <1>2, <2>1, <2>2
      <4>2. CASE jlink'[l] = NoLink
        BY <4>1, <4>2, JdwpNoLink DEF QueueFits
      <4>3. CASE jlink'[l].ctx = "deleted"
        BY <4>1, <4>3 DEF QueueFits
      <4> QED BY <1>6, <4>2, <4>3
    <3>3. \A k \in Links : QueueFits(k)'
      BY <3>1, <3>2
    <3> QED BY <1>2, <2>0, <2>1, <3>3 DEF QueuesFit
  <2>4. OldestFirst'
    <3> SUFFICES ASSUME NEW k \in Links, NEW m \in Links, k # m, jlink'[k].pid = jlink'[m].pid, Unread(k)', Unread(m)'
                 PROVE  Before(k, m)' \/ Before(m, k)'
      BY DEF OldestFirst
    <3>1. k # l /\ m # l
      BY <1>6, JdwpNoLink DEF Unread
    <3>2. Unread(k) /\ Unread(m) /\ jlink[k].pid = jlink[m].pid
      BY <1>6, <3>1 DEF Unread
    <3>3. ASSUME NEW a \in Links, NEW b \in Links, Before(a, b), a # l, b # l PROVE Before(a, b)'
      BY <1>2, <1>6, <2>1, <3>3 DEF Before
    <3> QED BY <2>0, <3>1, <3>2, <3>3 DEF OldestFirst
  <2>5. ListFits'
    <3>1. \A q \in Pids : jd.mapCtxJdwp[q] # l
      BY <1>0, <2>0, JdwpLinks DEF ListFits
    <3>2. ~(jlink'[l].ctx = "open")
      BY <1>6, JdwpNoLink
    <3> QED BY <1>2, <1>6, <2>0, <3>1, <3>2 DEF ListFits
  <2> QED BY <2>3, <2>4, <2>5 DEF Serving
<1> QED BY <1>2, <1>8, <1>9, <1>10, <1>11 DEF JdwpInv

\* Listening and setting the parameter change no context.
LEMMA JdwpStarts ==
  ASSUME JdwpInv, JdwpListen \/ SetDevItem
  PROVE  JdwpInv'
<1>0. JdwpShape /\ AppsFit /\ TrackersCurrent /\ jd.pc # "stopping" /\ UNCHANGED <<jlink, jtrack>>
  BY DEF JdwpInv, JdwpListen, SetDevItem
<1>1. /\ DOMAIN jd' = DOMAIN jd /\ jd'.pc \in {"listening", "up"} /\ jd'.backlog = jd.backlog /\ jd'.ready = jd.ready
      /\ jd'.mapCtxJdwp = jd.mapCtxJdwp /\ jd'.turnedAway = jd.turnedAway
  BY <1>0 DEF JdwpListen, SetDevItem, JdwpShape
<1>2. /\ DOMAIN japp' = Pids
      /\ \A p \in Pids : /\ DOMAIN japp'[p] = DOMAIN NoApp(0, 0)
                          /\ japp'[p].pc = japp[p].pc /\ japp'[p].link = japp[p].link /\ japp'[p].pkg = japp[p].pkg
                          /\ japp'[p].disconnectFlag = japp[p].disconnectFlag
  BY <1>0 DEF JdwpListen, SetDevItem, JdwpShape, NoApp
<1>3. JdwpShape'
  BY <1>0, <1>1, <1>2 DEF JdwpShape
<1>4. AppsFit'
  BY <1>0, <1>2 DEF AppsFit, AppFits, LinkFits
<1>5. TrackersCurrent'
  BY <1>0, <1>1, <1>2, JdwpStillTold
<1>6. \A k \in Links : jlink[k].app = "open" => jlink[k].pid \in Pids
  BY <1>0 DEF AppsFit, LinkFits
<1> QED BY <1>0, <1>1, <1>2, <1>3, <1>4, <1>5, <1>6, JdwpQuiet

\* Stop clears the list and tells the trackers.
LEMMA JdwpStop ==
  ASSUME JdwpInv, Stop
  PROVE  JdwpInv'
<1> DEFINE S == ToSet(jd.ready) \ {0}
<1>0. JdwpShape /\ AppsFit /\ TrackersCurrent /\ UNCHANGED japp /\ jtrack' = ProcessListUpdated(jd'.mapCtxJdwp)
      /\ jd.pc = "up" /\ ListFits
  BY DEF JdwpInv, Stop, Serving
<1>1. PICK s \in Keep(jd.ready, S) :
        jd' = [jd EXCEPT !.pc = "stopping", !.mapCtxJdwp = [p \in Pids |-> 0], !.ready = s]
  BY DEF Stop
<1>2. /\ DOMAIN jd' = DOMAIN jd /\ jd'.pc = "stopping" /\ jd'.backlog = jd.backlog /\ jd'.ready = s
      /\ DOMAIN jd'.mapCtxJdwp = Pids
  BY <1>0, <1>1 DEF JdwpShape
<1>3. s \in Seq(Links \cup {0})
  <2>1. jd.ready \in Seq(Links \cup {0}) /\ S \in SUBSET ToSet(jd.ready)
    BY <1>0 DEF JdwpShape
  <2> QED BY <1>1, <2>1, JdwpKept
<1>4. /\ DOMAIN jlink' = Links
      /\ \A k \in Links : \/ jlink'[k] = jlink[k] /\ DOMAIN jlink'[k] = DOMAIN NoLink
                          \/ /\ jlink[k].ctx = "open" /\ DOMAIN jlink'[k] = DOMAIN NoLink
                             /\ jlink'[k].app = jlink[k].app /\ jlink'[k].pid = jlink[k].pid
                             /\ jlink'[k].msg = jlink[k].msg /\ jlink'[k].known = jlink[k].known
                             /\ jlink'[k].finish = TRUE /\ jlink'[k].ctx = jlink[k].ctx
  <2>1. DOMAIN jlink' = Links
    BY DEF Stop
  <2>2. ASSUME NEW k \in Links, \E p \in Pids : jd.mapCtxJdwp[p] = k
        PROVE  jlink[k].ctx = "open" /\ jlink'[k] = [jlink[k] EXCEPT !.finish = TRUE]
    BY <1>0, <2>2, JdwpLinks DEF Stop, ListFits
  <2>3. ASSUME NEW k \in Links, ~\E p \in Pids : jd.mapCtxJdwp[p] = k
        PROVE  jlink'[k] = jlink[k]
    BY <2>3 DEF Stop
  <2>4. \A k \in Links : DOMAIN jlink[k] = DOMAIN NoLink
    BY <1>0 DEF JdwpShape
  <2> QED BY <2>1, <2>2, <2>3, <2>4 DEF NoLink
<1>5. TrackersCurrent' /\ DOMAIN jtrack' = Trackers /\ \A t \in Trackers : DOMAIN jtrack'[t] = DOMAIN NoTracker
  BY <1>0, JdwpTold
<1>6. JdwpShape'
  <2>1. \A k \in Links : DOMAIN jlink'[k] = DOMAIN NoLink
    BY <1>4
  <2> QED BY <1>0, <1>2, <1>3, <1>4, <1>5, <2>1 DEF JdwpShape
<1>7. AppsFit'
  <2>1. ASSUME NEW k \in Links PROVE LeavesApp(k)
    <3>1. LinkFits(k)
      BY <1>0 DEF AppsFit
    <3> QED BY <1>4, <3>1, JdwpNoLink DEF LinkFits, LeavesApp
  <2> QED BY <1>0, <2>1, JdwpAppsKept
<1> QED BY <1>2, <1>5, <1>6, <1>7 DEF JdwpInv

\* The daemon's end closes every connection; the next daemon begins with an empty list.
LEMMA JdwpDaemonExits ==
  ASSUME JdwpInv, DaemonExits
  PROVE  JdwpInv'
<1>0. JdwpShape /\ AppsFit /\ UNCHANGED japp
  BY DEF JdwpInv, DaemonExits
<1>1. /\ DOMAIN jd' = DOMAIN jd /\ jd'.pc = "down" /\ jd'.backlog = <<>> /\ jd'.ready = <<>>
      /\ jd'.mapCtxJdwp = [p \in Pids |-> 0]
  BY <1>0 DEF DaemonExits, JdwpShape
<1>2. /\ DOMAIN jlink' = Links
      /\ \A k \in Links : IF jlink[k].app = "open"
                          THEN /\ DOMAIN jlink'[k] = DOMAIN NoLink /\ jlink'[k].ctx = "deleted"
                               /\ jlink'[k].app = jlink[k].app /\ jlink'[k].pid = jlink[k].pid
                               /\ jlink'[k].msg = jlink[k].msg /\ jlink'[k].known = jlink[k].known
                               /\ jlink'[k].finish = jlink[k].finish
                          ELSE jlink'[k] = NoLink
  BY <1>0 DEF DaemonExits, JdwpShape, NoLink
<1>3. jtrack' = [t \in Trackers |-> NoTracker]
  BY DEF DaemonExits
<1>4. JdwpShape'
  <2>1. \A k \in Links : DOMAIN jlink'[k] = DOMAIN NoLink
    BY <1>2
  <2>2. jd'.ready \in Seq(Links \cup {0}) /\ jd'.backlog \in Seq(Links)
    BY <1>1
  <2> QED BY <1>0, <1>1, <1>2, <1>3, <2>1, <2>2 DEF JdwpShape
<1>5. AppsFit'
  <2>1. ASSUME NEW k \in Links PROVE LeavesApp(k)
    <3>1. LinkFits(k)
      BY <1>0 DEF AppsFit
    <3> QED BY <1>2, <3>1 DEF LinkFits, LeavesApp
  <2> QED BY <1>0, <2>1, JdwpAppsKept
<1>6. TrackersCurrent'
  BY <1>3 DEF TrackersCurrent, NoTracker
<1>7. QueuesFit'
  <2>1. (\A k : ~Contains(jd'.ready, k) /\ ~Contains(jd'.backlog, k)) /\ Once(jd'.ready) /\ Once(jd'.backlog)
    BY <1>1 DEF Contains, Once
  <2>2. ASSUME NEW k \in Links PROVE QueueFits(k)'
    <3>1. CASE jlink[k].app = "open"
      BY <1>2, <2>1, <3>1 DEF QueueFits
    <3>2. CASE jlink[k].app # "open"
      BY <1>2, <2>1, <3>2, JdwpNoLink DEF QueueFits
    <3> QED BY <3>1, <3>2
  <2> QED BY <2>1, <2>2 DEF QueuesFit
<1>8. \A k \in Links : ~Unread(k)' /\ jlink'[k].ctx # "open"
  BY <1>2, JdwpNoLink DEF Unread
<1>9. OldestFirst' /\ ListFits'
  BY <1>1, <1>8 DEF OldestFirst, ListFits
<1> QED BY <1>4, <1>5, <1>6, <1>7, <1>9 DEF JdwpInv, Serving

\* A descriptor goes to the context that the list has for the process.
LEMMA JdwpSendNewFD ==
  ASSUME JdwpInv, NEW p \in Pids, SendNewFD(p)
  PROVE  JdwpInv'
<1>0. JdwpShape /\ AppsFit /\ TrackersCurrent /\ ListFits /\ UNCHANGED <<jd, japp, jtrack>>
  BY DEF JdwpInv, Serving, SendNewFD
<1>1. PICK l : l = jd.mapCtxJdwp[p]
  OBVIOUS
<1>2. l \in Links /\ jlink[l].ctx = "open" /\ jlink' = [jlink EXCEPT ![l].fd = (jlink[l].app = "open")]
  BY <1>0, <1>1 DEF SendNewFD, CheckPIDExist, ListFits
<1>3. /\ DOMAIN jlink' = Links
      /\ \A k \in Links : /\ DOMAIN jlink'[k] = DOMAIN NoLink
                          /\ jlink'[k].app = jlink[k].app /\ jlink'[k].pid = jlink[k].pid
                          /\ jlink'[k].msg = jlink[k].msg /\ jlink'[k].ctx = jlink[k].ctx
                          /\ jlink'[k].known = jlink[k].known /\ jlink'[k].finish = jlink[k].finish
                          /\ jlink[k].ctx = "none" => jlink'[k] = jlink[k]
  BY <1>0, <1>2 DEF JdwpShape, NoLink
<1>4. JdwpShape'
  BY <1>0, <1>3 DEF JdwpShape, NoApp
<1>5. AppsFit'
  <2>1. ASSUME NEW k \in Links PROVE LeavesApp(k)
    <3>1. LinkFits(k)
      BY <1>0 DEF AppsFit
    <3> QED BY <1>3, <3>1, JdwpNoLink DEF LinkFits, LeavesApp
  <2> QED BY <1>0, <2>1, JdwpAppsKept
<1>6. TrackersCurrent'
  BY <1>0, JdwpStillTold
<1> QED BY <1>0, <1>3, <1>4, <1>5, <1>6, JdwpQuiet

\* A tracker is told the list when it is created.
LEMMA JdwpTrackers ==
  ASSUME JdwpInv, NEW t \in Trackers, CreateJdwpTracker(t) \/ TrackerStops(t) \/ RemoveJdwpTracker(t)
  PROVE  JdwpInv'
<1>0. JdwpShape /\ AppsFit /\ TrackersCurrent /\ UNCHANGED <<jd, japp, jlink>>
  BY DEF JdwpInv, CreateJdwpTracker, TrackerStops, RemoveJdwpTracker
<1>1. /\ DOMAIN jtrack' = Trackers /\ DOMAIN jtrack'[t] = DOMAIN NoTracker
      /\ \A u \in Trackers \ {t} :
           /\ DOMAIN jtrack'[u] = DOMAIN jtrack[u] /\ jtrack'[u].st = jtrack[u].st /\ jtrack'[u].dr = jtrack[u].dr
           /\ jtrack'[u].last = jtrack[u].last /\ jtrack'[u].missed = jtrack[u].missed
      /\ jtrack'[t].st = "tracks" /\ ~jtrack'[t].missed =>
           LET list == GetProcessList(jd.mapCtxJdwp, jtrack'[t].dr)
           IN  Cardinality(list) > MaxList \/ jtrack'[t].last = list
  <2>1. CASE CreateJdwpTracker(t)
    <3>1. PICK dr \in {0, 1} : jtrack' = [jtrack EXCEPT ![t] =
             JdwpProcessListMsg([NoTracker EXCEPT !.st = "tracks", !.dr = dr, !.ahead = InVector], jd.mapCtxJdwp)]
      BY <2>1 DEF CreateJdwpTracker
    <3> QED BY <1>0, <3>1 DEF JdwpShape, JdwpProcessListMsg, NoTracker
  <2>2. CASE TrackerStops(t)
    BY <1>0, <2>2 DEF TrackerStops, JdwpShape, NoTracker
  <2>3. CASE RemoveJdwpTracker(t)
    <3>1. \A u \in Trackers : DOMAIN jtrack[u] = {"st", "dr", "last", "ahead", "missed"}
      BY <1>0 DEF JdwpShape, NoTracker
    <3>2. jtrack' = [u \in Trackers |-> IF u = t THEN NoTracker ELSE [jtrack[u] EXCEPT !.ahead = @ \ {t}]]
      BY <2>3 DEF RemoveJdwpTracker, NotBehind
    <3>3. jtrack'[t] = NoTracker /\ \A u \in Trackers \ {t} : jtrack'[u] = [jtrack[u] EXCEPT !.ahead = @ \ {t}]
      BY <3>2
    <3> QED BY <3>1, <3>2, <3>3 DEF NoTracker
  <2> QED BY <2>1, <2>2, <2>3
<1>2. JdwpShape'
  <2>1. \A u \in Trackers : DOMAIN jtrack'[u] = DOMAIN NoTracker
    BY <1>0, <1>1 DEF JdwpShape
  <2> QED BY <1>0, <1>1, <2>1 DEF JdwpShape, NoApp
<1>3. AppsFit'
  BY <1>0 DEF AppsFit, AppFits, LinkFits
<1>4. TrackersCurrent'
  <2>1. \A dr : GetProcessList(jd.mapCtxJdwp, dr)' = GetProcessList(jd.mapCtxJdwp, dr)
    BY <1>0 DEF GetProcessList
  <2>2. ASSUME NEW u \in Trackers, u # t, jtrack'[u].st = "tracks", ~jtrack'[u].missed
        PROVE  LET list == GetProcessList(jd.mapCtxJdwp, jtrack'[u].dr)
               IN  Cardinality(list) > MaxList \/ jtrack'[u].last = list
    BY <1>0, <1>1, <2>2 DEF TrackersCurrent
  <2>3. \A u \in Trackers : jtrack'[u].st = "tracks" /\ ~jtrack'[u].missed =>
          LET list == GetProcessList(jd.mapCtxJdwp, jtrack'[u].dr)
          IN  Cardinality(list) > MaxList \/ jtrack'[u].last = list
    BY <1>1, <2>2
  <2> QED BY <1>0, <2>1, <2>3 DEF TrackersCurrent, GetProcessList
<1> QED BY <1>0, <1>2, <1>3, <1>4, JdwpQuiet
-----------------------------------------------------------------------------
(* The theorem                                                             *)

\* Nothing is connected at first.
LEMMA JdwpFirst == JdwpInit => JdwpInv
<1> SUFFICES ASSUME NEW sc \in Scenarios, JdwpStart(sc) PROVE JdwpInv
  BY DEF JdwpInit
<1>1. /\ jd.pc = "down" /\ jd.ready = <<>> /\ jd.backlog = <<>> /\ jd.mapCtxJdwp = [p \in Pids |-> 0]
      /\ DOMAIN jd = {"pc", "ready", "backlog", "mapCtxJdwp", "starts", "tracks", "maxMapSize", "turnedAway"}
      /\ DOMAIN japp = Pids /\ DOMAIN jlink = Links /\ DOMAIN jtrack = Trackers
      /\ \A l \in Links : jlink[l] = NoLink
      /\ \A t \in Trackers : jtrack[t] = NoTracker /\ jtrack[t].st = "none"
      /\ \A p \in Pids : DOMAIN japp[p] = DOMAIN NoApp(0, 0) /\ japp[p].link = 0 /\ japp[p].pc = "off"
  BY DEF JdwpStart, NoApp, NoTracker
<1>2. JdwpShape
  <2>1. <<>> \in Seq(Links) /\ <<>> \in Seq(Links \cup {0})
    OBVIOUS
  <2> QED BY <1>1, <2>1 DEF JdwpShape
<1>3. AppsFit
  BY <1>1, JdwpNoLink DEF AppsFit, AppFits, LinkFits
<1>4. TrackersCurrent
  BY <1>1 DEF TrackersCurrent
<1>5. QueuesFit
  BY <1>1, JdwpNoLink DEF QueuesFit, QueueFits, Contains, Once
<1>6. OldestFirst /\ ListFits
  BY <1>1, JdwpNoLink DEF OldestFirst, ListFits, Unread
<1> QED BY <1>2, <1>3, <1>4, <1>5, <1>6 DEF JdwpInv, Serving

\* Every step keeps the inductive invariant.
LEMMA JdwpStep == JdwpInv /\ [JdwpNext]_jdwpVars => JdwpInv'
<1> SUFFICES ASSUME JdwpInv, [JdwpNext]_jdwpVars PROVE JdwpInv'
  OBVIOUS
<1>1. CASE UNCHANGED jdwpVars
  BY <1>1 DEF jdwpVars, JdwpInv, JdwpShape, AppsFit, AppFits, LinkFits, TrackersCurrent, GetProcessList, Serving,
              QueuesFit, QueueFits, OldestFirst, Unread, Before, ListFits
<1>2. CASE DaemonStep
  BY <1>2, JdwpAccept, JdwpReadStream, JdwpContextDeleted DEF DaemonStep
<1>3. CASE JdwpListen \/ SetDevItem
  BY <1>3, JdwpStarts
<1>4. CASE Stop
  BY <1>4, JdwpStop
<1>5. CASE DaemonExits
  BY <1>5, JdwpDaemonExits
<1>6. ASSUME NEW p \in Pids, SendNewFD(p) \/ StartConnect(p) \/ SimulatorStep(p) \/ Disconnect(p) \/ AppDies(p)
      PROVE  JdwpInv'
  BY <1>6, JdwpSendNewFD, JdwpStartConnect, JdwpConnects, JdwpWaits, JdwpSends, JdwpReads, JdwpEnds DEF SimulatorStep
<1>7. ASSUME NEW t \in Trackers, CreateJdwpTracker(t) \/ TrackerStops(t) \/ RemoveJdwpTracker(t)
      PROVE  JdwpInv'
  BY <1>7, JdwpTrackers
<1> QED BY <1>1, <1>2, <1>3, <1>4, <1>5, <1>6, <1>7 DEF JdwpNext

\* For any number of processes, connections and trackers: the daemon's list leads only to
\* an undeleted context of that process, it is exactly the connected processes once everything
\* that is ready has been served (those turned away from a full list excepted), and every
\* tracker has been told the list as it is.
THEOREM DebuggersListed == JdwpSpec => []JdwpSafe
<1>1. ASSUME JdwpInv PROVE JdwpSafe
  <2>0. JdwpShape /\ AppsFit /\ TrackersCurrent
    BY <1>1 DEF JdwpInv
  <2>1. ListLeadsToContext
    BY <1>1 DEF JdwpInv, Serving, ListFits, ListLeadsToContext
  <2>2. ListIsConnected
    <3> SUFFICES ASSUME jd.pc = "up", jd.ready = <<>>, NEW l \in Links
                 PROVE  /\ (jlink[l].ctx = "open" /\ jlink[l].known /\ jlink[l].app = "open")
                             => jd.mapCtxJdwp[jlink[l].pid] = l \/ l \in jd.turnedAway
                        /\ jlink[l].app = "closed" => \A p \in Pids : jd.mapCtxJdwp[p] # l
      BY DEF ListIsConnected
    <3>1. QueueFits(l) /\ ListFits /\ ~Contains(jd.ready, l) /\ l # 0
      BY <1>1, JdwpLinks DEF JdwpInv, Serving, QueuesFit, Contains
    <3> QED BY <3>1 DEF QueueFits, ListFits
  <2> QED BY <2>0, <2>1, <2>2 DEF JdwpSafe
<1> QED BY <1>1, JdwpFirst, JdwpStep, PTL DEF JdwpSpec

=============================================================================
