-------------------------- MODULE HdcSession_proofs --------------------------
(***************************************************************************)
(* Proofs about HdcSession, for any sets of sessions and threads: IInv is  *)
(* an inductive invariant, the safety properties follow from it, and the   *)
(* specification implements SessionLife.                                   *)
(*                                                                         *)
(* The proof that a step preserves a part of IInv looks at one session (or *)
(* sender) q: a step of another session leaves it alone, a step of q has   *)
(* the effect at q that step <3>1 spells out.                              *)
(***************************************************************************)
EXTENDS HdcSession, FiniteSetTheorems, SequenceTheorems, TLAPS

\* The initial states satisfy the inductive invariant.
LEMMA InitIInv == Init => IInv
<1> SUFFICES ASSUME Init PROVE IInv
  OBVIOUS
<1> USE SessionAssumption
<1>1. TypeOK
  BY DEF Init, TypeOK, Message, Sender, Handle
<1>2. MapInv /\ PipeInv /\ HandleInv /\ WorkerInv /\ CtrlInv
  BY DEF Init, MapInv, PipeInv, PipeOf, HandleInv, HandleOf, WorkerInv,
         WorkerOf, CtrlInv, CtrlOf, Started, Stopped,
         Handle
<1>3. HolderInv
  BY DEF Init, HolderInv, HolderOf
<1>4. RefInv
  <2> SUFFICES ASSUME NEW s \in Session PROVE RefOf(s)
    BY DEF RefInv
  <2>1. Holders(s) = {}
    BY DEF Init, Holders
  <2>2. QED
    BY <2>1, FS_EmptySet DEF Init, RefOf
<1>5. CountInv
  <2>1. Accounted = {}
    BY DEF Init, Accounted
  <2>2. QED
    BY <2>1, FS_EmptySet DEF Init, CountInv
<1>6. QED
  BY <1>1, <1>2, <1>3, <1>4, <1>5 DEF IInv

\* mapSession holds exactly the sessions that exist.
LEMMA MapStep == IInv /\ [Next]_vars => MapInv'
<1> SUFFICES ASSUME IInv, [Next]_vars PROVE MapInv'
  OBVIOUS
<1> USE SessionAssumption DEF IInv, TypeOK, MapInv
<1>1. ASSUME NEW s \in Session, MallocSessionFail(s) PROVE MapInv'
  BY <1>1 DEF MallocSessionFail
<1>2. ASSUME NEW s \in Session, ConnectDaemon(s) PROVE MapInv'
  BY <1>2 DEF ConnectDaemon, MallocSession
<1>3. ASSUME NEW s \in Session, AcceptClient(s) PROVE MapInv'
  BY <1>3 DEF AcceptClient, MallocSession
<1>4. ASSUME NEW s \in Session, AcceptClientFail(s) PROVE MapInv'
  BY <1>4 DEF AcceptClientFail, MallocSession
<1>5. ASSUME NEW s \in Session, FreeSessionFinally(s) PROVE MapInv'
  BY <1>5 DEF FreeSessionFinally
<1>6. CASE UNCHANGED <<mem, mapSession>>
  BY <1>6
<1>7. QED
  BY <1>1, <1>2, <1>3, <1>4, <1>5, <1>6
     DEF Next, Create, MainStep, MainLoop, WorkerStep, Environment, vars,
         memVars, ConnectOk, ConnectFail, AsyncFreeSession,
         FreeSessionOpeateStop, FreeSessionOpeateDirect,
         CheckFreeSessionContinue, MainCloseCallbacks, MainAsyncCallback,
         AsyncStopMainLoop, ClearSessions, ReMainLoopForInstanceClear,
         SessionWorkThread, WorkerUseAfterFree, ReadCtrlFromMain,
         WorkThreadStartSession, WorkThreadStartSessionFail, StopSession,
         ChildCloseCallback, WorkerFinish, FreeSession, PushFreeSession,
         PostStopInstanceMessage, ReadStreamError, WorkerSend, ThreadSend,
         SendEnd

\* Every step moves a session at most one stage along the free pipeline.
LEMMA PipeStep == IInv /\ [Next]_vars => PipeInv'
<1> SUFFICES ASSUME IInv, [Next]_vars, NEW q \in Session
             PROVE  PipeOf(q)'
  BY DEF PipeInv
<1>0. TypeOK /\ MapInv /\ PipeOf(q)
  BY DEF IInv, PipeInv
<1>1. /\ opTimer[q] \in Nat /\ waitTimer[q] \in Nat /\ finIdle[q] \in Nat
      /\ isDead[q] \in BOOLEAN
  BY <1>0 DEF TypeOK
<1>2. ASSUME NEW s \in Session, MallocSessionFail(s) PROVE PipeOf(q)'
  <2>1. CASE q # s
    BY <1>0, <1>2, <2>1 DEF TypeOK, PipeOf, MallocSessionFail, freeVars
  <2>2. CASE q = s
    <3>1. /\ mem[q] = "none" /\ mem'[q] = "torn"
          /\ UNCHANGED <<isDead, opTimer, waitTimer, finIdle, freedBy>>
      BY <1>0, <1>2, <2>2 DEF TypeOK, MallocSessionFail, freeVars
    <3>2. QED
      BY <1>0, <1>1, <3>1 DEF PipeOf
  <2>3. QED
    BY <2>1, <2>2
<1>3. ASSUME NEW s \in Session, ConnectDaemon(s) PROVE PipeOf(q)'
  <2>1. CASE q # s
    BY <1>0, <1>3, <2>1 DEF TypeOK, PipeOf, ConnectDaemon, MallocSession, freeVars
  <2>2. CASE q = s
    <3>1. /\ mem[q] = "none" /\ mem'[q] = "live"
          /\ UNCHANGED <<isDead, opTimer, waitTimer, finIdle, freedBy>>
      BY <1>0, <1>3, <2>2 DEF TypeOK, ConnectDaemon, MallocSession, freeVars
    <3>2. QED
      BY <1>0, <1>1, <3>1 DEF PipeOf
  <2>3. QED
    BY <2>1, <2>2
<1>4. ASSUME NEW s \in Session, AcceptClient(s) PROVE PipeOf(q)'
  <2>1. CASE q # s
    BY <1>0, <1>4, <2>1 DEF TypeOK, PipeOf, AcceptClient, MallocSession, freeVars
  <2>2. CASE q = s
    <3>1. /\ mem[q] = "none" /\ mem'[q] = "live"
          /\ UNCHANGED <<isDead, opTimer, waitTimer, finIdle, freedBy>>
      BY <1>0, <1>4, <2>2 DEF TypeOK, AcceptClient, MallocSession, freeVars
    <3>2. QED
      BY <1>0, <1>1, <3>1 DEF PipeOf
  <2>3. QED
    BY <2>1, <2>2
<1>5. ASSUME NEW s \in Session, AcceptClientFail(s) PROVE PipeOf(q)'
  <2>1. CASE q # s
    BY <1>0, <1>5, <2>1 DEF TypeOK, PipeOf, AcceptClientFail, MallocSession
  <2>2. CASE q = s
    <3>1. /\ mem[q] = "none" /\ mem'[q] = "live"
          /\ isDead'[q] = TRUE /\ opTimer'[q] = opTimer[q] + 1
          /\ UNCHANGED <<waitTimer, finIdle, freedBy>>
      BY <1>0, <1>5, <2>2 DEF TypeOK, AcceptClientFail, MallocSession
    <3>2. QED
      BY <1>0, <1>1, <3>1 DEF PipeOf
  <2>3. QED
    BY <2>1, <2>2
<1>6. ASSUME NEW s \in Session, ConnectFail(s) PROVE PipeOf(q)'
  <2>1. CASE q # s
    BY <1>0, <1>6, <2>1 DEF TypeOK, PipeOf, ConnectFail, MarkDead, MapInv, memVars
  <2>2. CASE q = s
    <3>1. /\ UNCHANGED <<mem, waitTimer, finIdle, freedBy>>
          /\ \/ isDead'[q] = isDead[q] /\ opTimer'[q] = opTimer[q]
             \/ /\ mem[q] = "live" /\ ~isDead[q]
                /\ isDead'[q] = TRUE /\ opTimer'[q] = opTimer[q] + 1
      BY <1>0, <1>6, <2>2 DEF TypeOK, ConnectFail, MarkDead, MapInv, memVars
    <3>2. QED
      BY <1>0, <1>1, <3>1 DEF PipeOf
  <2>3. QED
    BY <2>1, <2>2
<1>7. ASSUME NEW s \in Session, AsyncFreeSession(s) PROVE PipeOf(q)'
  <2>1. CASE q # s
    BY <1>0, <1>7, <2>1 DEF TypeOK, PipeOf, AsyncFreeSession, MarkDead, MapInv, memVars
  <2>2. CASE q = s
    <3>1. /\ UNCHANGED <<mem, waitTimer, finIdle, freedBy>>
          /\ \/ isDead'[q] = isDead[q] /\ opTimer'[q] = opTimer[q]
             \/ /\ mem[q] = "live" /\ ~isDead[q]
                /\ isDead'[q] = TRUE /\ opTimer'[q] = opTimer[q] + 1
      BY <1>0, <1>7, <2>2 DEF TypeOK, AsyncFreeSession, MarkDead, MapInv, memVars
    <3>2. QED
      BY <1>0, <1>1, <3>1 DEF PipeOf
  <2>3. QED
    BY <2>1, <2>2
<1>8. ASSUME NEW s \in Session, FreeSession(s) PROVE PipeOf(q)'
  <2>1. CASE q # s
    BY <1>0, <1>8, <2>1 DEF TypeOK, PipeOf, FreeSession, MarkDead, MapInv, memVars
  <2>2. CASE q = s
    <3>1. /\ UNCHANGED <<mem, waitTimer, finIdle, freedBy>>
          /\ \/ isDead'[q] = isDead[q] /\ opTimer'[q] = opTimer[q]
             \/ /\ mem[q] = "live" /\ ~isDead[q]
                /\ isDead'[q] = TRUE /\ opTimer'[q] = opTimer[q] + 1
      BY <1>0, <1>8, <2>2 DEF TypeOK, FreeSession, MarkDead, MapInv, memVars
    <3>2. QED
      BY <1>0, <1>1, <3>1 DEF PipeOf
  <2>3. QED
    BY <2>1, <2>2
<1>9. ASSUME ClearSessions PROVE PipeOf(q)'
  <2>1. UNCHANGED <<mem, waitTimer, finIdle, freedBy>>
    BY <1>9 DEF ClearSessions, memVars
  <2>2. CASE q \in Broadcast
    <3>1. /\ mem[q] = "live" /\ ~isDead[q]
          /\ isDead'[q] = TRUE /\ opTimer'[q] = opTimer[q] + 1
      BY <1>0, <1>9, <2>2 DEF ClearSessions, Broadcast, MapInv
    <3>2. QED
      BY <1>0, <1>1, <2>1, <3>1 DEF PipeOf
  <2>3. CASE q \notin Broadcast
    <3>1. isDead'[q] = isDead[q] /\ opTimer'[q] = opTimer[q]
      BY <1>0, <1>9, <2>3 DEF ClearSessions, TypeOK
    <3>2. QED
      BY <1>0, <1>1, <2>1, <3>1 DEF PipeOf
  <2>4. QED
    BY <2>2, <2>3
<1>10. ASSUME NEW s \in Session, FreeSessionOpeateStop(s) PROVE PipeOf(q)'
  <2>1. CASE q # s
    BY <1>0, <1>10, <2>1 DEF TypeOK, PipeOf, FreeSessionOpeateStop, memVars
  <2>2. CASE q = s
    <3>1. /\ opTimer[q] > 0 /\ opTimer'[q] = opTimer[q] - 1
          /\ waitTimer'[q] = waitTimer[q] + 1 /\ freedBy'[q] = "stop"
          /\ UNCHANGED <<mem, finIdle, isDead>>
      BY <1>0, <1>10, <2>2 DEF TypeOK, FreeSessionOpeateStop, memVars
    <3>2. QED
      BY <1>0, <1>1, <3>1 DEF PipeOf
  <2>3. QED
    BY <2>1, <2>2
<1>11. ASSUME NEW s \in Session, FreeSessionOpeateDirect(s) PROVE PipeOf(q)'
  <2>1. CASE q # s
    BY <1>0, <1>11, <2>1 DEF TypeOK, PipeOf, FreeSessionOpeateDirect, FreeSessionContinue,
           memVars
  <2>2. CASE q = s
    <3>1. /\ opTimer[q] > 0 /\ opTimer'[q] = opTimer[q] - 1
          /\ finIdle'[q] = finIdle[q] + 1 /\ freedBy'[q] = "direct"
          /\ UNCHANGED <<mem, waitTimer, isDead>>
      BY <1>0, <1>11, <2>2 DEF TypeOK, FreeSessionOpeateDirect, FreeSessionContinue, memVars
    <3>2. QED
      BY <1>0, <1>1, <3>1 DEF PipeOf
  <2>3. QED
    BY <2>1, <2>2
<1>12. ASSUME NEW s \in Session, CheckFreeSessionContinue(s) PROVE PipeOf(q)'
  <2>1. CASE q # s
    BY <1>0, <1>12, <2>1 DEF TypeOK, PipeOf, CheckFreeSessionContinue, FreeSessionContinue,
           memVars
  <2>2. CASE q = s
    <3>1. /\ waitTimer[q] > 0 /\ waitTimer'[q] = waitTimer[q] - 1
          /\ finIdle'[q] = finIdle[q] + 1
          /\ UNCHANGED <<mem, opTimer, isDead, freedBy>>
      BY <1>0, <1>12, <2>2 DEF TypeOK, CheckFreeSessionContinue, FreeSessionContinue, memVars
    <3>2. QED
      BY <1>0, <1>1, <3>1 DEF PipeOf
  <2>3. QED
    BY <2>1, <2>2
<1>13. ASSUME NEW s \in Session, FreeSessionFinally(s) PROVE PipeOf(q)'
  <2>1. CASE q # s
    BY <1>0, <1>13, <2>1 DEF TypeOK, PipeOf, FreeSessionFinally
  <2>2. CASE q = s
    <3>1. /\ finIdle[q] > 0 /\ finIdle'[q] = finIdle[q] - 1
          /\ mem'[q] = "freed"
          /\ UNCHANGED <<opTimer, waitTimer, isDead, freedBy>>
      BY <1>0, <1>13, <2>2 DEF TypeOK, FreeSessionFinally
    <3>2. QED
      BY SMTT(30), <1>0, <1>1, <3>1 DEF PipeOf
  <2>3. QED
    BY <2>1, <2>2
<1>14. CASE UNCHANGED <<mem, freeVars>>
  BY <1>0, <1>14 DEF PipeOf, freeVars
<1>15. QED
  BY <1>2, <1>3, <1>4, <1>5, <1>6, <1>7, <1>8, <1>9, <1>10, <1>11, <1>12,
     <1>13, <1>14
     DEF Next, Create, MainStep, MainLoop, WorkerStep, Environment, vars,
         memVars, freeVars, ConnectOk, MainCloseCallbacks,
         MainAsyncCallback, AsyncStopMainLoop, ReMainLoopForInstanceClear,
         SessionWorkThread, WorkerUseAfterFree, ReadCtrlFromMain,
         WorkThreadStartSession, WorkThreadStartSessionFail, StopSession,
         ChildCloseCallback, WorkerFinish, PushFreeSession,
         PostStopInstanceMessage, ReadStreamError, WorkerSend, ThreadSend,
         SendEnd

\* uvHandleRef counts the close callbacks to come.
LEMMA HandleStep == IInv /\ [Next]_vars => HandleInv'
<1> SUFFICES ASSUME IInv, [Next]_vars, NEW q \in Session
             PROVE  HandleOf(q)'
  BY DEF HandleInv
<1>0. TypeOK /\ PipeOf(q) /\ HandleOf(q)
  BY DEF IInv, PipeInv, HandleInv
<1>1. finIdle[q] \in Nat /\ uvHandleRef[q] \in Nat /\ opTimer[q] \in Nat
            /\ waitTimer[q] \in Nat
  BY <1>0 DEF TypeOK
<1>2. ASSUME NEW s \in Session, MallocSessionFail(s) PROVE HandleOf(q)'
  <2>1. CASE q # s
    BY <1>0, <1>2, <2>1 DEF TypeOK, HandleOf, MallocSessionFail, freeVars, PendingClose,
           Pending, Handle
  <2>2. CASE q = s
    <3>1. /\ mem[q] = "none" /\ mem'[q] = "torn"
          /\ UNCHANGED connecting
      BY <1>0, <1>2, <2>2 DEF TypeOK, MallocSessionFail
    <3>2. QED
      BY <1>0, <1>1, <3>1 DEF HandleOf
  <2>3. QED
    BY <2>1, <2>2
<1>3. ASSUME NEW s \in Session, ConnectDaemon(s) PROVE HandleOf(q)'
  <2>1. CASE q # s
    BY <1>0, <1>3, <2>1 DEF TypeOK, HandleOf, ConnectDaemon, MallocSession, freeVars,
           PendingClose, Pending, Handle
  <2>2. CASE q = s
    <3>1. /\ mem[q] = "none" /\ mem'[q] = "live" /\ uvHandleRef'[q] = 3
          /\ handle'[q]["hWorkTCP"] = "open"
          /\ handle'[q]["pollMain"] = "open"
          /\ handle'[q]["dataPipe"] = "open"
          /\ UNCHANGED finIdle
          /\ connecting'[q] = TRUE
      BY <1>0, <1>3, <2>2 DEF TypeOK, ConnectDaemon, MallocSession, AllOpen, Handle, freeVars
    <3>2. QED
      BY <1>0, <1>1, <3>1 DEF HandleOf, PipeOf
  <2>3. QED
    BY <2>1, <2>2
<1>4. ASSUME NEW s \in Session, AcceptClient(s) PROVE HandleOf(q)'
  <2>1. CASE q # s
    BY <1>0, <1>4, <2>1 DEF TypeOK, HandleOf, AcceptClient, MallocSession, freeVars,
           PendingClose, Pending, Handle
  <2>2. CASE q = s
    <3>1. /\ mem[q] = "none" /\ mem'[q] = "live" /\ uvHandleRef'[q] = 3
          /\ handle'[q]["hWorkTCP"] = "closing"
          /\ handle'[q]["pollMain"] = "open"
          /\ handle'[q]["dataPipe"] = "open"
          /\ UNCHANGED finIdle
          /\ UNCHANGED connecting
      BY <1>0, <1>4, <2>2 DEF TypeOK, AcceptClient, MallocSession, AllOpen, Handle, freeVars
    <3>2. QED
      BY <1>0, <1>1, <3>1 DEF HandleOf, PipeOf
  <2>3. QED
    BY <2>1, <2>2
<1>5. ASSUME NEW s \in Session, AcceptClientFail(s) PROVE HandleOf(q)'
  <2>1. CASE q # s
    BY <1>0, <1>5, <2>1 DEF TypeOK, HandleOf, AcceptClientFail, MallocSession, freeVars,
           PendingClose, Pending, Handle
  <2>2. CASE q = s
    <3>1. /\ mem[q] = "none" /\ mem'[q] = "live" /\ uvHandleRef'[q] = 3
          /\ handle'[q]["hWorkTCP"] = "open"
          /\ handle'[q]["pollMain"] = "open"
          /\ handle'[q]["dataPipe"] = "open"
          /\ UNCHANGED finIdle
          /\ UNCHANGED connecting
      BY <1>0, <1>5, <2>2 DEF TypeOK, AcceptClientFail, MallocSession, AllOpen, Handle
    <3>2. QED
      BY <1>0, <1>1, <3>1 DEF HandleOf, PipeOf
  <2>3. QED
    BY <2>1, <2>2
<1>6. ASSUME NEW s \in Session, ConnectOk(s) PROVE HandleOf(q)'
  <2>1. CASE q # s
    BY <1>0, <1>6, <2>1 DEF TypeOK, HandleOf, ConnectOk, memVars, freeVars, PendingClose,
           Pending, Handle
  <2>2. CASE q = s
    <3>1. /\ connecting'[q] = FALSE
          /\ UNCHANGED <<mem, finIdle, handle, uvHandleRef>>
      BY <1>0, <1>6, <2>2 DEF TypeOK, ConnectOk, memVars, freeVars
    <3>2. QED
      BY <1>0, <1>1, <3>1 DEF HandleOf, PendingClose, Pending, Handle
  <2>3. QED
    BY <2>1, <2>2
<1>7. ASSUME NEW s \in Session, ConnectFail(s) PROVE HandleOf(q)'
  <2>1. CASE q # s
    BY <1>0, <1>7, <2>1 DEF TypeOK, HandleOf, ConnectFail, memVars, PendingClose, Pending,
           Handle
  <2>2. CASE q = s
    <3>1. /\ connecting'[q] = FALSE
          /\ UNCHANGED <<mem, finIdle, handle, uvHandleRef>>
      BY <1>0, <1>7, <2>2 DEF TypeOK, ConnectFail, memVars
    <3>2. QED
      BY <1>0, <1>1, <3>1 DEF HandleOf, PendingClose, Pending, Handle
  <2>3. QED
    BY <2>1, <2>2
<1>8. ASSUME NEW s \in Session, FreeSessionOpeateDirect(s) PROVE HandleOf(q)'
  <2>1. CASE q # s
    BY <1>0, <1>8, <2>1 DEF TypeOK, HandleOf, FreeSessionOpeateDirect,
           FreeSessionContinue, memVars, PendingClose, Pending, Handle
  <2>2. CASE q = s
    <3>1. /\ finIdle'[q] = finIdle[q] + 1
          /\ uvHandleRef'[q] = uvHandleRef[q] - ClosedAlready(q)
          /\ \A h \in Handle : handle'[q][h] = IF handle[q][h] = "open"
                                               THEN "closingCb" ELSE handle[q][h]
          /\ UNCHANGED <<mem, connecting>>
      BY <1>0, <1>8, <2>2 DEF TypeOK, FreeSessionOpeateDirect, FreeSessionContinue,
             memVars
    <3>2. mem[q] = "live" /\ finIdle[q] = 0
      BY <1>0, <1>1, <1>8, <2>2 DEF FreeSessionOpeateDirect, PipeOf, TypeOK
    <3>3. QED
      BY <1>0, <1>1, <3>1, <3>2 DEF HandleOf, ClosedAlready, NotOpen,
             PendingClose, Pending, Handle
  <2>3. QED
    BY <2>1, <2>2
<1>9. ASSUME NEW s \in Session, CheckFreeSessionContinue(s) PROVE HandleOf(q)'
  <2>1. CASE q # s
    BY <1>0, <1>9, <2>1 DEF TypeOK, HandleOf, CheckFreeSessionContinue,
           FreeSessionContinue, memVars, PendingClose, Pending, Handle
  <2>2. CASE q = s
    <3>1. /\ finIdle'[q] = finIdle[q] + 1
          /\ uvHandleRef'[q] = uvHandleRef[q] - ClosedAlready(q)
          /\ \A h \in Handle : handle'[q][h] = IF handle[q][h] = "open"
                                               THEN "closingCb" ELSE handle[q][h]
          /\ UNCHANGED <<mem, connecting>>
      BY <1>0, <1>9, <2>2 DEF TypeOK, CheckFreeSessionContinue, FreeSessionContinue,
             memVars
    <3>2. mem[q] = "live" /\ finIdle[q] = 0
      BY <1>0, <1>1, <1>9, <2>2 DEF CheckFreeSessionContinue, PipeOf, TypeOK
    <3>3. QED
      BY <1>0, <1>1, <3>1, <3>2 DEF HandleOf, ClosedAlready, NotOpen,
             PendingClose, Pending, Handle
  <2>3. QED
    BY <2>1, <2>2
<1>10. ASSUME NEW s \in Session, MainCloseCallbacks(s) PROVE HandleOf(q)'
  <2>1. CASE q # s
    BY <1>0, <1>10, <2>1 DEF TypeOK, HandleOf, MainCloseCallbacks, memVars,
           freeVars, PendingClose, Pending, Handle
  <2>2. CASE q = s
    <3>1. /\ uvHandleRef'[q] = uvHandleRef[q] - PendingClose(q)
          /\ \A h \in Handle : handle'[q][h] =
               IF handle[q][h] \in {"closing", "closingCb"}
               THEN "closed" ELSE handle[q][h]
          /\ UNCHANGED <<mem, finIdle>> /\ mem[q] = "live"
          /\ connecting'[q] => connecting[q] /\ handle[q]["hWorkTCP"] # "closingCb"
      BY <1>0, <1>10, <2>2 DEF TypeOK, MainCloseCallbacks, memVars, freeVars
    <3>2. CASE finIdle[q] = 0
      BY <1>0, <1>1, <3>1, <3>2 DEF HandleOf, PendingClose, Pending, Handle
    <3>3. CASE finIdle[q] > 0
      BY <1>0, <1>1, <3>1, <3>3 DEF HandleOf, PendingClose, Pending, Handle
    <3>4. QED
      BY <1>1, <3>2, <3>3
  <2>3. QED
    BY <2>1, <2>2
<1>11. ASSUME NEW s \in Session, FreeSessionFinally(s) PROVE HandleOf(q)'
  <2>1. CASE q # s
    BY <1>0, <1>11, <2>1 DEF TypeOK, HandleOf, FreeSessionFinally, handleVars, PendingClose,
           Pending, Handle
  <2>2. CASE q = s
    <3>1. /\ finIdle[q] > 0 /\ uvHandleRef[q] = 0 /\ mem'[q] = "freed"
          /\ UNCHANGED <<handle, connecting>>
      BY <1>0, <1>11, <2>2 DEF TypeOK, FreeSessionFinally, CallbacksFinished, handleVars
    <3>2. QED
      BY <1>0, <1>1, <3>1 DEF HandleOf, PipeOf, PendingClose, Pending, Handle
  <2>3. QED
    BY <2>1, <2>2
<1>12. CASE UNCHANGED <<mem, finIdle, handleVars>>
  BY <1>0, <1>12 DEF HandleOf, handleVars, PendingClose, Pending, Handle
<1>13. QED
  BY <1>2, <1>3, <1>4, <1>5, <1>6, <1>7, <1>8, <1>9, <1>10, <1>11, <1>12
     DEF Next, Create, MainStep, MainLoop, WorkerStep, Environment, vars,
         memVars, freeVars, handleVars, AsyncFreeSession,
         FreeSessionOpeateStop, MainAsyncCallback, AsyncStopMainLoop,
         ClearSessions, ReMainLoopForInstanceClear, SessionWorkThread,
         WorkerUseAfterFree, ReadCtrlFromMain, WorkThreadStartSession,
         WorkThreadStartSessionFail, StopSession, ChildCloseCallback,
         WorkerFinish, FreeSession, PushFreeSession,
         PostStopInstanceMessage, ReadStreamError, WorkerSend, ThreadSend,
         SendEnd

\* childCleared is set only by a worker that is over, or when none was asked for.
LEMMA WorkerStepInv == IInv /\ [Next]_vars => WorkerInv'
<1> SUFFICES ASSUME IInv, [Next]_vars, NEW q \in Session
             PROVE  WorkerOf(q)'
  BY DEF WorkerInv
<1>0. TypeOK /\ PipeOf(q) /\ HandleOf(q) /\ WorkerOf(q)
  BY DEF IInv, PipeInv, HandleInv, WorkerInv
<1>1. finIdle[q] \in Nat /\ opTimer[q] \in Nat /\ waitTimer[q] \in Nat
  BY <1>0 DEF TypeOK
<1>2. ASSUME NEW s \in Session, MallocSessionFail(s) PROVE WorkerOf(q)'
  <2>1. CASE q # s
    BY <1>0, <1>2, <2>1 DEF TypeOK, WorkerOf, MallocSessionFail, freeVars
  <2>2. CASE q = s
    <3>1. /\ mem[q] = "none" /\ mem'[q] = "torn"
          /\ UNCHANGED <<connecting, worker, childCleared, freedBy, finIdle>>
      BY <1>0, <1>2, <2>2 DEF TypeOK, MallocSessionFail, freeVars
    <3>2. QED
      BY <1>0, <1>1, <3>1 DEF WorkerOf, PipeOf, HandleOf
  <2>3. QED
    BY <2>1, <2>2
<1>3. ASSUME NEW s \in Session, ConnectDaemon(s) PROVE WorkerOf(q)'
  <2>1. CASE q # s
    BY <1>0, <1>3, <2>1 DEF TypeOK, WorkerOf, ConnectDaemon, MallocSession, freeVars
  <2>2. CASE q = s
    <3>1. /\ mem[q] = "none" /\ mem'[q] = "live"
          /\ UNCHANGED <<worker, childCleared, freedBy, finIdle>>
      BY <1>0, <1>3, <2>2 DEF TypeOK, ConnectDaemon, MallocSession, freeVars
    <3>2. QED
      BY <1>0, <1>1, <3>1 DEF WorkerOf, PipeOf
  <2>3. QED
    BY <2>1, <2>2
<1>4. ASSUME NEW s \in Session, AcceptClient(s) PROVE WorkerOf(q)'
  <2>1. CASE q # s
    BY <1>0, <1>4, <2>1 DEF TypeOK, WorkerOf, AcceptClient, MallocSession, StartWorkThread,
           freeVars
  <2>2. CASE q = s
    <3>1. /\ mem[q] = "none" /\ mem'[q] = "live" /\ worker'[q] = "queued"
          /\ UNCHANGED <<connecting, childCleared, freedBy, finIdle>>
      BY <1>0, <1>4, <2>2 DEF TypeOK, AcceptClient, MallocSession, StartWorkThread, freeVars
    <3>2. QED
      BY <1>0, <1>1, <3>1 DEF WorkerOf, PipeOf, HandleOf
  <2>3. QED
    BY <2>1, <2>2
<1>5. ASSUME NEW s \in Session, AcceptClientFail(s) PROVE WorkerOf(q)'
  <2>1. CASE q # s
    BY <1>0, <1>5, <2>1 DEF TypeOK, WorkerOf, AcceptClientFail, MallocSession
  <2>2. CASE q = s
    <3>1. /\ mem[q] = "none" /\ mem'[q] = "live"
          /\ UNCHANGED <<connecting, worker, childCleared, freedBy, finIdle>>
      BY <1>0, <1>5, <2>2 DEF TypeOK, AcceptClientFail, MallocSession
    <3>2. QED
      BY <1>0, <1>1, <3>1 DEF WorkerOf, PipeOf, HandleOf
  <2>3. QED
    BY <2>1, <2>2
<1>6. ASSUME NEW s \in Session, ConnectOk(s) PROVE WorkerOf(q)'
  <2>1. CASE q # s
    BY <1>0, <1>6, <2>1 DEF TypeOK, WorkerOf, ConnectOk, StartWorkThread, memVars, freeVars
  <2>2. CASE q = s
    <3>1. /\ connecting[q] /\ ~connecting'[q] /\ worker'[q] = "queued"
          /\ UNCHANGED <<mem, childCleared, freedBy, finIdle>>
      BY <1>0, <1>6, <2>2 DEF TypeOK, ConnectOk, StartWorkThread, memVars, freeVars
    <3>2. QED
      BY <1>0, <1>1, <3>1 DEF WorkerOf, HandleOf
  <2>3. QED
    BY <2>1, <2>2
<1>7. ASSUME NEW s \in Session, ConnectFail(s) PROVE WorkerOf(q)'
  <2>1. CASE q # s
    BY <1>0, <1>7, <2>1 DEF TypeOK, WorkerOf, ConnectFail, memVars
  <2>2. CASE q = s
    <3>1. /\ connecting[q] /\ ~connecting'[q]
          /\ UNCHANGED <<mem, worker, freedBy, finIdle>>
      BY <1>0, <1>7, <2>2 DEF TypeOK, ConnectFail, memVars
    <3>2. QED
      BY <1>0, <1>1, <3>1 DEF WorkerOf, HandleOf
  <2>3. QED
    BY <2>1, <2>2
<1>8. ASSUME NEW s \in Session, FreeSessionOpeateStop(s) PROVE WorkerOf(q)'
  <2>1. CASE q # s
    BY <1>0, <1>8, <2>1 DEF TypeOK, WorkerOf, FreeSessionOpeateStop, PollWorkUp, memVars,
           handleVars
  <2>2. CASE q = s
    <3>1. /\ opTimer[q] > 0 /\ worker[q] \in {"run", "clear", "done"}
          /\ UNCHANGED <<mem, connecting, worker, childCleared, finIdle>>
      BY <1>0, <1>8, <2>2 DEF TypeOK, FreeSessionOpeateStop, PollWorkUp, memVars, handleVars
    <3>2. QED
      BY <1>0, <1>1, <3>1 DEF WorkerOf, PipeOf
  <2>3. QED
    BY <2>1, <2>2
<1>9. ASSUME NEW s \in Session, FreeSessionOpeateDirect(s) PROVE WorkerOf(q)'
  <2>1. CASE q # s
    BY <1>0, <1>9, <2>1 DEF TypeOK, WorkerOf, FreeSessionOpeateDirect, FreeSessionContinue,
           memVars
  <2>2. CASE q = s
    <3>1. /\ opTimer[q] > 0 /\ freedBy'[q] = "direct"
          /\ UNCHANGED <<mem, connecting, worker, childCleared>>
      BY <1>0, <1>9, <2>2 DEF TypeOK, FreeSessionOpeateDirect, FreeSessionContinue, memVars
    <3>2. QED
      BY <1>0, <1>1, <3>1 DEF WorkerOf, PipeOf
  <2>3. QED
    BY <2>1, <2>2
<1>10. ASSUME NEW s \in Session, CheckFreeSessionContinue(s) PROVE WorkerOf(q)'
  <2>1. CASE q # s
    BY <1>0, <1>10, <2>1 DEF TypeOK, WorkerOf, CheckFreeSessionContinue, FreeSessionContinue,
           ChildFinished, memVars
  <2>2. CASE q = s
    <3>1. /\ waitTimer[q] > 0 /\ childCleared[q]
          /\ UNCHANGED <<mem, connecting, worker, childCleared, freedBy>>
      BY <1>0, <1>10, <2>2 DEF TypeOK, CheckFreeSessionContinue, FreeSessionContinue,
             ChildFinished, memVars
    <3>2. QED
      BY <1>0, <1>1, <3>1 DEF WorkerOf, PipeOf
  <2>3. QED
    BY <2>1, <2>2
<1>11. ASSUME NEW s \in Session, MainCloseCallbacks(s) PROVE WorkerOf(q)'
  <2>1. CASE q # s
    BY <1>0, <1>11, <2>1 DEF TypeOK, WorkerOf, MainCloseCallbacks, memVars, freeVars
  <2>2. CASE q = s
    <3>1. /\ connecting'[q] => connecting[q] /\ (childCleared'[q] => childCleared[q])
          /\ childCleared'[q] => childCleared[q] \/ connecting[q]
          /\ mem[q] = "live" /\ UNCHANGED <<mem, worker, freedBy, finIdle>>
      BY <1>0, <1>11, <2>2 DEF TypeOK, MainCloseCallbacks, memVars, freeVars
    <3>2. QED
      BY <1>0, <1>1, <3>1 DEF WorkerOf
  <2>3. QED
    BY <2>1, <2>2
<1>12. ASSUME NEW s \in Session, FreeSessionFinally(s) PROVE WorkerOf(q)'
  <2>1. CASE q # s
    BY <1>0, <1>12, <2>1 DEF TypeOK, WorkerOf, FreeSessionFinally, handleVars
  <2>2. CASE q = s
    <3>1. /\ finIdle[q] > 0 /\ mem'[q] = "freed"
          /\ UNCHANGED <<connecting, worker, childCleared, freedBy>>
      BY <1>0, <1>12, <2>2 DEF TypeOK, FreeSessionFinally, handleVars
    <3>2. QED
      BY <1>0, <1>1, <3>1 DEF WorkerOf, PipeOf
  <2>3. QED
    BY <2>1, <2>2
<1>13. ASSUME NEW s \in Session, SessionWorkThread(s) PROVE WorkerOf(q)'
  <2>1. CASE q # s
    BY <1>0, <1>13, <2>1 DEF TypeOK, WorkerOf, SessionWorkThread, memVars, freeVars,
           handleVars
  <2>2. CASE q = s
    BY <1>0, <1>1, <1>13, <2>2 DEF TypeOK, WorkerOf, SessionWorkThread, memVars, freeVars,
           handleVars
  <2>3. QED
    BY <2>1, <2>2
<1>14. ASSUME NEW s \in Session, WorkerUseAfterFree(s) PROVE WorkerOf(q)'
  <2>1. CASE q # s
    BY <1>0, <1>14, <2>1 DEF TypeOK, WorkerOf, WorkerUseAfterFree, memVars, freeVars,
           handleVars
  <2>2. CASE q = s
    BY <1>0, <1>1, <1>14, <2>2 DEF TypeOK, WorkerOf, WorkerUseAfterFree, memVars, freeVars,
           handleVars
  <2>3. QED
    BY <2>1, <2>2
<1>15. ASSUME NEW s \in Session, NEW h \in {"tcp", "poll"},
             ChildCloseCallback(s, h) PROVE WorkerOf(q)'
  <2>1. /\ worker[s] = "run"
        /\ worker' = worker \/ worker' = [worker EXCEPT ![s] = "clear"]
        /\ UNCHANGED <<mem, connecting, childCleared, freedBy, finIdle>>
    BY <1>0, <1>15 DEF ChildCloseCallback, WorkerIdle, memVars, freeVars,
           handleVars, TypeOK
  <2>2. QED
    BY <1>0, <1>1, <2>1 DEF TypeOK, WorkerOf, PipeOf
<1>16. ASSUME NEW s \in Session, WorkerFinish(s) PROVE WorkerOf(q)'
  <2>1. CASE q # s
    BY <1>0, <1>16, <2>1 DEF TypeOK, WorkerOf, WorkerFinish, memVars, freeVars, handleVars
  <2>2. CASE q = s
    <3>1. /\ worker[q] = "clear" /\ worker'[q] = "done" /\ mem[q] = "live"
          /\ UNCHANGED <<mem, connecting, freedBy, finIdle>>
      BY <1>0, <1>16, <2>2 DEF TypeOK, WorkerFinish, memVars, freeVars, handleVars
    <3>2. QED
      BY <1>0, <1>1, <3>1 DEF WorkerOf
  <2>3. QED
    BY <2>1, <2>2
<1>17. CASE UNCHANGED <<mem, connecting, worker, childCleared, freedBy, finIdle>>
  BY <1>0, <1>17 DEF WorkerOf
<1>18. QED
  BY <1>2, <1>3, <1>4, <1>5, <1>6, <1>7, <1>8, <1>9, <1>10, <1>11, <1>12,
     <1>13, <1>14, <1>15, <1>16, <1>17
     DEF Next, Create, MainStep, MainLoop, WorkerStep, Environment, vars,
         memVars, freeVars, handleVars, AsyncFreeSession, MainAsyncCallback,
         AsyncStopMainLoop, ClearSessions, ReMainLoopForInstanceClear,
         ReadCtrlFromMain, WorkThreadStartSession,
         WorkThreadStartSessionFail, StopSession, FreeSession,
         PushFreeSession, PostStopInstanceMessage, ReadStreamError,
         WorkerSend, ThreadSend, SendEnd

\* The four command sequences that occur, told apart.
LEMMA CommandLists ==
    /\ <<"START">> # <<>> /\ <<"STOP">> # <<>> /\ <<"START", "STOP">> # <<>>
    /\ <<"START">> # <<"STOP">>
    /\ <<"START">> # <<"START", "STOP">>
    /\ <<"STOP">> # <<"START", "STOP">>
  OBVIOUS

\* What the main thread's two commands make of them.
LEMMA CtrlAppend ==
    /\ Append(<<>>, "START") = <<"START">>
    /\ Append(<<>>, "STOP") = <<"STOP">>
    /\ Append(<<"START">>, "STOP") = <<"START", "STOP">>
<1> DEFINE p == Append(<<"START">>, "STOP")
           q == <<"START", "STOP">>
<1>1. p \in Seq({"START", "STOP"}) /\ q \in Seq({"START", "STOP"})
  OBVIOUS
<1>2. Len(p) = 2 /\ p[1] = "START" /\ p[2] = "STOP"
  OBVIOUS
<1>3. Len(q) = 2 /\ q[1] = "START" /\ q[2] = "STOP"
  OBVIOUS
<1> HIDE DEF p, q
<1>4. \A i \in 1 .. Len(p) : p[i] = q[i]
  <2>1. \A i \in 1 .. 2 : i = 1 \/ i = 2
    OBVIOUS
  <2>2. QED
    BY <1>2, <1>3, <2>1
<1>5. p = q
  BY <1>1, <1>2, <1>3, <1>4, SeqEqual
<1>6. Append(<<>>, "START") = <<"START">> /\ Append(<<>>, "STOP") = <<"STOP">>
  OBVIOUS
<1>7. QED
  BY <1>5, <1>6 DEF p, q

\* What the worker's dispatch makes of them.
LEMMA CommandHeads ==
    /\ Head(<<"START">>) = "START" /\ Tail(<<"START">>) = <<>>
    /\ Head(<<"STOP">>) = "STOP" /\ Tail(<<"STOP">>) = <<>>
    /\ Head(<<"START", "STOP">>) = "START" /\ Tail(<<"START", "STOP">>) = <<"STOP">>
  OBVIOUS

\* A read command list that begins with START is one of two.
LEMMA StartRead ==
    ASSUME NEW q, Started(q) \/ Stopped(q), Head(q) = "START"
    PROVE  \/ q = <<"START">> /\ Tail(q) = <<>>
           \/ q = <<"START", "STOP">> /\ Tail(q) = <<"STOP">>
  BY CommandHeads DEF Started, Stopped

\* One that begins with STOP is just that.
LEMMA StopRead ==
    ASSUME NEW q, Started(q) \/ Stopped(q), Head(q) = "STOP"
    PROVE  q = <<"STOP">> /\ Tail(q) = <<>>
  BY CommandHeads DEF Started, Stopped

\* The control channel carries START once and first, STOP once and last.
LEMMA CtrlStep == IInv /\ [Next]_vars => CtrlInv'
<1> SUFFICES ASSUME IInv, [Next]_vars, NEW q \in Session
             PROVE  CtrlOf(q)'
  BY DEF CtrlInv
<1>0. TypeOK /\ PipeOf(q) /\ HandleOf(q) /\ WorkerOf(q) /\ CtrlOf(q)
  BY DEF IInv, PipeInv, HandleInv, WorkerInv, CtrlInv
<1>1. /\ uvChildRef[q] \in Nat /\ opTimer[q] \in Nat
      /\ waitTimer[q] \in Nat /\ finIdle[q] \in Nat
      /\ childClosing[q] \subseteq {"tcp", "poll"}
  BY <1>0 DEF TypeOK
<1>2. ASSUME NEW s \in Session, AcceptClient(s) PROVE CtrlOf(q)'
  <2>1. CASE q # s
    BY <1>0, <1>2, <2>1 DEF TypeOK, CtrlOf, AcceptClient, StartWorkThread,
           childVars, freeVars, Started, Stopped, ChildPending
  <2>2. CASE q = s
    <3>1. /\ mem[q] = "none" /\ worker'[q] = "queued"
          /\ ctrl'[q] = Append(ctrl[q], "START")
          /\ UNCHANGED <<batch, childClosing, uvChildRef, freedBy>>
      BY <1>0, <1>2, <2>2 DEF TypeOK, AcceptClient, MallocSession, StartWorkThread,
             childVars, freeVars
    <3>2. worker[q] = "none" /\ ctrl[q] = <<>> /\ batch[q] = <<>>
      BY <1>0, <3>1 DEF WorkerOf, CtrlOf
    <3>3. ctrl'[q] = <<"START">>
      BY <3>1, <3>2, CtrlAppend
    <3>4. /\ Started(ctrl'[q]) /\ ~Stopped(ctrl'[q])
          /\ ~Started(<<>>) /\ ~Stopped(<<>>)
      BY <3>3, CommandLists DEF Started, Stopped
    <3>5. QED
      BY <1>0, <3>1, <3>2, <3>4 DEF CtrlOf
  <2>3. QED
    BY <2>1, <2>2
<1>3. ASSUME NEW s \in Session, ConnectOk(s) PROVE CtrlOf(q)'
  <2>1. CASE q # s
    BY <1>0, <1>3, <2>1 DEF TypeOK, CtrlOf, ConnectOk, StartWorkThread,
           childVars, freeVars, Started, Stopped, ChildPending
  <2>2. CASE q = s
    <3>1. /\ connecting[q] /\ worker'[q] = "queued"
          /\ ctrl'[q] = Append(ctrl[q], "START")
          /\ UNCHANGED <<batch, childClosing, uvChildRef, freedBy>>
      BY <1>0, <1>3, <2>2 DEF TypeOK, ConnectOk, StartWorkThread,
             childVars, freeVars
    <3>2. worker[q] = "none" /\ ctrl[q] = <<>> /\ batch[q] = <<>>
      BY <1>0, <3>1 DEF WorkerOf, CtrlOf
    <3>3. ctrl'[q] = <<"START">>
      BY <3>1, <3>2, CtrlAppend
    <3>4. /\ Started(ctrl'[q]) /\ ~Stopped(ctrl'[q])
          /\ ~Started(<<>>) /\ ~Stopped(<<>>)
      BY <3>3, CommandLists DEF Started, Stopped
    <3>5. QED
      BY <1>0, <3>1, <3>2, <3>4 DEF CtrlOf
  <2>3. QED
    BY <2>1, <2>2
<1>4. ASSUME NEW s \in Session, FreeSessionOpeateStop(s) PROVE CtrlOf(q)'
  <2>1. CASE q # s
    BY <1>0, <1>4, <2>1 DEF TypeOK, CtrlOf, FreeSessionOpeateStop, childVars,
           Started, Stopped, ChildPending
  <2>2. CASE q = s
    <3>1. /\ opTimer[q] > 0 /\ freedBy'[q] = "stop"
          /\ ctrl'[q] = Append(ctrl[q], "STOP")
          /\ worker[q] \in {"run", "clear", "done"}
          /\ UNCHANGED <<batch, childClosing, uvChildRef, worker>>
      BY <1>0, <1>4, <2>2 DEF TypeOK, FreeSessionOpeateStop, PollWorkUp, childVars
    <3>2. freedBy[q] = "none"
      BY <1>0, <1>1, <3>1 DEF PipeOf
    <3>3. /\ ~Stopped(ctrl[q]) /\ ~Stopped(batch[q]) /\ childClosing[q] = {}
          /\ ctrl[q] = <<>> \/ ctrl[q] = <<"START">>
      BY <1>0, <3>2 DEF CtrlOf, Started, Stopped
    <3>4. ctrl'[q] = <<"STOP">> \/ (ctrl'[q] = <<"START", "STOP">> /\ ctrl[q] = <<"START">>)
      BY <3>1, <3>3, CtrlAppend
    <3>5. QED
      BY <1>0, <3>1, <3>2, <3>3, <3>4 DEF CtrlOf, Started, Stopped, ChildPending
  <2>3. QED
    BY <2>1, <2>2
<1>5. ASSUME NEW s \in Session, FreeSessionOpeateDirect(s) PROVE CtrlOf(q)'
  <2>1. CASE q # s
    BY <1>0, <1>5, <2>1 DEF TypeOK, CtrlOf, FreeSessionOpeateDirect, childVars, Started,
           Stopped, ChildPending
  <2>2. CASE q = s
    <3>1. /\ opTimer[q] > 0
          /\ UNCHANGED <<ctrl, batch, childClosing, uvChildRef, worker>>
      BY <1>0, <1>5, <2>2 DEF TypeOK, FreeSessionOpeateDirect, childVars
    <3>2. QED
      BY <1>0, <1>1, <3>1 DEF CtrlOf, PipeOf, Started, Stopped, ChildPending
  <2>3. QED
    BY <2>1, <2>2
<1>6. ASSUME NEW s \in Session, MainCloseCallbacks(s) PROVE CtrlOf(q)'
  <2>1. CASE q # s
    BY <1>0, <1>6, <2>1 DEF TypeOK, CtrlOf, MainCloseCallbacks, childVars, freeVars, Started,
           Stopped, ChildPending
  <2>2. CASE q = s
    <3>1. /\ ctrl'[q] = ctrl[q] \/ ctrl'[q] = <<>>
          /\ UNCHANGED <<batch, childClosing, uvChildRef, freedBy, worker>>
      BY <1>0, <1>6, <2>2 DEF TypeOK, MainCloseCallbacks, childVars, freeVars
    <3>2. QED
      BY <1>0, <1>1, <3>1 DEF CtrlOf, Started, Stopped, ChildPending
  <2>3. QED
    BY <2>1, <2>2
<1>7. ASSUME NEW s \in Session, SessionWorkThread(s) PROVE CtrlOf(q)'
  <2>1. CASE q # s
    BY <1>0, <1>7, <2>1 DEF TypeOK, CtrlOf, SessionWorkThread, childVars, freeVars, Started,
           Stopped, ChildPending
  <2>2. CASE q = s
    <3>1. /\ worker[q] = "queued" /\ worker'[q] \in {"run", "wild"}
          /\ UNCHANGED <<ctrl, batch, childClosing, uvChildRef, freedBy>>
      BY <1>0, <1>7, <2>2 DEF TypeOK, SessionWorkThread, childVars, freeVars
    <3>2. QED
      BY <1>0, <1>1, <3>1 DEF CtrlOf, Started, Stopped, ChildPending
  <2>3. QED
    BY <2>1, <2>2
<1>8. ASSUME NEW s \in Session, WorkerUseAfterFree(s) PROVE CtrlOf(q)'
  <2>1. CASE q # s
    BY <1>0, <1>8, <2>1 DEF TypeOK, CtrlOf, WorkerUseAfterFree, childVars, freeVars, Started,
           Stopped, ChildPending
  <2>2. CASE q = s
    <3>1. /\ worker'[q] = "wild"
          /\ UNCHANGED <<ctrl, batch, childClosing, uvChildRef, freedBy>>
      BY <1>0, <1>8, <2>2 DEF TypeOK, WorkerUseAfterFree, childVars, freeVars
    <3>2. QED
      BY <1>0, <1>1, <3>1 DEF CtrlOf, Started, Stopped, ChildPending
  <2>3. QED
    BY <2>1, <2>2
<1>9. ASSUME NEW s \in Session, ReadCtrlFromMain(s) PROVE CtrlOf(q)'
  <2>1. CASE q # s
    BY <1>0, <1>9, <2>1 DEF TypeOK, CtrlOf, ReadCtrlFromMain, freeVars,
           Started, Stopped, ChildPending
  <2>2. CASE q = s
    <3>1. /\ worker[q] = "run" /\ batch[q] = <<>> /\ ctrl[q] # <<>>
          /\ batch'[q] = ctrl[q] /\ ctrl'[q] = <<>>
          /\ UNCHANGED <<worker, childClosing, uvChildRef, freedBy>>
      BY <1>0, <1>9, <2>2 DEF TypeOK, ReadCtrlFromMain, WorkerIdle, freeVars
    <3>2. childClosing[q] = {}
      BY <1>0, <3>1 DEF CtrlOf
    <3>3. ~Started(<<>>) /\ ~Stopped(<<>>)
      BY DEF Started, Stopped
    <3>4. ChildPending(q)' = ChildPending(q)
      BY <3>1 DEF ChildPending
    <3>5. QED
      BY <1>0, <3>1, <3>2, <3>3, <3>4 DEF CtrlOf
  <2>3. QED
    BY <2>1, <2>2
<1>10. ASSUME NEW s \in Session, WorkThreadStartSession(s) PROVE CtrlOf(q)'
  <2>1. CASE q # s
    BY <1>0, <1>10, <2>1 DEF TypeOK, CtrlOf, WorkThreadStartSession, freeVars,
           Started, Stopped, ChildPending
  <2>2. CASE q = s
    <3>1. /\ worker[q] = "run" /\ batch[q] # <<>> /\ Head(batch[q]) = "START"
          /\ batch'[q] = Tail(batch[q])
          /\ UNCHANGED <<worker, ctrl, childClosing, uvChildRef, freedBy>>
      BY <1>0, <1>10, <2>2 DEF TypeOK, WorkThreadStartSession, Dispatching, freeVars
    <3>2. QED
      <4>1. \/ batch[q] = <<"START">> /\ batch'[q] = <<>>
            \/ batch[q] = <<"START", "STOP">> /\ batch'[q] = <<"STOP">>
        BY <1>0, <3>1, StartRead DEF CtrlOf
      <4>2. Started(batch[q]) /\ (Stopped(batch'[q]) => Stopped(batch[q]))
            /\ ~Started(batch'[q]) /\ (batch'[q] = <<>> \/ Stopped(batch'[q]))
        BY <4>1, CommandLists DEF Started, Stopped
      <4>3. ChildPending(q)' = ChildPending(q)
        BY <3>1 DEF ChildPending
      <4>4. QED
        BY <1>0, <3>1, <4>2, <4>3 DEF CtrlOf
  <2>3. QED
    BY <2>1, <2>2
<1>11. ASSUME NEW s \in Session, WorkThreadStartSessionFail(s) PROVE CtrlOf(q)'
  <2>1. CASE q # s
    BY <1>0, <1>11, <2>1 DEF TypeOK, CtrlOf, WorkThreadStartSessionFail,
           freeVars, Started, Stopped, ChildPending
  <2>2. CASE q = s
    <3>1. /\ worker[q] = "run" /\ batch'[q] = <<>>
          /\ UNCHANGED <<worker, ctrl, childClosing, uvChildRef, freedBy>>
      BY <1>0, <1>11, <2>2 DEF TypeOK, WorkThreadStartSessionFail, Dispatching,
             freeVars
    <3>2. QED
      BY <1>0, <3>1 DEF CtrlOf, Started, Stopped, ChildPending
  <2>3. QED
    BY <2>1, <2>2
<1>12. ASSUME NEW s \in Session, StopSession(s) PROVE CtrlOf(q)'
  <2>1. CASE q # s
    BY <1>0, <1>12, <2>1 DEF TypeOK, CtrlOf, StopSession, freeVars,
           Started, Stopped, ChildPending
  <2>2. CASE q = s
    <3>1. /\ worker[q] = "run" /\ batch[q] # <<>> /\ Head(batch[q]) = "STOP"
          /\ batch'[q] = Tail(batch[q])
          /\ uvChildRef'[q] = uvChildRef[q] + CountedClose(q) - AtOnceClose(q)
          /\ childClosing'[q] = IF TcpOpen(q) THEN {"tcp", "poll"} ELSE {"poll"}
          /\ UNCHANGED <<worker, ctrl, freedBy>>
      BY <1>0, <1>12, <2>2 DEF TypeOK, StopSession, Dispatching, freeVars
    <3>2. batch[q] = <<"STOP">> /\ batch'[q] = <<>> /\ Stopped(batch[q])
      BY <1>0, <3>1, StopRead DEF CtrlOf, Started, Stopped
    <3>3. childClosing[q] = {} /\ uvChildRef[q] = 0
      BY <1>0, <3>1, <3>2 DEF CtrlOf, ChildPending
    <3>4. ctrl[q] = <<>>
      BY <1>0, <3>2 DEF CtrlOf
    <3>5. uvChildRef'[q] = ChildPending(q)'
      BY <3>1, <3>3 DEF ChildPending, CountedClose, AtOnceClose, TcpUsed, TcpOpen
    <3>6. freedBy[q] = "stop" /\ ~Started(<<>>) /\ ~Stopped(<<>>)
      BY <1>0, <3>2 DEF CtrlOf, Started, Stopped
    <3>7. QED
      BY <1>0, <3>1, <3>2, <3>4, <3>5, <3>6 DEF CtrlOf
  <2>3. QED
    BY <2>1, <2>2
<1>13. ASSUME NEW s \in Session, NEW h \in {"tcp", "poll"},
             ChildCloseCallback(s, h) PROVE CtrlOf(q)'
  <2>1. CASE q # s
    BY <1>0, <1>13, <2>1 DEF TypeOK, CtrlOf, ChildCloseCallback, freeVars,
           Started, Stopped, ChildPending
  <2>2. CASE q = s
    <3>1. /\ worker[q] = "run" /\ h \in childClosing[q]
          /\ childClosing'[q] = childClosing[q] \ {h}
          /\ uvChildRef'[q] = uvChildRef[q] - 1
          /\ worker'[q] = IF uvChildRef[q] = 1 THEN "clear" ELSE "run"
          /\ UNCHANGED <<ctrl, batch, freedBy>>
      BY <1>0, <1>13, <2>2 DEF TypeOK, ChildCloseCallback, WorkerIdle, freeVars
    <3>2. uvChildRef[q] = ChildPending(q) /\ uvChildRef'[q] = ChildPending(q)'
      BY <1>0, <3>1 DEF CtrlOf, ChildPending
    <3>3. uvChildRef[q] = 1 => childClosing'[q] = {}
      BY <1>1, <3>1, <3>2 DEF ChildPending
    <3>4. /\ ctrl[q] = <<>> /\ batch[q] = <<>> /\ freedBy[q] = "stop"
          /\ ~Started(<<>>) /\ ~Stopped(<<>>)
      BY <1>0, <3>1 DEF CtrlOf, Started, Stopped
    <3>5. QED
      BY <1>0, <3>1, <3>2, <3>3, <3>4 DEF CtrlOf
  <2>3. QED
    BY <2>1, <2>2
<1>14. ASSUME NEW s \in Session, WorkerFinish(s) PROVE CtrlOf(q)'
  <2>1. CASE q # s
    BY <1>0, <1>14, <2>1 DEF TypeOK, CtrlOf, WorkerFinish, childVars, freeVars, Started,
           Stopped, ChildPending
  <2>2. CASE q = s
    <3>1. /\ worker[q] = "clear" /\ worker'[q] = "done"
          /\ UNCHANGED <<ctrl, batch, childClosing, uvChildRef, freedBy>>
      BY <1>0, <1>14, <2>2 DEF TypeOK, WorkerFinish, childVars, freeVars
    <3>2. QED
      BY <1>0, <1>1, <3>1 DEF CtrlOf, Started, Stopped, ChildPending
  <2>3. QED
    BY <2>1, <2>2
<1>15. CASE UNCHANGED <<ctrl, batch, worker, childClosing, uvChildRef, freedBy>>
  BY <1>0, <1>15 DEF CtrlOf, Started, Stopped, ChildPending
<1>16. QED
  BY <1>2, <1>3, <1>4, <1>5, <1>6, <1>7, <1>8, <1>9, <1>10, <1>11, <1>12,
     <1>13, <1>14, <1>15
     DEF Next, Create, MainStep, MainLoop, WorkerStep, Environment, vars,
         freeVars, childVars, MallocSessionFail, ConnectDaemon,
         AcceptClientFail, ConnectFail, AsyncFreeSession,
         CheckFreeSessionContinue, FreeSessionFinally, MainAsyncCallback,
         AsyncStopMainLoop, ClearSessions, ReMainLoopForInstanceClear,
         FreeSession, PushFreeSession, PostStopInstanceMessage,
         ReadStreamError, WorkerSend, ThreadSend, SendEnd

\* Senders are finitely many, so are those that hold a session.
LEMMA HoldersFinite ==
    ASSUME NEW s PROVE IsFiniteSet(Holders(s)) /\ Cardinality(Holders(s)) \in Nat
<1>1. IsFiniteSet(Sender)
  BY SessionAssumption, FS_Union DEF Sender
<1>2. Holders(s) \in SUBSET Sender
  BY DEF Holders
<1>3. IsFiniteSet(Holders(s))
  BY <1>1, <1>2, FS_Subset
<1>4. QED
  BY <1>3, FS_CardinalityType

\* FreeSessionOpeate goes on only when nobody holds the session.
LEMMA NoSendNoHolder ==
    ASSUME IInv, NEW s \in Session, mem[s] # "freed", ref[s] = 0
    PROVE  \A x \in Sender : holds[x] # s
<1>1. Cardinality(Holders(s)) = 0
  BY DEF IInv, RefInv, RefOf
<1>2. Holders(s) = {}
  BY <1>1, HoldersFinite, FS_EmptySet
<1>3. QED
  BY <1>2 DEF Holders

\* A session that a sender gives back was counted.
LEMMA HolderCounted ==
    ASSUME IInv, NEW x \in Sender, NEW s \in Session, holds[x] = s,
           mem[s] # "freed"
    PROVE  ref[s] \in Nat /\ ref[s] > 0
<1>1. x \in Holders(s)
  BY DEF Holders
<1>2. Cardinality(Holders(s)) \in Nat /\ Cardinality(Holders(s)) # 0
  BY <1>1, HoldersFinite, FS_EmptySet
<1>3. QED
  BY <1>2 DEF IInv, RefInv, RefOf

\* The steps that create a session, at a session that did not exist.
CreateAt(s) ==
    /\ mem[s] = "none"
    /\ \A q \in Session : q # s => mem'[q] = mem[q] /\ isDead'[q] = isDead[q]
                                   /\ opTimer'[q] = opTimer[q]
    /\ UNCHANGED sendVars

\* Each of the creating steps is one of these.
LEMMA CreateEffect ==
    ASSUME TypeOK, NEW s \in Session, Create(s) PROVE CreateAt(s)
<1>1. CASE MallocSessionFail(s)
  BY <1>1 DEF TypeOK, CreateAt, MallocSessionFail, freeVars
<1>2. CASE ConnectDaemon(s)
  BY <1>2 DEF TypeOK, CreateAt, ConnectDaemon, MallocSession, freeVars
<1>3. CASE AcceptClient(s)
  BY <1>3 DEF TypeOK, CreateAt, AcceptClient, MallocSession, freeVars
<1>4. CASE AcceptClientFail(s)
  BY <1>4 DEF TypeOK, CreateAt, AcceptClientFail, MallocSession
<1>5. QED
  BY <1>1, <1>2, <1>3, <1>4 DEF Create

\* MarkDead arms the timer of the session it kills.
LEMMA MarkDeadEffect ==
    ASSUME TypeOK, NEW s \in Session, MarkDead(s), NEW q \in Session
    PROVE  \/ isDead'[q] = isDead[q] /\ opTimer'[q] = opTimer[q]
           \/ q \in mapSession /\ ~isDead[q] /\ isDead'[q] /\ opTimer'[q] = opTimer[q] + 1
  BY SMTT(30) DEF TypeOK, MarkDead

\* A reference older than isDead keeps FreeSessionOpeate's timer running.
LEMMA HolderStep == IInv /\ [Next]_vars => HolderInv'
<1> SUFFICES ASSUME IInv, [Next]_vars, NEW q \in Sender
             PROVE  HolderOf(q)'
  BY DEF HolderInv
<1>0. TypeOK /\ MapInv /\ HolderOf(q) /\ PipeInv
  BY DEF IInv, HolderInv
<1>1. /\ holds[q] \in Session \cup {NoSession} /\ early[q] \in BOOLEAN
      /\ NoSession \notin Session
      /\ \A s \in Session : opTimer[s] \in Nat /\ finIdle[s] \in Nat
                            /\ waitTimer[s] \in Nat
  BY <1>0, SessionAssumption DEF TypeOK
<1> DEFINE d == holds[q]
<1>2. ASSUME NEW s \in Session, Create(s) PROVE HolderOf(q)'
  <2>1. CreateAt(s)
    BY <1>0, <1>2, CreateEffect
  <2>2. d # s
    BY <1>0, <1>1, <2>1 DEF HolderOf, CreateAt
  <2>3. QED
    BY <1>0, <1>1, <2>1, <2>2 DEF HolderOf, CreateAt, sendVars
<1>3. ASSUME NEW s \in Session,
             ConnectFail(s) \/ AsyncFreeSession(s) \/ FreeSession(s)
      PROVE HolderOf(q)'
  <2>1. MarkDead(s) /\ UNCHANGED <<memVars, sendVars>>
    BY <1>3 DEF ConnectFail, AsyncFreeSession, FreeSession
  <2>2. d \in Session =>
           \/ isDead'[d] = isDead[d] /\ opTimer'[d] = opTimer[d]
           \/ opTimer'[d] = opTimer[d] + 1
    BY <1>0, <2>1, MarkDeadEffect
  <2>3. QED
    BY <1>0, <1>1, <2>1, <2>2 DEF HolderOf, memVars, sendVars
<1>4. ASSUME ClearSessions PROVE HolderOf(q)'
  <2>1. UNCHANGED <<memVars, sendVars>>
    BY <1>4 DEF ClearSessions
  <2>2. d \in Session =>
           \/ isDead'[d] = isDead[d] /\ opTimer'[d] = opTimer[d]
           \/ opTimer'[d] = opTimer[d] + 1
    BY <1>0, <1>4 DEF ClearSessions, TypeOK
  <2>3. QED
    BY <1>0, <1>1, <2>1, <2>2 DEF HolderOf, memVars, sendVars
<1>5. ASSUME NEW s \in Session,
             FreeSessionOpeateStop(s) \/ FreeSessionOpeateDirect(s)
      PROVE HolderOf(q)'
  <2>1. /\ opTimer[s] > 0 /\ ref[s] = 0
        /\ opTimer' = [opTimer EXCEPT ![s] = @ - 1]
        /\ UNCHANGED <<memVars, sendVars, isDead>>
    BY <1>5 DEF FreeSessionOpeateStop, FreeSessionOpeateDirect, NoSendInProgress
  <2>2. mem[s] # "freed"
    BY <1>0, <1>1, <2>1 DEF PipeInv, PipeOf
  <2>3. d # s
    BY <2>1, <2>2, NoSendNoHolder
  <2>4. d \in Session => opTimer'[d] = opTimer[d]
    BY <1>0, <2>1, <2>3 DEF TypeOK
  <2>5. QED
    BY <1>0, <1>1, <2>1, <2>4 DEF HolderOf, memVars, sendVars
<1>6. ASSUME NEW s \in Session, FreeSessionFinally(s) PROVE HolderOf(q)'
  <2>1. /\ finIdle[s] > 0 /\ mem' = [mem EXCEPT ![s] = "freed"]
        /\ UNCHANGED <<sendVars, isDead, opTimer>>
    BY <1>6 DEF FreeSessionFinally
  <2>2. isDead[s] /\ ~(opTimer[s] > 0)
    BY <1>0, <1>1, <2>1 DEF PipeInv, PipeOf
  <2>3. early[q] => d # s
    BY <1>0, <2>2 DEF HolderOf
  <2>4. d \in Session => mem'[d] = IF d = s THEN "freed" ELSE mem[d]
    BY <1>0, <2>1 DEF TypeOK
  <2>5. QED
    BY <1>0, <1>1, <2>1, <2>3, <2>4 DEF HolderOf, sendVars
<1>7. ASSUME NEW x \in Sender, NEW s \in Session, s \in mapSession,
             Acquire(x, s), UNCHANGED <<memVars, freeVars>>
      PROVE  HolderOf(q)'
  <2>1. mem[s] = "live" /\ UNCHANGED <<mem, isDead, opTimer>>
    BY <1>0, <1>7 DEF MapInv, memVars, freeVars
  <2>2. CASE q = x
    <3>1. holds'[q] = s /\ early'[q] = ~isDead[s]
      BY <1>0, <1>7, <2>2 DEF Acquire, TypeOK
    <3>2. QED
      BY <1>1, <2>1, <3>1 DEF HolderOf
  <2>3. CASE q # x
    <3>1. holds'[q] = holds[q] /\ early'[q] = early[q]
      BY <1>0, <1>7, <2>3 DEF Acquire, TypeOK
    <3>2. QED
      BY <1>0, <2>1, <3>1 DEF HolderOf
  <2>4. QED
    BY <2>2, <2>3
<1>8. ASSUME NEW x \in Sender, SendEnd(x) PROVE HolderOf(q)'
  <2>1. /\ \/ holds'[q] = holds[q] /\ early'[q] = early[q]
           \/ holds'[q] = NoSession /\ early'[q] = FALSE
        /\ UNCHANGED <<mem, isDead, opTimer>>
    BY <1>0, <1>8 DEF SendEnd, TypeOK, memVars, freeVars
  <2>2. QED
    BY <1>0, <2>1 DEF HolderOf
<1>9. CASE UNCHANGED <<holds, early, mem, isDead, opTimer>>
  BY <1>0, <1>9 DEF HolderOf
<1>10. ASSUME NEW s \in Session, WorkThreadStartSession(s) \/ WorkerSend(s)
       PROVE HolderOf(q)'
  <2>1. s \in Sender
    BY DEF Sender
  <2>2. UNCHANGED <<memVars, freeVars>>
    BY <1>10 DEF WorkThreadStartSession, WorkerSend
  <2>3. \/ s \in mapSession /\ Acquire(s, s)
        \/ UNCHANGED sendVars
    BY <1>10 DEF WorkThreadStartSession, WorkerSend
  <2>4. QED
    BY <1>7, <1>9, <2>1, <2>2, <2>3 DEF memVars, freeVars, sendVars
<1>11. ASSUME NEW s \in Session, NEW t \in Thread, ThreadSend(t, s)
       PROVE HolderOf(q)'
  <2>1. t \in Sender
    BY DEF Sender
  <2>2. QED
    BY <1>7, <1>11, <2>1 DEF ThreadSend
<1>12. QED
  BY <1>2, <1>3, <1>4, <1>5, <1>6, <1>8, <1>9, <1>10, <1>11
     DEF Next, MainStep, MainLoop, WorkerStep, Environment, vars, memVars,
         sendVars, freeVars, ConnectOk, CheckFreeSessionContinue,
         MainCloseCallbacks, MainAsyncCallback, AsyncStopMainLoop,
         ReMainLoopForInstanceClear, SessionWorkThread, WorkerUseAfterFree,
         ReadCtrlFromMain, WorkThreadStartSessionFail, StopSession,
         ChildCloseCallback, WorkerFinish, PushFreeSession,
         PostStopInstanceMessage, ReadStreamError

\* ref stays the number of holders.
LEMMA RefStep == IInv /\ [Next]_vars => RefInv'
<1> SUFFICES ASSUME IInv, [Next]_vars, NEW q \in Session
             PROVE  RefOf(q)'
  BY DEF RefInv
<1>0. TypeOK /\ MapInv /\ HolderInv /\ PipeInv /\ RefOf(q)
  BY DEF IInv, RefInv
<1>1. /\ ref[q] \in Nat /\ NoSession \notin Session
      /\ IsFiniteSet(Holders(q)) /\ Cardinality(Holders(q)) \in Nat
  BY <1>0, SessionAssumption, HoldersFinite DEF TypeOK
<1>2. ASSUME UNCHANGED sendVars, mem'[q] = "freed" \/ mem[q] # "freed"
      PROVE  RefOf(q)'
  <2>1. Holders(q)' = Holders(q)
    BY <1>2 DEF Holders, sendVars
  <2>2. QED
    BY <1>0, <1>2, <2>1 DEF RefOf, sendVars
<1>3. ASSUME NEW x \in Sender, NEW s \in Session, s \in mapSession,
             holds[x] = NoSession, Acquire(x, s), UNCHANGED memVars
      PROVE  RefOf(q)'
  <2>1. mem[s] = "live" /\ UNCHANGED mem
    BY <1>0, <1>3 DEF MapInv, memVars
  <2>2. CASE q # s
    <3>1. Holders(q)' = Holders(q)
      BY <1>0, <1>1, <1>3, <2>2 DEF Holders, Acquire, TypeOK
    <3>2. ref'[q] = ref[q]
      BY <1>0, <1>3, <2>2 DEF Acquire, TypeOK
    <3>3. QED
      BY <1>0, <2>1, <3>1, <3>2 DEF RefOf
  <2>3. CASE q = s
    <3>1. Holders(q)' = Holders(q) \cup {x} /\ x \notin Holders(q)
      BY <1>0, <1>1, <1>3, <2>3 DEF Holders, Acquire, TypeOK
    <3>2. Cardinality(Holders(q)') = Cardinality(Holders(q)) + 1
      BY <1>1, <3>1, FS_AddElement
    <3>3. ref'[q] = ref[q] + 1
      BY <1>0, <1>3, <2>3 DEF Acquire, TypeOK
    <3>4. QED
      BY <1>0, <2>1, <2>3, <3>2, <3>3 DEF RefOf
  <2>4. QED
    BY <2>2, <2>3
<1>4. ASSUME NEW x \in Sender, SendEnd(x) PROVE RefOf(q)'
  <2>1. /\ holds[x] \in Session /\ UNCHANGED mem
        /\ holds' = [holds EXCEPT ![x] = NoSession]
    BY <1>0, <1>4 DEF SendEnd, TypeOK, memVars
  <2>2. CASE q # holds[x]
    <3>1. Holders(q)' = Holders(q)
      BY <1>0, <1>1, <2>1, <2>2 DEF Holders, TypeOK
    <3>2. ref'[q] = ref[q]
      BY <1>0, <1>4, <2>2 DEF SendEnd, TypeOK
    <3>3. QED
      BY <1>0, <2>1, <3>1, <3>2 DEF RefOf
  <2>3. CASE q = holds[x]
    <3>1. Holders(q)' = Holders(q) \ {x} /\ x \in Holders(q)
      BY <1>0, <1>1, <2>1, <2>3 DEF Holders, TypeOK
    <3>2. Cardinality(Holders(q)') = Cardinality(Holders(q)) - 1
      BY <1>1, <3>1, FS_RemoveElement
    <3>3. mem[q] \in {"live", "freed"}
      BY <1>0, <1>1, <2>3 DEF HolderInv, HolderOf
    <3>4. mem[q] = "live" => ref'[q] = ref[q] - 1
      BY <1>0, <1>4, <2>3 DEF SendEnd, TypeOK
    <3>5. QED
      BY <1>0, <2>1, <3>2, <3>3, <3>4 DEF RefOf
  <2>4. QED
    BY <2>2, <2>3
<1>5. ASSUME NEW s \in Session, Create(s) PROVE RefOf(q)'
  <2>1. CreateAt(s)
    BY <1>0, <1>5, CreateEffect
  <2>2. mem'[q] = "freed" \/ mem[q] # "freed"
    BY <2>1 DEF CreateAt
  <2>3. QED
    BY <1>2, <2>1, <2>2 DEF CreateAt
<1>6. ASSUME NEW s \in Session, FreeSessionFinally(s) PROVE RefOf(q)'
  <2>1. mem'[q] = "freed" \/ mem'[q] = mem[q]
    BY <1>0, <1>6 DEF FreeSessionFinally, TypeOK
  <2>2. QED
    BY <1>2, <1>6, <2>1 DEF FreeSessionFinally
<1>7. ASSUME NEW s \in Session, WorkThreadStartSession(s) \/ WorkerSend(s)
      PROVE RefOf(q)'
  <2>1. s \in Sender /\ holds[s] = NoSession /\ UNCHANGED memVars
    BY <1>7 DEF Sender, WorkThreadStartSession, Dispatching, WorkerSend
  <2>2. \/ s \in mapSession /\ Acquire(s, s)
        \/ UNCHANGED sendVars
    BY <1>7 DEF WorkThreadStartSession, WorkerSend
  <2>3. QED
    BY <1>2, <1>3, <2>1, <2>2 DEF memVars
<1>8. ASSUME NEW s \in Session, NEW t \in Thread, ThreadSend(t, s)
      PROVE RefOf(q)'
  BY <1>3, <1>8 DEF ThreadSend, Sender
<1>9. CASE UNCHANGED <<sendVars, mem>>
  BY <1>2, <1>9
<1>10. QED
  BY <1>4, <1>5, <1>6, <1>7, <1>8, <1>9
     DEF Next, MainStep, MainLoop, WorkerStep, Environment, vars, memVars,
         ConnectOk, ConnectFail, AsyncFreeSession, FreeSession, ClearSessions,
         FreeSessionOpeateStop, FreeSessionOpeateDirect,
         CheckFreeSessionContinue, MainCloseCallbacks, MainAsyncCallback,
         AsyncStopMainLoop, ReMainLoopForInstanceClear, SessionWorkThread,
         WorkerUseAfterFree, ReadCtrlFromMain, WorkThreadStartSessionFail,
         StopSession, ChildCloseCallback, WorkerFinish, PushFreeSession,
         PostStopInstanceMessage, ReadStreamError

\* The accounted sessions are finitely many.
LEMMA AccountedFinite ==
    IsFiniteSet(Accounted) /\ Cardinality(Accounted) \in Nat
<1>1. Accounted \in SUBSET Session
  BY DEF Accounted
<1>2. IsFiniteSet(Accounted)
  BY <1>1, SessionAssumption, FS_Subset
<1>3. QED
  BY <1>2, FS_CardinalityType

\* sessionRef stays the number of accounted sessions, and a stopped instance
\* has none.
LEMMA CountStep == IInv /\ [Next]_vars => CountInv'
<1> SUFFICES ASSUME IInv, [Next]_vars PROVE CountInv'
  OBVIOUS
<1>0. TypeOK /\ PipeInv /\ CountInv
  BY DEF IInv
<1>1. ASSUME NEW s \in Session, Create(s) PROVE CountInv'
  <2>1. /\ instance = "run" /\ UNCHANGED instance
        /\ mem[s] = "none" /\ sessionRef' = sessionRef + 1
        /\ mem' = [mem EXCEPT ![s] = "live"] \/ mem' = [mem EXCEPT ![s] = "torn"]
    BY <1>1 DEF Create, MallocSessionFail, ConnectDaemon, AcceptClient,
           AcceptClientFail, MallocSession, loopVars
  <2>2. Accounted' = Accounted \cup {s} /\ s \notin Accounted
    BY <1>0, <2>1 DEF Accounted, TypeOK
  <2>3. Cardinality(Accounted') = Cardinality(Accounted) + 1
    BY <2>2, AccountedFinite, FS_AddElement
  <2>4. QED
    BY <1>0, <2>1, <2>3 DEF CountInv
<1>2. ASSUME NEW s \in Session, FreeSessionFinally(s) PROVE CountInv'
  <2>1. /\ finIdle[s] > 0 /\ UNCHANGED instance
        /\ mem' = [mem EXCEPT ![s] = "freed"] /\ sessionRef' = sessionRef - 1
    BY <1>2 DEF FreeSessionFinally, loopVars
  <2>2. mem[s] = "live"
    BY <1>0, <2>1 DEF PipeInv, PipeOf, TypeOK
  <2>3. Accounted' = Accounted \ {s} /\ s \in Accounted
    BY <1>0, <2>1, <2>2 DEF Accounted, TypeOK
  <2>4. Cardinality(Accounted') = Cardinality(Accounted) - 1
    BY <2>3, AccountedFinite, FS_RemoveElement
  <2>5. QED
    BY <1>0, <2>1, <2>3, <2>4 DEF CountInv
<1>3. ASSUME ReMainLoopForInstanceClear PROVE CountInv'
  <2>1. sessionRef = 0 /\ UNCHANGED <<mem, sessionRef>>
    BY <1>3 DEF ReMainLoopForInstanceClear, AllSessionsFreed, memVars
  <2>2. Accounted' = Accounted
    BY <2>1 DEF Accounted
  <2>3. Accounted = {}
    BY <1>0, <2>1, AccountedFinite, FS_EmptySet DEF CountInv
  <2>4. QED
    BY <1>0, <2>1, <2>2, <2>3 DEF CountInv
<1>4. CASE UNCHANGED <<mem, sessionRef>> /\ (instance' = "stopped" => instance = "stopped")
  <2>1. Accounted' = Accounted
    BY <1>4 DEF Accounted
  <2>2. QED
    BY <1>0, <1>4, <2>1 DEF CountInv
<1>5. QED
  BY <1>1, <1>2, <1>3, <1>4
     DEF Next, MainStep, MainLoop, WorkerStep, Environment, vars, memVars,
         loopVars, ConnectOk, ConnectFail, AsyncFreeSession, FreeSession,
         ClearSessions, FreeSessionOpeateStop, FreeSessionOpeateDirect,
         CheckFreeSessionContinue, MainCloseCallbacks, MainAsyncCallback,
         AsyncStopMainLoop, SessionWorkThread, WorkerUseAfterFree,
         ReadCtrlFromMain, WorkThreadStartSession, WorkThreadStartSessionFail,
         StopSession, ChildCloseCallback, WorkerFinish, PushFreeSession,
         PostStopInstanceMessage, ReadStreamError, WorkerSend, ThreadSend,
         SendEnd

\* The counters a step decrements are positive.
LEMMA Decrements ==
    ASSUME IInv, NEW s \in Session
    PROVE  /\ opTimer[s] \in Nat /\ waitTimer[s] \in Nat /\ finIdle[s] \in Nat
           /\ opTimer[s] + waitTimer[s] > 0 =>
                 finIdle[s] = 0 /\ uvHandleRef[s] = 3 /\ mem[s] = "live"
           /\ finIdle[s] > 0 => sessionRef > 0
           /\ ClosedAlready(s) \in 0 .. 3 /\ PendingClose(s) \in 0 .. 3
           /\ mem[s] = "live" => uvHandleRef[s] - PendingClose(s) \in Nat
<1>0. TypeOK /\ PipeOf(s) /\ HandleOf(s) /\ CountInv
  BY DEF IInv, PipeInv, HandleInv
<1>1. /\ opTimer[s] \in Nat /\ waitTimer[s] \in Nat /\ finIdle[s] \in Nat
      /\ uvHandleRef[s] \in Nat
  BY <1>0 DEF TypeOK
<1>2. opTimer[s] + waitTimer[s] > 0 => finIdle[s] = 0 /\ mem[s] = "live"
  BY <1>0, <1>1 DEF PipeOf
<1>3. opTimer[s] + waitTimer[s] > 0 => uvHandleRef[s] = 3
  BY <1>0, <1>2 DEF HandleOf
<1>4. finIdle[s] > 0 => sessionRef > 0
  <2> SUFFICES ASSUME finIdle[s] > 0 PROVE sessionRef > 0
    OBVIOUS
  <2>1. mem[s] = "live"
    BY <1>0, <1>1 DEF PipeOf
  <2>2. s \in Accounted
    BY <2>1 DEF Accounted
  <2>3. Cardinality(Accounted) \in Nat /\ Cardinality(Accounted) # 0
    BY <2>2, AccountedFinite, FS_EmptySet
  <2>4. QED
    BY <1>0, <2>3 DEF CountInv
<1>5. ClosedAlready(s) \in 0 .. 3 /\ PendingClose(s) \in 0 .. 3
  BY DEF ClosedAlready, NotOpen, PendingClose, Pending
<1>6. mem[s] = "live" => uvHandleRef[s] - PendingClose(s) \in Nat
  <2>1. CASE finIdle[s] = 0
    BY <1>0, <1>5, <2>1 DEF HandleOf
  <2>2. CASE finIdle[s] > 0
    BY <1>0, <1>5, <2>2 DEF HandleOf
  <2>3. QED
    BY <1>1, <2>1, <2>2
<1>7. QED
  BY <1>1, <1>2, <1>3, <1>4, <1>5, <1>6

\* A reference changes the sender's state within its type.
LEMMA AcquireType ==
    ASSUME TypeOK, NEW x \in Sender, NEW s \in Session, Acquire(x, s)
    PROVE  /\ ref' \in [Session -> Nat]
           /\ holds' \in [Sender -> Session \cup {NoSession}]
           /\ early' \in [Sender -> BOOLEAN]
  BY DEF TypeOK, Acquire

\* MarkDead changes isDead and opTimer within their types.
LEMMA MarkDeadType ==
    ASSUME TypeOK, NEW s \in Session, MarkDead(s)
    PROVE  isDead' \in [Session -> BOOLEAN] /\ opTimer' \in [Session -> Nat]
<1>1. CASE s \in mapSession /\ ~isDead[s]
  <2>1. /\ isDead' = [isDead EXCEPT ![s] = TRUE]
        /\ opTimer' = [opTimer EXCEPT ![s] = @ + 1]
    BY <1>1 DEF MarkDead
  <2>2. QED
    BY <2>1 DEF TypeOK
<1>2. CASE ~(s \in mapSession /\ ~isDead[s])
  <2>1. isDead' = isDead /\ opTimer' = opTimer
    BY <1>2 DEF MarkDead
  <2>2. QED
    BY <2>1 DEF TypeOK
<1>3. QED
  BY <1>1, <1>2

\* FreeSessionContinue changes the handles within their type.
LEMMA ContinueType ==
    ASSUME IInv, NEW s \in Session, FreeSessionContinue(s),
           opTimer[s] + waitTimer[s] > 0
    PROVE  /\ handle' \in [Session -> [Handle ->
                       {"null", "open", "closing", "closingCb", "closed"}]]
           /\ uvHandleRef' \in [Session -> Nat]
           /\ finIdle' \in [Session -> Nat]
<1>0. TypeOK
  BY DEF IInv
<1>1. uvHandleRef[s] - ClosedAlready(s) \in Nat
  BY Decrements
<1>2. QED
  BY <1>0, <1>1 DEF TypeOK, FreeSessionContinue

\* The type invariant is inductive together with the rest of IInv: the natural
\* numbers need that no counter is decremented below zero.
LEMMA TypeStep == IInv /\ [Next]_vars => TypeOK'
<1> SUFFICES ASSUME IInv, [Next]_vars PROVE TypeOK'
  OBVIOUS
<1>0. TypeOK
  BY DEF IInv
<1> USE SessionAssumption DEF memVars, sendVars, handleVars, childVars,
        freeVars, loopVars
<1>1. ASSUME NEW s \in Session, Create(s) PROVE TypeOK'
  <2>1. CASE MallocSessionFail(s)
    BY SMTT(30), <1>0, <2>1 DEF TypeOK, MallocSessionFail, AllOpen, Handle
  <2>2. CASE ConnectDaemon(s)
    BY SMTT(30), <1>0, <2>2 DEF TypeOK, ConnectDaemon, MallocSession, AllOpen
  <2>3. CASE AcceptClient(s)
    <3>1. handle' \in [Session -> [Handle ->
                 {"null", "open", "closing", "closingCb", "closed"}]]
      BY <1>0, <2>3 DEF TypeOK, AcceptClient, MallocSession, AllOpen, Handle
    <3>2. ctrl' \in [Session -> Seq({"START", "STOP"})]
      BY <1>0, <2>3 DEF TypeOK, AcceptClient, StartWorkThread
    <3>3. /\ mem' \in [Session -> {"none", "live", "freed", "torn"}]
          /\ mapSession' \subseteq Session
          /\ sessionRef' \in Nat
          /\ uvHandleRef' \in [Session -> Nat]
      BY <1>0, <2>3 DEF TypeOK, AcceptClient, MallocSession
    <3>4. worker' \in [Session ->
                         {"none", "queued", "run", "clear", "done", "wild"}]
      BY <1>0, <2>3 DEF TypeOK, AcceptClient, StartWorkThread
    <3>5. UNCHANGED <<sendVars, connecting, childVars, childCleared, freeVars,
                      loopVars>>
      BY <2>3 DEF AcceptClient
    <3>6. QED
      BY <1>0, <3>1, <3>2, <3>3, <3>4, <3>5 DEF TypeOK
  <2>4. CASE AcceptClientFail(s)
    BY <1>0, <2>4 DEF TypeOK, AcceptClientFail, MallocSession, AllOpen
  <2>5. QED
    BY <1>1, <2>1, <2>2, <2>3, <2>4 DEF Create
<1>2. ASSUME NEW s \in Session, ConnectOk(s) \/ ConnectFail(s) PROVE TypeOK'
  <2>1. CASE ConnectOk(s)
    BY <1>0, <2>1 DEF TypeOK, ConnectOk, StartWorkThread
  <2>2. CASE ConnectFail(s)
    BY <1>0, <2>2, MarkDeadType DEF TypeOK, ConnectFail
  <2>3. QED
    BY <1>2, <2>1, <2>2
<1>3. ASSUME NEW s \in Session, AsyncFreeSession(s) \/ FreeSession(s) PROVE TypeOK'
  <2>1. CASE AsyncFreeSession(s)
    <3>1. idleOp' \in [Message -> Nat]
      BY <1>0, <2>1 DEF TypeOK, AsyncFreeSession, Message
    <3>2. QED
      BY <1>0, <2>1, <3>1, MarkDeadType DEF TypeOK, AsyncFreeSession
  <2>2. CASE FreeSession(s)
    BY <1>0, <2>2, MarkDeadType DEF TypeOK, FreeSession
  <2>3. QED
    BY <1>3, <2>1, <2>2
<1>4. ASSUME NEW s \in Session, FreeSessionOpeateStop(s) PROVE TypeOK'
  BY SMTT(30), <1>0, <1>4 DEF TypeOK, FreeSessionOpeateStop
<1>5. ASSUME NEW s \in Session, FreeSessionOpeateDirect(s) PROVE TypeOK'
  <2>1. opTimer[s] > 0 /\ opTimer[s] + waitTimer[s] > 0 /\ FreeSessionContinue(s)
    BY <1>5, Decrements DEF FreeSessionOpeateDirect
  <2>2. QED
    BY SMTT(30), <1>0, <1>5, <2>1, ContinueType DEF TypeOK, FreeSessionOpeateDirect
<1>6. ASSUME NEW s \in Session, CheckFreeSessionContinue(s) PROVE TypeOK'
  <2>1. waitTimer[s] > 0 /\ opTimer[s] + waitTimer[s] > 0 /\ FreeSessionContinue(s)
    BY <1>6, Decrements DEF CheckFreeSessionContinue
  <2>2. QED
    BY SMTT(30), <1>0, <1>6, <2>1, ContinueType DEF TypeOK, CheckFreeSessionContinue
<1>7. ASSUME NEW s \in Session, MainCloseCallbacks(s) PROVE TypeOK'
  <2>1. uvHandleRef[s] - PendingClose(s) \in Nat
    BY <1>7, Decrements DEF MainCloseCallbacks
  <2>2. uvHandleRef' \in [Session -> Nat]
    BY <1>0, <1>7, <2>1 DEF TypeOK, MainCloseCallbacks
  <2>3. handle' \in [Session -> [Handle ->
               {"null", "open", "closing", "closingCb", "closed"}]]
    BY <1>0, <1>7 DEF TypeOK, MainCloseCallbacks
  <2>4. /\ connecting' \in [Session -> BOOLEAN]
        /\ childCleared' \in [Session -> BOOLEAN]
    BY <1>0, <1>7 DEF TypeOK, MainCloseCallbacks
  <2>5. ctrl' \in [Session -> Seq({"START", "STOP"})]
    BY <1>0, <1>7 DEF TypeOK, MainCloseCallbacks
  <2>6. QED
    BY <1>0, <1>7, <2>2, <2>3, <2>4, <2>5 DEF TypeOK, MainCloseCallbacks
<1>8. ASSUME NEW s \in Session, FreeSessionFinally(s) PROVE TypeOK'
  <2>1. sessionRef > 0 /\ finIdle[s] > 0
    BY <1>8, Decrements DEF FreeSessionFinally
  <2>2. QED
    BY <1>0, <1>8, <2>1 DEF TypeOK, FreeSessionFinally
<1>9. ASSUME MainLoop PROVE TypeOK'
  <2>1. CASE MainAsyncCallback
    BY <1>0, <2>1 DEF TypeOK, MainAsyncCallback
  <2>2. CASE AsyncStopMainLoop
    BY <1>0, <2>2 DEF TypeOK, AsyncStopMainLoop, Message
  <2>3. CASE ClearSessions
    BY <1>0, <2>3 DEF TypeOK, ClearSessions
  <2>4. CASE ReMainLoopForInstanceClear
    BY <1>0, <2>4 DEF TypeOK, ReMainLoopForInstanceClear
  <2>5. QED
    BY <1>9, <2>1, <2>2, <2>3, <2>4 DEF MainLoop
<1>10. ASSUME NEW s \in Session,
              \/ SessionWorkThread(s) \/ WorkerUseAfterFree(s)
              \/ ReadCtrlFromMain(s) \/ WorkThreadStartSessionFail(s)
              \/ WorkerFinish(s)
       PROVE TypeOK'
  <2>1. CASE SessionWorkThread(s)
    BY <1>0, <2>1 DEF TypeOK, SessionWorkThread
  <2>2. CASE WorkerUseAfterFree(s)
    BY <1>0, <2>2 DEF TypeOK, WorkerUseAfterFree
  <2>3. CASE ReadCtrlFromMain(s)
    BY <1>0, <2>3 DEF TypeOK, ReadCtrlFromMain
  <2>4. CASE WorkThreadStartSessionFail(s)
    BY <1>0, <2>4 DEF TypeOK, WorkThreadStartSessionFail
  <2>5. CASE WorkerFinish(s)
    BY <1>0, <2>5 DEF TypeOK, WorkerFinish
  <2>6. QED
    BY <1>10, <2>1, <2>2, <2>3, <2>4, <2>5
<1>11. ASSUME NEW s \in Session, WorkThreadStartSession(s) PROVE TypeOK'
  <2>1. s \in Sender
    BY DEF Sender
  <2>2. /\ ref' \in [Session -> Nat]
        /\ holds' \in [Sender -> Session \cup {NoSession}]
        /\ early' \in [Sender -> BOOLEAN]
    BY <1>0, <1>11, <2>1, AcquireType DEF WorkThreadStartSession, TypeOK
  <2>3. batch' \in [Session -> Seq({"START", "STOP"})]
    BY <1>0, <1>11 DEF TypeOK, WorkThreadStartSession, Dispatching
  <2>4. QED
    BY <1>0, <1>11, <2>2, <2>3 DEF TypeOK, WorkThreadStartSession
<1>12. ASSUME NEW s \in Session, StopSession(s) PROVE TypeOK'
  <2>1. batch' \in [Session -> Seq({"START", "STOP"})]
    BY <1>0, <1>12 DEF TypeOK, StopSession, Dispatching
  <2>2. uvChildRef[s] + CountedClose(s) - AtOnceClose(s) \in Nat
    BY <1>0 DEF TypeOK, CountedClose, AtOnceClose
  <2>3. uvChildRef' \in [Session -> Nat]
    BY <1>0, <1>12, <2>2 DEF TypeOK, StopSession
  <2>4. QED
    BY <1>0, <1>12, <2>1, <2>3 DEF TypeOK, StopSession
<1>13. ASSUME NEW s \in Session, NEW h \in {"tcp", "poll"}, ChildCloseCallback(s, h)
       PROVE TypeOK'
  <2>1. uvChildRef[s] = ChildPending(s) /\ h \in childClosing[s]
    BY <1>13 DEF IInv, CtrlInv, CtrlOf, ChildCloseCallback, WorkerIdle
  <2>2. uvChildRef[s] - 1 \in Nat
    BY <2>1 DEF ChildPending
  <2>3. QED
    BY <1>0, <1>13, <2>2 DEF TypeOK, ChildCloseCallback
<1>14. ASSUME NEW s \in Session,
              PushFreeSession(s) \/ PostStopInstanceMessage(s) \/ ReadStreamError(s)
       PROVE TypeOK'
  <2>1. CASE PushFreeSession(s)
    BY SMTT(30), <1>0, <2>1 DEF TypeOK, PushFreeSession, Message
  <2>2. CASE PostStopInstanceMessage(s)
    <3>1. StopMainLoop \in Message
      BY DEF Message
    <3>2. lstMainThreadOP' \in [Message -> Nat]
      BY <1>0, <2>2, <3>1 DEF TypeOK, PostStopInstanceMessage
    <3>3. QED
      BY <1>0, <2>2, <3>2 DEF TypeOK, PostStopInstanceMessage
  <2>3. CASE ReadStreamError(s)
    <3>1. lstMainThreadOP' \in [Message -> Nat]
      BY <1>0, <2>3 DEF TypeOK, ReadStreamError, Message
    <3>2. QED
      BY <1>0, <2>3, <3>1 DEF TypeOK, ReadStreamError
  <2>4. QED
    BY <1>14, <2>1, <2>2, <2>3
<1>15. ASSUME NEW s \in Session, WorkerSend(s) PROVE TypeOK'
  <2>1. s \in Sender
    BY DEF Sender
  <2>2. QED
    BY <1>0, <1>15, <2>1, AcquireType DEF TypeOK, WorkerSend
<1>16. ASSUME NEW s \in Session, NEW t \in Thread, ThreadSend(t, s) PROVE TypeOK'
  <2>1. t \in Sender
    BY DEF Sender
  <2>2. QED
    BY <1>0, <1>16, <2>1, AcquireType DEF TypeOK, ThreadSend
<1>17. ASSUME NEW x \in Sender, SendEnd(x) PROVE TypeOK'
  <2>1. holds[x] \in Session
    BY <1>0, <1>17 DEF TypeOK, SendEnd
  <2>2. mem[holds[x]] = "live" => ref[holds[x]] - 1 \in Nat
    BY <2>1, HolderCounted
  <2>3. ref' \in [Session -> Nat]
    BY <1>0, <1>17, <2>1, <2>2 DEF TypeOK, SendEnd
  <2>4. QED
    BY <1>0, <1>17, <2>3 DEF TypeOK, SendEnd
<1>18. CASE UNCHANGED vars
  BY <1>0, <1>18 DEF TypeOK, vars
<1>19. QED
  BY <1>1, <1>2, <1>3, <1>4, <1>5, <1>6, <1>7, <1>8, <1>9, <1>10, <1>11,
     <1>12, <1>13, <1>14, <1>15, <1>16, <1>17, <1>18
     DEF Next, MainStep, WorkerStep, Environment

-----------------------------------------------------------------------------
(* The theorems *)

\* IInv holds in every reachable state, for any sets of sessions and threads.
THEOREM Invariance == Spec => []IInv
<1>1. IInv /\ [Next]_vars => IInv'
  BY TypeStep, MapStep, PipeStep, HandleStep, WorkerStepInv, CtrlStep,
     HolderStep, RefStep, CountStep DEF IInv
<1>2. QED
  BY InitIInv, <1>1, PTL DEF Spec

\* Every variable keeps its type; above all no counter of the session layer
\* (ref, uvHandleRef, uvChildRef, sessionRef) is decremented below zero.
THEOREM TypeCorrect == Spec => []TypeOK
<1>1. IInv => TypeOK
  BY DEF IInv
<1>2. QED
  BY Invariance, <1>1, PTL

\* ref counts the threads inside Send.
THEOREM RefsCounted == Spec => []RefCountsSenders
<1>1. IInv => RefCountsSenders
  BY DEF IInv, RefInv, RefOf, Holders, RefCountsSenders
<1>2. QED
  BY Invariance, <1>1, PTL

\* A reference taken before FreeSession marked the session dead protects it.
THEOREM EarlyReferenceSafe == Spec => []EarlyReferenceKeepsSession
<1>1. IInv => EarlyReferenceKeepsSession
  <2> SUFFICES ASSUME IInv, NEW x \in Sender, early[x]
               PROVE  holds[x] \in mapSession /\ mem[holds[x]] = "live"
    BY DEF EarlyReferenceKeepsSession
  <2>1. holds[x] \in Session /\ mem[holds[x]] = "live"
    BY DEF IInv, TypeOK, HolderInv, HolderOf
  <2>2. QED
    BY <2>1 DEF IInv, MapInv
<1>2. QED
  BY Invariance, <1>1, PTL

\* uvHandleRef counts the close callbacks FreeSessionFinally waits for.
THEOREM CallbacksCounted == Spec => []UvHandleRefCountsCallbacks
<1>1. IInv => UvHandleRefCountsCallbacks
  <2> SUFFICES ASSUME IInv, NEW s \in Session, mem[s] = "live"
               PROVE  uvHandleRef[s] = IF finIdle[s] > 0 THEN PendingClose(s) ELSE 3
    BY DEF UvHandleRefCountsCallbacks
  <2>1. finIdle[s] \in Nat /\ HandleOf(s)
    BY DEF IInv, TypeOK, HandleInv
  <2>2. QED
    BY <2>1 DEF HandleOf
<1>2. QED
  BY Invariance, <1>1, PTL

\* A session deleted by FreeSessionFinally has no handle, connect request, timer or
\* idle left on the main loop.
THEOREM DeletedOffTheLoop == Spec => []DeletedIsOffTheLoop
<1>1. IInv => DeletedIsOffTheLoop
  <2> SUFFICES ASSUME IInv, NEW s \in Session, mem[s] = "freed"
               PROVE  /\ \A h \in Handle : handle[s][h] = "closed"
                      /\ ~connecting[s]
                      /\ opTimer[s] + waitTimer[s] + finIdle[s] = 0
    BY DEF DeletedIsOffTheLoop
  <2>1. HandleOf(s) /\ PipeOf(s)
    BY DEF IInv, HandleInv, PipeInv
  <2>2. QED
    BY <2>1 DEF HandleOf, PipeOf
<1>2. QED
  BY Invariance, <1>1, PTL

\* A dead session is in exactly one stage of the free pipeline.
THEOREM PipelineUnique == Spec => []OneFreePipeline
<1>1. IInv => OneFreePipeline
  <2> SUFFICES ASSUME IInv, NEW s \in Session, mem[s] = "live"
               PROVE  opTimer[s] + waitTimer[s] + finIdle[s] = IF isDead[s] THEN 1 ELSE 0
    BY DEF OneFreePipeline
  <2>1. PipeOf(s) /\ isDead[s] \in BOOLEAN
    BY DEF IInv, PipeInv, TypeOK
  <2>2. QED
    BY <2>1 DEF PipeOf
<1>2. QED
  BY Invariance, <1>1, PTL

\* FreeSessionContinue of a stopped session comes after its worker thread.
THEOREM StoppedWorkerSafe == Spec => []StoppedWorkerFinishedFirst
<1>1. IInv => StoppedWorkerFinishedFirst
  BY DEF IInv, WorkerInv, WorkerOf, StoppedWorkerFinishedFirst
<1>2. QED
  BY Invariance, <1>1, PTL

\* The worker's loop stops only after its last close callback.
THEOREM ChildLoopClean == Spec => []ChildLoopStopsClean
<1>1. IInv => ChildLoopStopsClean
  BY DEF IInv, CtrlInv, CtrlOf, ChildLoopStopsClean
<1>2. QED
  BY Invariance, <1>1, PTL

\* An instance whose clearing loop ended by itself has no session left.
THEOREM StopsClean == Spec => []CleanStop
<1>1. IInv => CleanStop
  <2> SUFFICES ASSUME IInv, instance = "stopped"
               PROVE  mapSession = {} /\ \A s \in Session : mem[s] \in {"none", "freed"}
    BY DEF CleanStop
  <2>1. Accounted = {} /\ TypeOK /\ MapInv
    BY DEF IInv, CountInv
  <2>2. \A s \in Session : mem[s] \in {"none", "freed"}
    BY <2>1 DEF Accounted, TypeOK
  <2>3. QED
    BY <2>1, <2>2 DEF MapInv, TypeOK
<1>2. QED
  BY Invariance, <1>1, PTL

-----------------------------------------------------------------------------
(* Refinement *)

\* lifeOf, stage by stage.
LEMMA LifeAt ==
    ASSUME TypeOK, NEW s \in Session
    PROVE  /\ mem[s] \in {"none", "torn"} => lifeOf[s] = "none"
           /\ mem[s] = "freed" => lifeOf[s] = "gone"
           /\ mem[s] = "live" /\ isDead[s] => lifeOf[s] = "dying"
           /\ mem[s] = "live" /\ ~isDead[s] => lifeOf[s] = "alive"
  BY DEF TypeOK, lifeOf

\* What the refinement mapping reads.
LEMMA LifeSame ==
    ASSUME UNCHANGED <<mem, isDead>> PROVE lifeOf' = lifeOf
  BY DEF lifeOf

\* Steps without a sender keep what the mapping says of references.
LEMMA HeldSame ==
    ASSUME UNCHANGED sendVars PROVE heldBy' = heldBy
  BY DEF heldBy, sendVars

\* Every step of the session layer is a step of SessionLife or none.
LEMMA LifeStep ==
    IInv /\ IInv' /\ [Next]_vars => [Life!LifeNext]_<<lifeOf, heldBy>>
<1> SUFFICES ASSUME IInv, IInv', [Next]_vars
             PROVE  Life!LifeNext \/ UNCHANGED <<lifeOf, heldBy>>
  BY DEF Life!lifeVars
<1>0. TypeOK /\ MapInv /\ PipeInv /\ HolderInv /\ TypeOK'
  BY DEF IInv
<1>1. ASSUME NEW s \in Session, MallocSessionFail(s)
      PROVE  UNCHANGED <<lifeOf, heldBy>>
  <2>1. /\ mem[s] = "none" /\ mem' = [mem EXCEPT ![s] = "torn"]
        /\ UNCHANGED isDead /\ UNCHANGED sendVars
    BY <1>1 DEF MallocSessionFail, freeVars
  <2>2. lifeOf' = lifeOf
    BY <1>0, <2>1 DEF lifeOf, TypeOK
  <2>3. QED
    BY <2>1, <2>2, HeldSame
<1>2. ASSUME NEW s \in Session,
             ConnectDaemon(s) \/ AcceptClient(s) \/ AcceptClientFail(s)
      PROVE  Life!LifeNext
  <2>1. /\ mem[s] = "none" /\ mem' = [mem EXCEPT ![s] = "live"] /\ UNCHANGED sendVars
        /\ isDead' = isDead \/ isDead' = [isDead EXCEPT ![s] = TRUE]
    BY <1>2 DEF ConnectDaemon, AcceptClient, AcceptClientFail, MallocSession,
           freeVars
  <2>2. PICK l \in {"alive", "dying"} : l = IF isDead'[s] THEN "dying" ELSE "alive"
    OBVIOUS
  <2>3. lifeOf[s] = "none"
    BY <1>0, <2>1, LifeAt
  <2>4. lifeOf' = [lifeOf EXCEPT ![s] = l]
    <3>1. CASE isDead' = isDead
      <4>1. ~isDead[s] /\ l = "alive"
        BY <1>0, <2>1, <2>2, <3>1 DEF PipeInv, PipeOf
      <4>2. lifeOf'[s] = "alive"
        BY <1>0, <2>1, <3>1, <4>1 DEF lifeOf, TypeOK
      <4>3. \A q \in Session : q # s => lifeOf'[q] = lifeOf[q]
        BY <1>0, <2>1, <3>1 DEF lifeOf, TypeOK
      <4>4. QED
        BY <4>1, <4>2, <4>3 DEF lifeOf
    <3>2. CASE isDead' = [isDead EXCEPT ![s] = TRUE]
      <4>1. l = "dying"
        BY <1>0, <2>2, <3>2 DEF TypeOK
      <4>2. QED
        BY <1>0, <2>1, <3>2, <4>1 DEF lifeOf, TypeOK
    <3>3. QED
      BY <2>1, <3>1, <3>2
  <2>5. Life!Open(s, l)
    BY <2>1, <2>3, <2>4, HeldSame DEF Life!Open
  <2>6. QED
    BY <2>5 DEF Life!LifeNext
<1>3. ASSUME NEW S \in SUBSET mapSession, \A s \in S : ~isDead[s],
             isDead' = [s \in Session |-> isDead[s] \/ s \in S],
             UNCHANGED <<memVars, sendVars>>
      PROVE  Life!LifeNext
  <2>1. S \in SUBSET Session /\ UNCHANGED mem /\ \A s \in S : mem[s] = "live"
    BY <1>0, <1>3 DEF MapInv, TypeOK, memVars
  <2>2. \A s \in S : lifeOf[s] = "alive"
    BY <1>0, <1>3, <2>1, LifeAt
  <2>3. lifeOf' = [s \in Session |-> IF s \in S THEN "dying" ELSE lifeOf[s]]
    BY <1>0, <1>3, <2>1 DEF lifeOf, TypeOK
  <2>4. Life!Kill(S)
    BY <1>3, <2>2, <2>3, HeldSame DEF Life!Kill
  <2>5. QED
    BY <2>1, <2>4 DEF Life!LifeNext
<1>4. ASSUME NEW s \in Session, MarkDead(s), UNCHANGED <<memVars, sendVars>>
      PROVE  Life!LifeNext \/ UNCHANGED <<lifeOf, heldBy>>
  <2>1. CASE s \in mapSession /\ ~isDead[s]
    <3>1. isDead' = [isDead EXCEPT ![s] = TRUE]
      BY <1>4, <2>1 DEF MarkDead
    <3>2. isDead' = [q \in Session |-> isDead[q] \/ q \in {s}]
      BY <1>0, <3>1 DEF TypeOK
    <3>3. {s} \in SUBSET mapSession /\ \A q \in {s} : ~isDead[q]
      BY <2>1
    <3>4. QED
      BY <1>3, <1>4, <3>2, <3>3
  <2>2. CASE ~(s \in mapSession /\ ~isDead[s])
    <3>1. UNCHANGED <<mem, isDead>>
      BY <1>4, <2>2 DEF MarkDead, memVars
    <3>2. QED
      BY <1>4, <3>1, LifeSame, HeldSame
  <2>3. QED
    BY <2>1, <2>2
<1>5. ASSUME ClearSessions PROVE Life!LifeNext
  <2>1. Broadcast \in SUBSET mapSession /\ \A s \in Broadcast : ~isDead[s]
    BY DEF Broadcast
  <2>2. QED
    BY <1>3, <1>5, <2>1 DEF ClearSessions
<1>6. ASSUME NEW s \in Session, FreeSessionFinally(s) PROVE Life!LifeNext
  <2>1. /\ finIdle[s] > 0 /\ mem' = [mem EXCEPT ![s] = "freed"]
        /\ UNCHANGED sendVars /\ UNCHANGED isDead
    BY <1>6 DEF FreeSessionFinally
  <2>2. /\ opTimer[s] \in Nat /\ waitTimer[s] \in Nat /\ finIdle[s] \in Nat
        /\ PipeOf(s)
    BY <1>0 DEF TypeOK, PipeInv
  <2>3. mem[s] = "live" /\ isDead[s] /\ ~(opTimer[s] > 0)
    BY <2>1, <2>2 DEF PipeOf
  <2>4. lifeOf[s] = "dying"
    BY <1>0, <2>3, LifeAt
  <2>5. \A x \in Sender : heldBy[x] # s
    <3> SUFFICES ASSUME NEW x \in Sender, heldBy[x] = s PROVE FALSE
      OBVIOUS
    <3>1. early[x] /\ holds[x] = s
      BY SessionAssumption DEF heldBy
    <3>2. QED
      BY <1>0, <2>3, <3>1 DEF HolderInv, HolderOf
  <2>6. lifeOf' = [lifeOf EXCEPT ![s] = "gone"]
    BY <1>0, <2>1 DEF lifeOf, TypeOK
  <2>7. Life!Destroy(s)
    BY <2>1, <2>4, <2>5, <2>6, HeldSame DEF Life!Destroy
  <2>8. QED
    BY <2>7 DEF Life!LifeNext
<1>7. ASSUME NEW x \in Sender, NEW s \in Session, s \in mapSession,
             holds[x] = NoSession, Acquire(x, s), UNCHANGED <<memVars, freeVars>>
      PROVE  Life!LifeNext \/ UNCHANGED <<lifeOf, heldBy>>
  <2>1. lifeOf' = lifeOf /\ mem[s] = "live"
    BY <1>0, <1>7, LifeSame DEF memVars, freeVars, MapInv
  <2>2. heldBy[x] = NoSession
    BY <1>7 DEF heldBy
  <2>3. /\ holds' = [holds EXCEPT ![x] = s]
        /\ early' = [early EXCEPT ![x] = ~isDead[s]]
    BY <1>7 DEF Acquire
  <2>4. CASE isDead[s]
    <3>1. heldBy' = heldBy
      BY <1>0, <1>7, <2>3, <2>4 DEF heldBy, TypeOK
    <3>2. QED
      BY <2>1, <3>1
  <2>5. CASE ~isDead[s]
    <3>1. heldBy' = [heldBy EXCEPT ![x] = s]
      BY <1>0, <2>3, <2>5 DEF heldBy, TypeOK
    <3>2. Life!Hold(x, s)
      BY <1>0, <2>1, <2>2, <2>5, <3>1, LifeAt DEF Life!Hold
    <3>3. QED
      BY <3>2 DEF Life!LifeNext
  <2>6. QED
    BY <2>4, <2>5
<1>8. ASSUME NEW x \in Sender, SendEnd(x) PROVE Life!LifeNext
  <2>1. /\ holds' = [holds EXCEPT ![x] = NoSession]
        /\ early' = [early EXCEPT ![x] = FALSE]
        /\ UNCHANGED <<mem, isDead>>
    BY <1>8 DEF SendEnd, memVars, freeVars
  <2>2. heldBy' = [heldBy EXCEPT ![x] = NoSession]
    BY <1>0, <2>1 DEF heldBy, TypeOK
  <2>3. Life!Release(x)
    BY <2>1, <2>2, LifeSame DEF Life!Release
  <2>4. QED
    BY <2>3 DEF Life!LifeNext
<1>9. ASSUME NEW s \in Session,
             ConnectFail(s) \/ AsyncFreeSession(s) \/ FreeSession(s)
      PROVE  Life!LifeNext \/ UNCHANGED <<lifeOf, heldBy>>
  BY <1>4, <1>9 DEF ConnectFail, AsyncFreeSession, FreeSession
<1>10. ASSUME NEW s \in Session, WorkThreadStartSession(s) \/ WorkerSend(s)
       PROVE  Life!LifeNext \/ UNCHANGED <<lifeOf, heldBy>>
  <2>1. s \in Sender /\ holds[s] = NoSession /\ UNCHANGED <<memVars, freeVars>>
    BY <1>10 DEF Sender, WorkThreadStartSession, Dispatching, WorkerSend
  <2>2. \/ s \in mapSession /\ Acquire(s, s)
        \/ UNCHANGED sendVars
    BY <1>10 DEF WorkThreadStartSession, WorkerSend
  <2>3. UNCHANGED <<mem, isDead>>
    BY <2>1 DEF memVars, freeVars
  <2>4. QED
    BY <1>7, <2>1, <2>2, <2>3, LifeSame, HeldSame
<1>11. ASSUME NEW s \in Session, NEW t \in Thread, ThreadSend(t, s)
       PROVE  Life!LifeNext \/ UNCHANGED <<lifeOf, heldBy>>
  BY <1>7, <1>11 DEF ThreadSend, Sender
<1>12. CASE UNCHANGED <<mem, isDead, sendVars>>
  BY <1>12, LifeSame, HeldSame
<1>13. QED
  BY <1>1, <1>2, <1>5, <1>6, <1>8, <1>9, <1>10, <1>11, <1>12
     DEF Next, Create, MainStep, MainLoop, WorkerStep, Environment, vars,
         memVars, freeVars, ConnectOk, FreeSessionOpeateStop,
         FreeSessionOpeateDirect, CheckFreeSessionContinue,
         MainCloseCallbacks, MainAsyncCallback, AsyncStopMainLoop,
         ReMainLoopForInstanceClear, SessionWorkThread, WorkerUseAfterFree,
         ReadCtrlFromMain, WorkThreadStartSessionFail, StopSession,
         ChildCloseCallback, WorkerFinish, PushFreeSession,
         PostStopInstanceMessage, ReadStreamError

\* The session layer implements SessionLife, for any sets of sessions and
\* threads.
THEOREM Refinement == Spec => ImplementsSessionLife
<1>1. Init => Life!LifeInit
  <2> SUFFICES ASSUME Init PROVE Life!LifeInit
    OBVIOUS
  <2>1. lifeOf = [s \in Session |-> "none"]
    BY DEF Init, lifeOf
  <2>2. heldBy = [x \in Sender |-> NoSession]
    BY DEF Init, heldBy
  <2>3. QED
    BY <2>1, <2>2 DEF Life!LifeInit
<1>2. QED
  BY <1>1, LifeStep, Invariance, PTL
     DEF Spec, ImplementsSessionLife, Life!LifeSpec, Life!lifeVars

\* What the server's run checks of the references: ref is the number of the
\* senders inside a session, and a reference taken in time keeps it.
THEOREM ReferencesSafe == Spec => []SessionReferences
<1>1. RefCountsSenders /\ EarlyReferenceKeepsSession => SessionReferences
  BY DEF SessionReferences
<1>2. QED
  BY <1>1, RefsCounted, EarlyReferenceSafe, PTL

\* What the server's run checks of the free of a session (FreeSession to
\* FreeSessionFinally): by one pipeline, after the worker where SP_STOP_SESSION
\* was sent, and with nothing left on the main loop.
THEOREM PipelineSafe == Spec => []SessionPipeline
<1>1. TypeOK /\ OneFreePipeline /\ StoppedWorkerFinishedFirst /\ DeletedIsOffTheLoop
        => SessionPipeline
  BY DEF SessionPipeline
<1>2. QED
  BY <1>1, TypeCorrect, PipelineUnique, StoppedWorkerSafe, DeletedOffTheLoop, PTL

\* What the daemon's run checks of its stop: the counts it waits for are true.
THEOREM DaemonStopsClean == Spec => []DaemonStops
<1>1. UvHandleRefCountsCallbacks /\ ChildLoopStopsClean /\ CleanStop => DaemonStops
  BY DEF DaemonStops
<1>2. QED
  BY <1>1, CallbacksCounted, ChildLoopClean, StopsClean, PTL
=============================================================================
