------------------------- MODULE HdcConnect_proofs --------------------------
(***************************************************************************)
(* Proofs about how a session comes to be: the authentication of its       *)
(* handshake, the list of targets it is entered in, and the subservers that *)
(* take devices over.  The inductive invariant of each part is at the end of *)
(* its module.                                                             *)
(***************************************************************************)
EXTENDS HdcHandshake, HdcTargets, HdcSubserver, TLAPS

-----------------------------------------------------------------------------
(* The handshake                                                           *)

\* A step that records no key and no success, and gives the TLS wait to nobody.
LEMMA AuthKept ==
    ASSUME AuthInv, UNCHANGED hcfg, DOMAIN hdmn' = DOMAIN hdmn, DOMAIN hhist' = DOMAIN hhist,
           hdmn'.pc = "ssl wait" => hdmn.pc = "ssl wait" /\ hdmn'.sid = hdmn.sid,
           hhist'.allowed = hhist.allowed, hhist'.proved = hhist.proved, hhist'.ran = hhist.ran,
           DOMAIN hauth' = Ids, \A i \in Ids : DOMAIN hauth'[i] = {"type", "token", "key"},
           \A i \in Ids : hauth'[i].type \in {hauth[i].type, "none", "fail"}
    PROVE  AuthInv'
<1>1. authEnable' <=> authEnable
  BY DEF authEnable, GetAuthByPassValue
<1>2. HandshakeShape'
  BY DEF AuthInv, HandshakeShape
<1>3. StatusEarned'
  BY <1>1 DEF AuthInv, StatusEarned
<1>4. TasksAuthorised'
  BY <1>1 DEF AuthInv, TasksAuthorised
<1>5. QED
  BY <1>2, <1>3, <1>4 DEF AuthInv

\* A write of mapAuthStatus that concerns the session i only.
TypeSet(f, i, t) ==
  /\ DOMAIN f = Ids
  /\ \A j \in Ids : /\ DOMAIN f[j] = {"type", "token", "key"}
                    /\ f[j].type = IF j = i THEN t ELSE hauth[j].type

\* InitSessionAuthInfo records no key and no success.
LEMMA InitSessionAuthInfoSets ==
    ASSUME HandshakeShape, NEW i PROVE TypeSet(InitSessionAuthInfo(i), i, "none")
  BY DEF HandshakeShape, InitSessionAuthInfo, NoAuth, TypeSet

\* UpdateSessionAuthOk records success for one session.
LEMMA UpdateSessionAuthOkSets ==
    ASSUME HandshakeShape, NEW i PROVE TypeSet(UpdateSessionAuthOk(i), i, "ok")
  BY DEF HandshakeShape, UpdateSessionAuthOk, NoAuth, TypeSet

\* UpdateSessionAuthPubkey records the key of one session.
LEMMA UpdateSessionAuthPubkeySets ==
    ASSUME HandshakeShape, NEW i, NEW k PROVE TypeSet(UpdateSessionAuthPubkey(i, k), i, "pubkey")
  BY DEF HandshakeShape, UpdateSessionAuthPubkey, TypeSet

\* UpdateSessionAuthmsg records the refusal of one session.
LEMMA UpdateSessionAuthmsgSets ==
    ASSUME HandshakeShape, NEW i PROVE TypeSet(UpdateSessionAuthmsg(i), i, "fail")
  BY DEF HandshakeShape, UpdateSessionAuthmsg, TypeSet

\* No session has a status before its first message.
LEMMA AuthInit == HandshakeInit => AuthInv
<1> SUFFICES ASSUME HandshakeInit PROVE AuthInv
  OBVIOUS
<1>1. HandshakeShape
  BY DEF HandshakeInit, HandshakeShape, NewDaemonSession, NoAuth
<1>2. StatusEarned
  BY DEF HandshakeInit, StatusEarned, NewDaemonSession, NoAuth
<1>3. TasksAuthorised
  BY DEF HandshakeInit, TasksAuthorised
<1>4. QED
  BY <1>1, <1>2, <1>3 DEF AuthInv

\* The answer to a host leaves the session of the daemon where it is.
LEMMA OkMsgKeeps ==
    ASSUME NEW d, NEW u, DOMAIN d = DOMAIN hdmn, HandshakeShape, SendAuthOkMsg(d, u)
    PROVE  DOMAIN hdmn' = DOMAIN hdmn /\ hdmn'.pc = d.pc /\ hdmn'.sid = d.sid
  BY DEF SendAuthOkMsg, HandshakeShape

\* HandleAuthFailed gives no status away.
LEMMA AuthFailedKeeps ==
    ASSUME AuthInv, NEW d, DOMAIN d = DOMAIN hdmn, d.pc = "idle", HandleAuthFailed(d), UNCHANGED <<hcfg, hhist>>
    PROVE  AuthInv'
<1>1. DOMAIN hdmn' = DOMAIN hdmn /\ hdmn'.pc = "idle"
  BY OkMsgKeeps DEF AuthInv, HandleAuthFailed
<1>2. /\ DOMAIN hauth' = Ids
      /\ \A j \in Ids : /\ DOMAIN hauth'[j] = {"type", "token", "key"}
                        /\ hauth'[j].type = IF j = d.sid THEN "fail" ELSE hauth[j].type
  BY UpdateSessionAuthmsgSets DEF AuthInv, HandleAuthFailed, TypeSet
<1>3. QED
  BY <1>1, <1>2, AuthKept

\* The key of a host that is allowed.
LEMMA AuthMsgKeeps ==
    ASSUME AuthInv, NEW d, NEW k, DOMAIN d = DOMAIN hdmn, d.pc = "idle", SendAuthMsg(d, k), UNCHANGED hcfg
    PROVE  AuthInv'
<1>1. authEnable' <=> authEnable
  BY DEF authEnable, GetAuthByPassValue
<1>2. hdmn' = d
  BY DEF SendAuthMsg
<1>3. /\ DOMAIN hauth' = Ids
      /\ \A j \in Ids : /\ DOMAIN hauth'[j] = {"type", "token", "key"}
                        /\ hauth'[j].type = IF j = d.sid THEN "pubkey" ELSE hauth[j].type
  BY UpdateSessionAuthPubkeySets DEF AuthInv, SendAuthMsg, TypeSet
<1>4. /\ DOMAIN hhist' = DOMAIN hhist /\ hhist'.allowed = hhist.allowed \cup {d.sid}
      /\ hhist'.proved = hhist.proved /\ hhist'.ran = hhist.ran
  BY DEF SendAuthMsg, Lapse, Allow, AuthInv, HandshakeShape
<1>5. HandshakeShape'
  BY <1>2, <1>3, <1>4 DEF AuthInv, HandshakeShape
<1>6. StatusEarned'
  BY <1>1, <1>2, <1>3, <1>4 DEF AuthInv, StatusEarned
<1>7. TasksAuthorised'
  BY <1>1, <1>4 DEF AuthInv, TasksAuthorised
<1>8. QED
  BY <1>5, <1>6, <1>7 DEF AuthInv

\* Success, for a host that was allowed and has proved its key.
LEMMA AuthOkKeeps ==
    ASSUME AuthInv, NEW d, DOMAIN d = DOMAIN hdmn, d.pc = "idle", SendAuthOkMsg(d, FALSE), UNCHANGED hcfg,
           hauth' = UpdateSessionAuthOk(d.sid), NEW b, hhist' = Lapse(Prove(d.sid), "wait", b),
           authEnable => d.sid \in hhist.allowed
    PROVE  AuthInv'
<1>1. authEnable' <=> authEnable
  BY DEF authEnable, GetAuthByPassValue
<1>2. DOMAIN hdmn' = DOMAIN hdmn /\ hdmn'.pc = "idle"
  BY OkMsgKeeps DEF AuthInv
<1>3. /\ DOMAIN hauth' = Ids
      /\ \A j \in Ids : /\ DOMAIN hauth'[j] = {"type", "token", "key"}
                        /\ hauth'[j].type = IF j = d.sid THEN "ok" ELSE hauth[j].type
  BY UpdateSessionAuthOkSets DEF AuthInv, TypeSet
<1>4. /\ DOMAIN hhist' = DOMAIN hhist /\ hhist'.proved = hhist.proved \cup {d.sid}
      /\ hhist'.allowed = hhist.allowed /\ hhist'.ran = hhist.ran
  BY DEF Lapse, Prove, AuthInv, HandshakeShape
<1>5. HandshakeShape'
  BY <1>2, <1>3, <1>4 DEF AuthInv, HandshakeShape
<1>6. StatusEarned'
  BY <1>1, <1>2, <1>3, <1>4 DEF AuthInv, StatusEarned
<1>7. TasksAuthorised'
  BY <1>1, <1>4 DEF AuthInv, TasksAuthorised
<1>8. QED
  BY <1>5, <1>6, <1>7 DEF AuthInv

\* HandDaemonAuth as a whole.
LEMMA HandDaemonAuthKeeps ==
    ASSUME AuthInv, NEW d, NEW m, DOMAIN d = DOMAIN hdmn, d.pc = "idle", HandDaemonAuth(d, m), UNCHANGED hcfg
    PROVE  AuthInv'
<1>0. authEnable' <=> authEnable
  BY DEF authEnable, GetAuthByPassValue
<1>1. CASE NoAuthNeeded
  <2>1. /\ hauth' = UpdateSessionAuthOk(d.sid) /\ SendAuthOkMsg(d, FALSE) /\ UNCHANGED hhist /\ ~authEnable
    BY <1>1 DEF HandDaemonAuth, NoAuthNeeded
  <2>2. DOMAIN hdmn' = DOMAIN hdmn
    BY <2>1, OkMsgKeeps DEF AuthInv
  <2>3. DOMAIN hauth' = Ids /\ \A j \in Ids : DOMAIN hauth'[j] = {"type", "token", "key"}
    BY <2>1, UpdateSessionAuthOkSets DEF AuthInv, TypeSet
  <2>4. HandshakeShape' /\ StatusEarned'
    BY <1>0, <2>1, <2>2, <2>3 DEF AuthInv, HandshakeShape, StatusEarned
  <2>5. TasksAuthorised'
    BY <1>0, <2>1 DEF AuthInv, TasksAuthorised
  <2>6. QED
    BY <2>4, <2>5 DEF AuthInv
<1>2. CASE ~NoAuthNeeded /\ (hcfg.host = "low" \/ (hcfg.validation /\ ~d.conval))
  <2>1. HandleAuthFailed(d) /\ UNCHANGED hhist
    BY <1>2 DEF HandDaemonAuth
  <2>2. QED
    BY <2>1, AuthFailedKeeps
<1>3. CASE ~NoAuthNeeded /\ ~(hcfg.host = "low" \/ (hcfg.validation /\ ~d.conval))
  <2>1. CASE HandDaemonAuthInit(d) /\ UNCHANGED hhist
    <3>1. hdmn' = d /\ hauth' = InitSessionAuthInfo(d.sid)
      BY <2>1 DEF HandDaemonAuthInit
    <3>2. /\ DOMAIN hauth' = Ids
          /\ \A j \in Ids : /\ DOMAIN hauth'[j] = {"type", "token", "key"}
                            /\ hauth'[j].type = IF j = d.sid THEN "none" ELSE hauth[j].type
      BY <3>1, InitSessionAuthInfoSets DEF AuthInv, TypeSet
    <3>3. QED
      BY <2>1, <3>1, <3>2, AuthKept
  <2>2. CASE HandDaemonAuthPubkey(d, m.body.key)
    <3> DEFINE k == m.body.key
    <3>1. CASE SendAuthMsg(d, k)
      BY <3>1, AuthMsgKeeps
    <3>2. CASE /\ hdmn' = DaemonFree(d) /\ UNCHANGED hhist
               /\ hauth' = UpdateSessionAuthmsg(d.sid)
      <4>1. DOMAIN hdmn' = DOMAIN hdmn /\ hdmn'.pc = "idle"
        BY <3>2 DEF DaemonFree, AuthInv, HandshakeShape
      <4>2. /\ DOMAIN hauth' = Ids
            /\ \A j \in Ids : /\ DOMAIN hauth'[j] = {"type", "token", "key"}
                              /\ hauth'[j].type = IF j = d.sid THEN "fail" ELSE hauth[j].type
        BY <3>2, UpdateSessionAuthmsgSets DEF AuthInv, TypeSet
      <4>3. QED
        BY <3>2, <4>1, <4>2, AuthKept
    <3>3. CASE hdmn' = [d EXCEPT !.pc = "dialog", !.key = k] /\ UNCHANGED <<hauth, hhist>>
      <4>1. DOMAIN hdmn' = DOMAIN hdmn /\ hdmn'.pc = "dialog"
        BY <3>3 DEF AuthInv, HandshakeShape
      <4>2. DOMAIN hauth = Ids /\ \A j \in Ids : DOMAIN hauth[j] = {"type", "token", "key"}
        BY DEF AuthInv, HandshakeShape
      <4>3. QED
        BY <3>3, <4>1, <4>2, AuthKept
    <3>4. QED
      BY <2>2, <3>1, <3>2, <3>3 DEF HandDaemonAuthPubkey, HandConnectValidationPubkey
  <2>3. CASE GetSessionAuthStatus(d.sid) = "pubkey" /\ HandDaemonAuthSignature(d, m.body)
    <3>1. d.sid \in Ids /\ hauth[d.sid].type = "pubkey"
      BY <2>3 DEF GetSessionAuthStatus
    <3>2. authEnable => d.sid \in hhist.allowed
      BY <3>1 DEF AuthInv, StatusEarned
    <3>3. CASE AuthVerify(d, m.body)
      <4>1. hauth' = UpdateSessionAuthOk(d.sid) /\ SendAuthOkMsg(d, FALSE) /\ hhist' = Prove(d.sid)
        BY <2>3, <3>3 DEF HandDaemonAuthSignature, AuthVerify
      <4>2. hhist' = Lapse(Prove(d.sid), "wait", FALSE)
        BY <4>1 DEF Lapse
      <4>3. QED
        BY <3>2, <4>1, <4>2, AuthOkKeeps
    <3>4. CASE ~AuthVerify(d, m.body)
      <4>1. HandleAuthFailed(d) /\ UNCHANGED hhist
        BY <2>3, <3>4 DEF HandDaemonAuthSignature
      <4>2. QED
        BY <4>1, AuthFailedKeeps
    <3>5. QED
      BY <3>3, <3>4
  <2>4. CASE GetSessionAuthStatus(d.sid) = "pubkey" /\ DaemonSSLHandshake(d)
    <3>1. d.sid \in Ids /\ hauth[d.sid].type = "pubkey"
      BY <2>4 DEF GetSessionAuthStatus
    <3>2. authEnable => d.sid \in hhist.allowed
      BY <3>1 DEF AuthInv, StatusEarned
    <3>3. UNCHANGED <<hauth, hhist>>
      BY <2>4 DEF DaemonSSLHandshake
    <3>4. DOMAIN hdmn' = DOMAIN hdmn /\ hdmn'.sid = d.sid
      <4>1. CASE d.tls = 0
        BY <2>4, <4>1 DEF DaemonSSLHandshake, PerformHandshake, AuthInv, HandshakeShape
      <4>2. CASE d.tls # 0
        BY <2>4, <4>2 DEF DaemonSSLHandshake, PerformHandshake, SetHandshakeLabel, AuthInv, HandshakeShape
      <4>3. QED
        BY <4>1, <4>2
    <3>5. HandshakeShape' /\ StatusEarned'
      BY <1>0, <3>2, <3>3, <3>4 DEF AuthInv, HandshakeShape, StatusEarned
    <3>6. TasksAuthorised'
      BY <1>0, <3>3 DEF AuthInv, TasksAuthorised
    <3>7. QED
      BY <3>5, <3>6 DEF AuthInv
  <2>5. CASE hdmn' = DaemonFree(d) /\ UNCHANGED <<hauth, hhist>>
    <3>1. DOMAIN hdmn' = DOMAIN hdmn /\ hdmn'.pc = "idle"
      BY <2>5 DEF DaemonFree, AuthInv, HandshakeShape
    <3>2. DOMAIN hauth = Ids /\ \A j \in Ids : DOMAIN hauth[j] = {"type", "token", "key"}
      BY DEF AuthInv, HandshakeShape
    <3>3. QED
      BY <2>5, <3>1, <3>2, AuthKept
  <2>6. CASE hdmn' = d /\ UNCHANGED <<hauth, hhist>>
    <3>1. DOMAIN hauth = Ids /\ \A j \in Ids : DOMAIN hauth[j] = {"type", "token", "key"}
      BY DEF AuthInv, HandshakeShape
    <3>2. QED
      BY <2>6, <3>1, AuthKept
  <2>7. QED
    BY <1>3, <2>1, <2>2, <2>3, <2>4, <2>5, <2>6 DEF HandDaemonAuth
<1>4. QED
  BY <1>1, <1>2, <1>3

\* Every message of either side keeps the status of a session earned: it is set by
\* the step of HandDaemonAuth that has just checked the token.
LEMMA AuthStep == AuthInv /\ [HandshakeNext]_hsVars => AuthInv'
<1> SUFFICES ASSUME AuthInv, [HandshakeNext]_hsVars PROVE AuthInv'
  OBVIOUS
<1>0. DOMAIN hauth = Ids /\ \A j \in Ids : DOMAIN hauth[j] = {"type", "token", "key"}
  BY DEF AuthInv, HandshakeShape
<1>1. CASE WorkThreadInitSession
  <2>1. DOMAIN hdmn' = DOMAIN hdmn /\ hdmn'.pc = "idle" /\ UNCHANGED <<hcfg, hauth, hhist>>
    BY <1>1 DEF WorkThreadInitSession, NewDaemonSession, AuthInv, HandshakeShape
  <2>2. QED
    BY <1>0, <2>1, AuthKept
<1>2. CASE PeerClosed
  <2>1. /\ DOMAIN hdmn' = DOMAIN hdmn /\ (hdmn'.pc = "idle" \/ hdmn' = hdmn)
        /\ UNCHANGED <<hcfg, hauth, hhist>>
    BY <1>2 DEF PeerClosed, DaemonFree, AuthInv, HandshakeShape
  <2>2. QED
    BY <1>0, <2>1, AuthKept
<1>3. CASE ConnectionLost \/ ServerRead \/ ServerTask
  <2>1. UNCHANGED <<hcfg, hdmn, hauth, hhist>>
    BY <1>3 DEF ConnectionLost, ServerRead, ServerTask
  <2>2. QED
    BY <1>0, <2>1, AuthKept
<1>4. CASE ServerSessionHandshake
  <2>1. UNCHANGED <<hcfg, hdmn, hauth>> /\ (UNCHANGED hhist \/ hhist' = [hhist EXCEPT !.garbled = TRUE])
    BY <1>4 DEF ServerSessionHandshake
  <2>2. /\ DOMAIN hhist' = DOMAIN hhist /\ hhist'.allowed = hhist.allowed /\ hhist'.proved = hhist.proved
        /\ hhist'.ran = hhist.ran
    BY <2>1 DEF AuthInv, HandshakeShape
  <2>3. QED
    BY <1>0, <2>1, <2>2, AuthKept
<1>5. CASE DaemonRead
  <2>1. /\ DOMAIN hdmn' = DOMAIN hdmn /\ hdmn'.pc = hdmn.pc /\ hdmn'.sid = hdmn.sid
        /\ UNCHANGED <<hcfg, hauth, hhist>>
    BY <1>5 DEF DaemonRead, AuthInv, HandshakeShape
  <2>2. QED
    BY <1>0, <2>1, AuthKept
<1>6. CASE DaemonSessionHandshake
  <2> DEFINE r == Head(hdmn.io)
             n == Next_io(hdmn)
  <2>1. DOMAIN n = DOMAIN hdmn /\ n.pc = "idle" /\ UNCHANGED hcfg
    BY <1>6 DEF DaemonSessionHandshake, Next_io, AuthInv, HandshakeShape
  <2>2. CASE hdmn' = DaemonFree(n) /\ hhist' = [hhist EXCEPT !.garbled = TRUE] /\ UNCHANGED hauth
    <3>1. DOMAIN hdmn' = DOMAIN hdmn /\ hdmn'.pc = "idle"
      BY <2>1, <2>2 DEF DaemonFree, AuthInv, HandshakeShape
    <3>2. /\ DOMAIN hhist' = DOMAIN hhist /\ hhist'.allowed = hhist.allowed /\ hhist'.proved = hhist.proved
          /\ hhist'.ran = hhist.ran
      BY <2>2 DEF AuthInv, HandshakeShape
    <3>3. QED
      BY <1>0, <2>1, <2>2, <3>1, <3>2, AuthKept
  <2>3. CASE HandDaemonAuth(n, r.m)
    BY <2>1, <2>3, HandDaemonAuthKeeps
  <2>4. CASE HandDaemonAuth(DaemonSessionHandshakeInit(n, r.m.body), r.m)
    <3> DEFINE d == DaemonSessionHandshakeInit(n, r.m.body)
    <3>1. DOMAIN d = DOMAIN hdmn /\ d.pc = "idle"
      BY <2>1 DEF DaemonSessionHandshakeInit, AuthInv, HandshakeShape
    <3> HIDE DEF d
    <3>2. QED
      BY <2>1, <2>4, <3>1, HandDaemonAuthKeeps DEF d
  <2>5. QED
    BY <1>6, <2>2, <2>3, <2>4 DEF DaemonSessionHandshake
<1>7. CASE FetchTask
  <2>1. /\ DOMAIN hdmn' = DOMAIN hdmn /\ hdmn'.pc = hdmn.pc /\ hdmn'.sid = hdmn.sid
        /\ UNCHANGED <<hcfg, hauth>>
    BY <1>7 DEF FetchTask, Next_io, AuthInv, HandshakeShape
  <2>2. CASE UNCHANGED hhist
    BY <1>0, <2>1, <2>2, AuthKept
  <2>3. ASSUME NEW c, CheckAuthStatus(hdmn.sid), CheckControl(c),
               hhist' = [hhist EXCEPT !.ran = @ \cup {<<hdmn.sid, c>>}]
        PROVE  AuthInv'
    <3>1. authEnable' <=> authEnable
      BY <2>1 DEF authEnable, GetAuthByPassValue
    <3>2. /\ DOMAIN hhist' = DOMAIN hhist /\ hhist'.allowed = hhist.allowed /\ hhist'.proved = hhist.proved
          /\ hhist'.ran = hhist.ran \cup {<<hdmn.sid, c>>}
      BY <2>3 DEF AuthInv, HandshakeShape
    <3>3. authEnable => hdmn.sid \in hhist.allowed \cap hhist.proved
      BY <2>3 DEF CheckAuthStatus, GetSessionAuthStatus, AuthInv, StatusEarned
    <3>4. HandshakeShape' /\ StatusEarned'
      BY <2>1, <3>1, <3>2 DEF AuthInv, HandshakeShape, StatusEarned
    <3>5. TasksAuthorised'
      BY <2>1, <2>3, <3>1, <3>2, <3>3 DEF AuthInv, TasksAuthorised, CheckControl
    <3>6. QED
      BY <3>4, <3>5 DEF AuthInv
  <2>4. QED
    BY <1>7, <2>2, <2>3 DEF FetchTask
<1>8. CASE DialogAnswer
  <2>1. DOMAIN hdmn' = DOMAIN hdmn /\ hdmn'.pc = "answered" /\ UNCHANGED <<hcfg, hauth>>
    BY <1>8 DEF DialogAnswer, AuthInv, HandshakeShape
  <2>2. /\ DOMAIN hhist' = DOMAIN hhist /\ hhist'.allowed = hhist.allowed /\ hhist'.proved = hhist.proved
        /\ hhist'.ran = hhist.ran
    BY <1>8 DEF DialogAnswer, Lapse, AuthInv, HandshakeShape
  <2>3. QED
    BY <1>0, <2>1, <2>2, AuthKept
<1>9. CASE AfterDialog
  <2> DEFINE d == [hdmn EXCEPT !.pc = "idle"]
  <2>1. DOMAIN d = DOMAIN hdmn /\ d.pc = "idle" /\ d.sid = hdmn.sid /\ UNCHANGED hcfg
    BY <1>9 DEF AfterDialog, AuthInv, HandshakeShape
  <2>2. CASE SendAuthMsg(d, hdmn.key)
    <3> HIDE DEF d
    <3>1. QED
      BY <2>1, <2>2, AuthMsgKeeps
  <2>3. CASE HandleAuthFailed(d) /\ UNCHANGED hhist
    <3> HIDE DEF d
    <3>1. QED
      BY <2>1, <2>3, AuthFailedKeeps
  <2>4. QED
    BY <1>9, <2>2, <2>3 DEF AfterDialog
<1>10. CASE NotifyMsgSend
  <2>1. UNCHANGED <<hcfg, hhist>>
    BY <1>10 DEF NotifyMsgSend
  <2>2. CASE UNCHANGED <<hauth, hdmn>>
    BY <1>0, <2>1, <2>2, AuthKept
  <2>3. CASE SendAuthOkMsg(hdmn, TRUE) /\ UNCHANGED hauth
    <3>1. DOMAIN hdmn' = DOMAIN hdmn /\ hdmn'.pc = hdmn.pc /\ hdmn'.sid = hdmn.sid
      BY <2>3, OkMsgKeeps DEF AuthInv
    <3>2. QED
      BY <1>0, <2>1, <2>3, <3>1, AuthKept
  <2>4. CASE hdmn' = DaemonFree(hdmn) /\ hauth' = [i \in Ids |-> NoAuth]
    <3>1. DOMAIN hdmn' = DOMAIN hdmn /\ hdmn'.pc = "idle"
      BY <2>4 DEF DaemonFree, AuthInv, HandshakeShape
    <3>2. DOMAIN hauth' = Ids /\ \A i \in Ids : DOMAIN hauth'[i] = {"type", "token", "key"} /\ hauth'[i].type = "none"
      BY <2>4 DEF NoAuth
    <3>3. QED
      BY <2>1, <3>1, <3>2, AuthKept
  <2>5. QED
    BY <1>10, <2>2, <2>3, <2>4 DEF NotifyMsgSend
<1>11. CASE NotifyMsgUpdate
  <2>1. UNCHANGED <<hcfg, hhist, hdmn>> /\ hauth' = UpdateSessionAuthmsg(hdmn.sid)
    BY <1>11 DEF NotifyMsgUpdate
  <2>2. /\ DOMAIN hauth' = Ids
        /\ \A j \in Ids : /\ DOMAIN hauth'[j] = {"type", "token", "key"}
                          /\ hauth'[j].type = IF j = hdmn.sid THEN "fail" ELSE hauth[j].type
    BY <2>1, UpdateSessionAuthmsgSets DEF AuthInv, TypeSet
  <2>3. QED
    BY <2>1, <2>2, AuthKept
<1>12. CASE SslHandshakeDone
  <2> DEFINE d == [hdmn EXCEPT !.pc = "idle"]
  <2>1. DOMAIN d = DOMAIN hdmn /\ d.pc = "idle" /\ d.sid = hdmn.sid /\ hdmn.pc = "ssl wait" /\ UNCHANGED hcfg
    BY <1>12 DEF SslHandshakeDone, AuthInv, HandshakeShape
  <2>2. /\ SendAuthOkMsg(d, FALSE) /\ hauth' = UpdateSessionAuthOk(hdmn.sid)
        /\ hhist' = Lapse(Prove(hdmn.sid), "wait", ~LastPlainTaken)
    BY <1>12 DEF SslHandshakeDone
  <2>3. authEnable => hdmn.sid \in hhist.allowed
    BY <2>1 DEF AuthInv, StatusEarned
  <2> HIDE DEF d
  <2>4. QED
    BY <2>1, <2>2, <2>3, AuthOkKeeps
<1>13. CASE UNCHANGED hsVars
  BY <1>0, <1>13, AuthKept DEF hsVars
<1>14. QED
  BY <1>1, <1>2, <1>3, <1>4, <1>5, <1>6, <1>7, <1>8, <1>9, <1>10, <1>11, <1>12, <1>13
  DEF HandshakeNext, ServerSteps, DaemonSteps

\* TasksAuthorised for every behaviour of host and daemon: no command runs in a
\* session whose authentication has not ended with success.
THEOREM CommandsAuthorised == HandshakeSpec => []TasksAuthorised
<1>1. AuthInv => TasksAuthorised
  BY DEF AuthInv
<1>2. QED
  BY <1>1, AuthInit, AuthStep, PTL DEF HandshakeSpec

-----------------------------------------------------------------------------
(* The handshake: what the two ends take each other for                    *)

\* A queue of messages is a sequence, whatever the messages are.
LEMMA QueueIsSeq ==
    ASSUME NEW q, IsQueue(q), NEW c
    PROVE  /\ IsQueue(Append(q, c)) /\ Len(Append(q, c)) = Len(q) + 1 /\ Append(q, c)[Len(q) + 1] = c
           /\ \A i \in 1..Len(q) : Append(q, c)[i] = q[i]
           /\ q # <<>> => /\ IsQueue(Tail(q)) /\ Len(Tail(q)) = Len(q) - 1 /\ Len(q) > 0 /\ Head(q) = q[1]
                          /\ \A i \in 1..(Len(q) - 1) : Tail(q)[i] = q[i + 1]
           /\ q = <<>> <=> Len(q) = 0
           /\ \A n \in 1..Len(q) :
                /\ IsQueue(SubSeq(q, 1, n)) /\ Len(SubSeq(q, 1, n)) = n
                /\ \A i \in 1..n : SubSeq(q, 1, n)[i] = q[i]
                /\ IsQueue(SubSeq(q, n + 1, Len(q))) /\ Len(SubSeq(q, n + 1, Len(q))) = Len(q) - n
                /\ \A i \in 1..(Len(q) - n) : SubSeq(q, n + 1, Len(q))[i] = q[n + i]
<1> DEFINE S == {q[i] : i \in 1..Len(q)} \cup {c}
<1>1. q \in [1..Len(q) -> S] /\ Len(q) \in Nat
  BY DEF IsQueue
<1>2. q \in Seq(S) /\ c \in S
  BY <1>1
<1> HIDE DEF S
<1>3. Append(q, c) \in Seq(S) /\ Len(Append(q, c)) = Len(q) + 1 /\ Append(q, c)[Len(q) + 1] = c
      /\ \A i \in 1..Len(q) : Append(q, c)[i] = q[i]
  BY <1>2
<1>4. ASSUME q # <<>>
      PROVE  Tail(q) \in Seq(S) /\ Len(Tail(q)) = Len(q) - 1 /\ Len(q) > 0 /\ Head(q) = q[1]
             /\ \A i \in 1..(Len(q) - 1) : Tail(q)[i] = q[i + 1]
  BY <1>2, <1>4
<1>5. \A s \in Seq(S) : IsQueue(s)
  BY DEF IsQueue
<1>6. q = <<>> <=> Len(q) = 0
  BY <1>2
<1>7. ASSUME NEW n \in 1..Len(q)
      PROVE  /\ SubSeq(q, 1, n) \in Seq(S) /\ Len(SubSeq(q, 1, n)) = n
             /\ \A i \in 1..n : SubSeq(q, 1, n)[i] = q[i]
  <2>1. SubSeq(q, 1, n) = [i \in 1..n |-> q[i]]
    BY <1>1, <1>2
  <2>2. \A i \in 1..n : q[i] \in S
    BY <1>1
  <2>3. [i \in 1..n |-> q[i]] \in [1..n -> S] /\ n \in Nat
    BY <2>2, <1>1
  <2>4. SubSeq(q, 1, n) \in Seq(S) /\ Len(SubSeq(q, 1, n)) = n
    BY <2>1, <2>3
  <2> QED BY <2>1, <2>4
<1>8. ASSUME NEW n \in 1..Len(q)
      PROVE  /\ SubSeq(q, n + 1, Len(q)) \in Seq(S) /\ Len(SubSeq(q, n + 1, Len(q))) = Len(q) - n
             /\ \A i \in 1..(Len(q) - n) : SubSeq(q, n + 1, Len(q))[i] = q[n + i]
  <2> DEFINE k == Len(q) - n
  <2>0. k \in Nat /\ Len(q) - (n + 1) + 1 = k /\ n \in Nat
    BY <1>1
  <2>1. SubSeq(q, n + 1, Len(q)) = [i \in 1..k |-> q[(n + 1) + i - 1]]
    BY <1>1, <1>2, <2>0
  <2>2. \A i \in 1..k : (n + 1) + i - 1 = n + i /\ n + i \in 1..Len(q)
    BY <1>1, <2>0
  <2>3. [i \in 1..k |-> q[(n + 1) + i - 1]] \in [1..k -> S]
    BY <2>2, <1>1
  <2>4. SubSeq(q, n + 1, Len(q)) \in Seq(S) /\ Len(SubSeq(q, n + 1, Len(q))) = k
    <3>1. ASSUME NEW f \in [1..k -> S] PROVE f \in Seq(S) /\ Len(f) = k
      <4> HIDE DEF k
      <4> QED BY <2>0, <3>1
    <3> QED BY <2>1, <2>3, <3>1
  <2>5. \A i \in 1..k : SubSeq(q, n + 1, Len(q))[i] = q[n + i]
    BY <2>1, <2>2
  <2> QED BY <2>4, <2>5
<1> QED BY <1>3, <1>4, <1>5, <1>6, <1>7, <1>8

\* What waits for an end, as a queue.
LEMMA QueueOfIs ==
    ASSUME NEW io, NEW net, IsQueue(io), IsQueue(net)
    PROVE  /\ IsQueue(QueueOf(io, net)) /\ Len(QueueOf(io, net)) = Len(io) + Len(net)
           /\ DOMAIN QueueOf(io, net) = 1..Len(QueueOf(io, net))
           /\ \A j \in 1..Len(QueueOf(io, net)) :
                QueueOf(io, net)[j] = IF j <= Len(io) THEN io[j].m ELSE net[j - Len(io)]
<1> DEFINE n == Len(io) + Len(net)
           q == QueueOf(io, net)
           S == {q[j] : j \in 1..n}
<1>1. n \in Nat
  BY DEF IsQueue
<1>2. q = [j \in 1..n |-> q[j]] /\ DOMAIN q = 1..n
  BY DEF QueueOf
<1>3. \A j \in 1..n : q[j] = IF j <= Len(io) THEN io[j].m ELSE net[j - Len(io)]
  BY DEF QueueOf
<1>4. Len(q) = n
  <2> HIDE DEF n, q
  <2>1. q \in [1..n -> S]
    BY <1>2
  <2> HIDE DEF S
  <2> QED BY <1>1, <2>1
<1> QED BY <1>1, <1>2, <1>3, <1>4 DEF IsQueue

\* A read moves what waits, and changes nothing about it.
LEMMA QueueRead ==
    ASSUME NEW net, IsQueue(net), NEW n \in 1..Len(net), NEW b, NEW io, io = <<>>, IsQueue(io)
    PROVE  LET jo == FetchIOBuf(SubSeq(net, 1, n), b)
               rest == SubSeq(net, n + 1, Len(net))
           IN  /\ IsQueue(jo) /\ IsQueue(rest) /\ QueueOf(jo, rest) = QueueOf(io, net)
               /\ \A j \in DOMAIN jo : jo[j].good = (QueueOf(io, net)[j].enc = b) /\ j \in DOMAIN QueueOf(io, net)
<1> DEFINE got == SubSeq(net, 1, n)
           jo == FetchIOBuf(got, b)
           rest == SubSeq(net, n + 1, Len(net))
           q == QueueOf(io, net)
<1>1. /\ IsQueue(got) /\ Len(got) = n /\ \A i \in 1..n : got[i] = net[i]
      /\ IsQueue(rest) /\ Len(rest) = Len(net) - n
      /\ \A i \in 1..(Len(net) - n) : rest[i] = net[n + i]
  BY QueueIsSeq
<1>2. Len(io) = 0 /\ Len(net) \in Nat /\ n \in Nat
  BY QueueIsSeq DEF IsQueue
<1>3. q = [j \in 1..Len(net) |-> net[j]]
  BY <1>2 DEF QueueOf
<1> HIDE DEF got, rest, q
<1>4. jo = [j \in 1..n |-> [m |-> got[j], good |-> got[j].enc = b]]
  BY <1>1 DEF FetchIOBuf, Decrypt
<1>5. Len(jo) = n
  <2> DEFINE S == {jo[j] : j \in 1..n}
  <2>1. DOMAIN jo = 1..n /\ jo = [j \in 1..n |-> jo[j]]
    BY <1>4
  <2> HIDE DEF jo
  <2>2. jo \in [1..n -> S]
    BY <2>1
  <2> HIDE DEF S
  <2> QED BY <1>2, <2>2
<1>6. IsQueue(jo) /\ DOMAIN jo = 1..n /\ (\A j \in 1..n : jo[j].m = net[j] /\ jo[j].good = (net[j].enc = b))
  BY <1>1, <1>2, <1>4, <1>5 DEF IsQueue
<1> HIDE DEF jo
<1>7. QueueOf(jo, rest) = q
  <2>1. Len(jo) + Len(rest) = Len(net)
    BY <1>1, <1>2, <1>5
  <2>2. \A j \in 1..Len(net) : (IF j <= Len(jo) THEN jo[j].m ELSE rest[j - Len(jo)]) = net[j]
    <3> TAKE j \in 1..Len(net)
    <3>1. CASE j <= n
      BY <3>1, <1>2, <1>5, <1>6
    <3>2. CASE ~(j <= n)
      <4>1. j - n \in 1..(Len(net) - n) /\ n + (j - n) = j
        BY <3>2, <1>2
      <4> QED BY <4>1, <3>2, <1>1, <1>5
    <3> QED BY <3>1, <3>2
  <2> QED BY <2>1, <2>2, <1>3 DEF QueueOf
<1>8. \A j \in DOMAIN jo : jo[j].good = (q[j].enc = b) /\ j \in DOMAIN q
  BY <1>2, <1>3, <1>6
<1> QED BY <1>1, <1>6, <1>7, <1>8 DEF got, jo, rest, q

\* The first message is taken.
LEMMA QueuePop ==
    ASSUME NEW net, IsQueue(net), NEW io, io # <<>>, IsQueue(io)
    PROVE  LET p == QueueOf(io, net)
               q == QueueOf(Tail(io), net)
           IN  /\ IsQueue(Tail(io)) /\ Len(p) > 0 /\ p[1] = Head(io).m /\ 1 \in DOMAIN p
               /\ Head(io) = io[1] /\ 1 \in DOMAIN io
               /\ Len(q) = Len(p) - 1 /\ (\A j \in DOMAIN q : q[j] = p[j + 1] /\ j + 1 \in DOMAIN p)
               /\ \A j \in DOMAIN Tail(io) : Tail(io)[j] = io[j + 1] /\ j + 1 \in DOMAIN io
<1> DEFINE p == QueueOf(io, net)
           q == QueueOf(Tail(io), net)
<1>1. /\ IsQueue(Tail(io)) /\ Len(Tail(io)) = Len(io) - 1 /\ Len(io) > 0 /\ Head(io) = io[1]
      /\ \A i \in 1..(Len(io) - 1) : Tail(io)[i] = io[i + 1]
  BY QueueIsSeq
<1>2. Len(io) \in Nat /\ Len(net) \in Nat
  BY DEF IsQueue
<1>3. DOMAIN Tail(io) = 1..(Len(io) - 1) /\ DOMAIN io = 1..Len(io)
  BY <1>1 DEF IsQueue
<1>4. /\ Len(p) = Len(io) + Len(net) /\ DOMAIN p = 1..Len(p)
      /\ \A j \in 1..Len(p) : p[j] = IF j <= Len(io) THEN io[j].m ELSE net[j - Len(io)]
  BY QueueOfIs
<1>5. /\ Len(q) = Len(Tail(io)) + Len(net) /\ DOMAIN q = 1..Len(q)
      /\ \A j \in 1..Len(q) : q[j] = IF j <= Len(Tail(io)) THEN Tail(io)[j].m ELSE net[j - Len(Tail(io))]
  BY <1>1, QueueOfIs
<1> HIDE DEF p, q
<1>6. ASSUME NEW j \in 1..Len(q) PROVE q[j] = p[j + 1] /\ j + 1 \in 1..Len(p)
  <2>1. j + 1 \in 1..Len(p) /\ j \in Nat
    BY <1>1, <1>2, <1>4, <1>5
  <2>2. CASE j <= Len(io) - 1
    <3>1. j \in 1..(Len(io) - 1) /\ j + 1 <= Len(io)
      BY <2>1, <2>2, <1>2
    <3> QED BY <3>1, <2>1, <2>2, <1>1, <1>4, <1>5
  <2>3. CASE ~(j <= Len(io) - 1)
    <3>1. ~(j + 1 <= Len(io)) /\ j - (Len(io) - 1) = j + 1 - Len(io)
      BY <2>1, <2>3, <1>2
    <3>2. q[j] = net[j - (Len(io) - 1)]
      BY <2>3, <1>1, <1>5
    <3>3. p[j + 1] = net[j + 1 - Len(io)]
      BY <2>1, <3>1, <1>4
    <3> QED BY <3>1, <3>2, <3>3, <2>1
  <2> QED BY <2>1, <2>2, <2>3
<1>7. Len(p) > 0 /\ p[1] = Head(io).m /\ 1 \in DOMAIN p /\ 1 \in DOMAIN io /\ Len(q) = Len(p) - 1
  BY <1>1, <1>2, <1>3, <1>4, <1>5
<1>8. \A j \in DOMAIN Tail(io) : Tail(io)[j] = io[j + 1] /\ j + 1 \in DOMAIN io
  BY <1>1, <1>2, <1>3
<1> QED BY <1>1, <1>5, <1>6, <1>7, <1>8, <1>4 DEF p, q

\* A queue with one message more.
OneMore(q, p, m) ==
  /\ IsQueue(q) /\ Len(q) = Len(p) + 1 /\ q[Len(q)] = m /\ Len(q) \in DOMAIN q
  /\ DOMAIN q = DOMAIN p \cup {Len(q)} /\ \A j \in DOMAIN p : q[j] = p[j] /\ j # Len(q)

\* Append adds one.
LEMMA AppendIs ==
    ASSUME NEW p, IsQueue(p), NEW m PROVE OneMore(Append(p, m), p, m)
<1> DEFINE q == Append(p, m)
<1>1. /\ IsQueue(q) /\ Len(q) = Len(p) + 1 /\ q[Len(p) + 1] = m
      /\ \A i \in 1..Len(p) : q[i] = p[i]
  BY QueueIsSeq
<1> HIDE DEF q
<1>2. Len(p) \in Nat /\ DOMAIN p = 1..Len(p) /\ DOMAIN q = 1..Len(q)
  BY <1>1 DEF IsQueue
<1>3. OneMore(q, p, m)
  BY <1>1, <1>2 DEF OneMore
<1> QED BY <1>3 DEF q

\* A message is sent.
LEMMA QueuePush ==
    ASSUME NEW net, IsQueue(net), NEW io, IsQueue(io), NEW more, NEW m, OneMore(more, net, m)
    PROVE  OneMore(QueueOf(io, more), QueueOf(io, net), m)
<1> DEFINE p == QueueOf(io, net)
           q == QueueOf(io, more)
<1>0. DOMAIN net = 1..Len(net)
  BY DEF IsQueue
<1>1. IsQueue(more) /\ Len(more) = Len(net) + 1 /\ (\A i \in 1..Len(net) : more[i] = net[i]) /\ more[Len(net) + 1] = m
  BY <1>0 DEF OneMore
<1>2. Len(io) \in Nat /\ Len(net) \in Nat
  BY DEF IsQueue
<1>3. /\ Len(p) = Len(io) + Len(net) /\ DOMAIN p = 1..Len(p)
      /\ \A j \in 1..Len(p) : p[j] = IF j <= Len(io) THEN io[j].m ELSE net[j - Len(io)]
  BY QueueOfIs
<1>4. /\ Len(q) = Len(io) + Len(net) + 1 /\ DOMAIN q = 1..Len(q)
      /\ \A j \in 1..Len(q) : q[j] = IF j <= Len(io) THEN io[j].m ELSE more[j - Len(io)]
  BY <1>1, <1>2, QueueOfIs
<1> HIDE DEF p, q
<1>5. Len(q) = Len(p) + 1 /\ DOMAIN q = DOMAIN p \cup {Len(q)} /\ Len(q) \in DOMAIN q
  BY <1>2, <1>3, <1>4
<1>6. q[Len(q)] = m
  <2>1. ~(Len(q) <= Len(io)) /\ Len(q) - Len(io) = Len(net) + 1
    BY <1>2, <1>4
  <2> QED BY <2>1, <1>1, <1>4, <1>5
<1>7. ASSUME NEW j \in 1..Len(p) PROVE q[j] = p[j] /\ j # Len(q) /\ j \in 1..Len(q)
  <2>1. j \in 1..Len(q) /\ j # Len(q) /\ j \in Nat
    BY <1>2, <1>3, <1>4
  <2>2. CASE j <= Len(io)
    BY <2>1, <2>2, <1>3, <1>4
  <2>3. CASE ~(j <= Len(io))
    <3>1. j - Len(io) \in 1..Len(net)
      BY <2>3, <1>2, <1>3
    <3> QED BY <3>1, <2>1, <2>3, <1>1, <1>3, <1>4
  <2> QED BY <2>1, <2>2, <2>3
<1>8. IsQueue(q)
  BY <1>1, QueueOfIs DEF q
<1> QED BY <1>3, <1>5, <1>6, <1>7, <1>8 DEF p, q, OneMore

\* The numbers of the flights differ.
LEMMA TlsNumbers == 0 # 1 /\ 0 # 2 /\ 1 # 2
  OBVIOUS

\* The flight after the first or the second.
LEMMA NextFlight ==
    ASSUME NEW a \in 0..2, a < 2, NEW b, b = a + 1
    PROVE  (a = 0 /\ b = 1) \/ (a = 1 /\ b = 2)
  OBVIOUS

\* Both queues, and their positions.
LEMMA QueuesAre ==
    ASSUME AgreeShape
    PROVE  /\ IsQueue(ToD) /\ Len(ToD) \in Nat /\ DOMAIN ToD = 1..Len(ToD)
           /\ IsQueue(ToS) /\ Len(ToS) \in Nat /\ DOMAIN ToS = 1..Len(ToS)
<1>1. IsQueue(ToD) /\ IsQueue(ToS)
  BY QueueOfIs DEF AgreeShape, ToD, ToS
<1> HIDE DEF ToD, ToS
<1> QED BY <1>1 DEF IsQueue

\* The daemon sends.
LEMMA ToServerIs ==
    ASSUME AgreeShape, NEW m, hnet' = ToServer(m), hsrv' = hsrv
    PROVE  /\ hnet'.s2d = hnet.s2d /\ DOMAIN hnet' = {"s2d", "d2s"} /\ IsQueue(hnet'.d2s)
           /\ Len(ToS') = Len(ToS) + 1 /\ ToS'[Len(ToS')] = m /\ Len(ToS') \in DOMAIN ToS'
           /\ DOMAIN ToS' = DOMAIN ToS \cup {Len(ToS')}
           /\ \A j \in DOMAIN ToS : ToS'[j] = ToS[j] /\ j # Len(ToS')
<1>1. hnet'.s2d = hnet.s2d /\ DOMAIN hnet' = {"s2d", "d2s"} /\ hnet'.d2s = Append(hnet.d2s, m)
  BY DEF AgreeShape, ToServer
<1>2. ToS' = QueueOf(hsrv.io, hnet'.d2s) /\ ToS = QueueOf(hsrv.io, hnet.d2s)
  BY <1>1 DEF ToS
<1>3. IsQueue(hsrv.io) /\ IsQueue(hnet.d2s)
  BY DEF AgreeShape
<1>4. OneMore(hnet'.d2s, hnet.d2s, m)
  BY <1>1, <1>3, AppendIs
<1>5. OneMore(ToS', ToS, m)
  BY <1>2, <1>3, <1>4, QueuePush
<1> QED BY <1>1, <1>4, <1>5 DEF OneMore

\* The server sends.
LEMMA ToDaemonIs ==
    ASSUME AgreeShape, NEW m, hnet' = ToDaemon(m), hdmn' = hdmn
    PROVE  /\ hnet'.d2s = hnet.d2s /\ DOMAIN hnet' = {"s2d", "d2s"} /\ IsQueue(hnet'.s2d)
           /\ Len(ToD') = Len(ToD) + 1 /\ ToD'[Len(ToD')] = m /\ Len(ToD') \in DOMAIN ToD'
           /\ DOMAIN ToD' = DOMAIN ToD \cup {Len(ToD')}
           /\ \A j \in DOMAIN ToD : ToD'[j] = ToD[j] /\ j # Len(ToD')
<1>1. hnet'.d2s = hnet.d2s /\ DOMAIN hnet' = {"s2d", "d2s"} /\ hnet'.s2d = Append(hnet.s2d, m)
  BY DEF AgreeShape, ToDaemon
<1>2. ToD' = QueueOf(hdmn.io, hnet'.s2d) /\ ToD = QueueOf(hdmn.io, hnet.s2d)
  BY <1>1 DEF ToD
<1>3. IsQueue(hdmn.io) /\ IsQueue(hnet.s2d)
  BY DEF AgreeShape
<1>4. OneMore(hnet'.s2d, hnet.s2d, m)
  BY <1>1, <1>3, AppendIs
<1>5. OneMore(ToD', ToD, m)
  BY <1>2, <1>3, <1>4, QueuePush
<1> QED BY <1>1, <1>4, <1>5 DEF OneMore

\* The server takes what it has read.
LEMMA ServerTakes ==
    ASSUME AgreeShape, hsrv.io # <<>>, hsrv'.io = Tail(hsrv.io), hnet'.d2s = hnet.d2s
    PROVE  /\ IsQueue(hsrv'.io) /\ 1 \in DOMAIN ToS /\ ToS[1] = Head(hsrv.io).m
           /\ Head(hsrv.io) = hsrv.io[1] /\ 1 \in DOMAIN hsrv.io
           /\ Len(ToS') = Len(ToS) - 1 /\ (\A j \in DOMAIN ToS' : ToS'[j] = ToS[j + 1] /\ j + 1 \in DOMAIN ToS)
           /\ DOMAIN ToS' = 1..Len(ToS')
           /\ \A j \in DOMAIN hsrv'.io : hsrv'.io[j] = hsrv.io[j + 1] /\ j + 1 \in DOMAIN hsrv.io
<1>1. ToS' = QueueOf(Tail(hsrv.io), hnet.d2s) /\ ToS = QueueOf(hsrv.io, hnet.d2s)
  BY DEF ToS
<1>2. IsQueue(hsrv.io) /\ IsQueue(hnet.d2s)
  BY DEF AgreeShape
<1>3. IsQueue(Tail(hsrv.io))
  BY <1>2, QueueIsSeq
<1>4. DOMAIN ToS' = 1..Len(ToS')
  BY <1>1, <1>2, <1>3, QueueOfIs
<1> QED BY <1>1, <1>2, <1>4, QueuePop

\* The server ends its session.
LEMMA ServerFreeKeeps ==
    ASSUME AgreeCore, HandshakeShape, hsrv' = ServerFree(hsrv), UNCHANGED <<hcfg, hdmn, hthr, hnet, hauth>>,
           hhist'.garbled = hhist.garbled
    PROVE  AgreeCore'
<1>0. AgreeShape /\ TlsPhases /\ DaemonQueue /\ ServerQueue /\ ViewFollows
  BY DEF AgreeCore
<1>1. /\ DOMAIN hsrv' = DOMAIN hsrv /\ hsrv'.alive = FALSE /\ hsrv'.io = <<>>
      /\ hsrv'.sid = hsrv.sid /\ hsrv'.ssl = hsrv.ssl /\ hsrv'.tls = hsrv.tls /\ hsrv'.hs = hsrv.hs
  BY <1>0 DEF AgreeShape, ServerFree
<1>2. ToD' = ToD /\ (Asked' <=> Asked)
  BY DEF ToD, Asked
<1>3. IsQueue(<<>>)
  BY DEF IsQueue
<1>4. AgreeShape'
  BY <1>0, <1>1, <1>3 DEF AgreeShape
<1>5. TlsPhases'
  BY <1>0, <1>1, <1>2 DEF TlsPhases
<1>6. DaemonQueue'
  BY <1>0, <1>1, <1>2 DEF DaemonQueue
<1>7. ServerQueue'
  BY <1>1 DEF ServerQueue
<1>8. ViewFollows'
  <2>1. GetSessionAuthStatus(hdmn.sid)' = GetSessionAuthStatus(hdmn.sid)
    BY DEF GetSessionAuthStatus
  <2>2. TurnLeft' => TurnLeft
    BY <1>1, <1>2 DEF TurnLeft, HasTurn
  <2> QED BY <1>0, <1>1, <2>1, <2>2 DEF ViewFollows
<1> QED BY <1>1, <1>4, <1>5, <1>6, <1>7, <1>8 DEF AgreeCore

\* The daemon ends its session, with nothing to say about it.
LEMMA DaemonFreeKeeps ==
    ASSUME AgreeCore, HandshakeShape, NEW d, DOMAIN d = DOMAIN hdmn, d.tls = hdmn.tls, d.ssl = hdmn.ssl,
           hdmn' = DaemonFree(d), UNCHANGED <<hcfg, hsrv, hnet>>, hthr' \in {"none", hthr},
           hhist'.garbled = hhist.garbled
    PROVE  AgreeCore'
<1>0. AgreeShape /\ TlsPhases /\ DaemonQueue /\ ServerQueue /\ ViewFollows
  BY DEF AgreeCore
<1>1. /\ hdmn'.alive = FALSE /\ hdmn'.io = <<>> /\ hdmn'.pc = "idle" /\ hdmn'.tls = hdmn.tls /\ hdmn'.ssl = hdmn.ssl
  BY DEF DaemonFree, HandshakeShape
<1>2. ToS' = ToS
  BY DEF ToS
<1>3. IsQueue(<<>>)
  BY DEF IsQueue
<1>4. AgreeShape'
  BY <1>0, <1>1, <1>3 DEF AgreeShape
<1>5. TlsPhases'
  BY <1>0, <1>1, <1>2 DEF TlsPhases, HasTurn
<1>6. DaemonQueue'
  BY <1>1 DEF DaemonQueue
<1>7. ServerQueue'
  BY <1>0, <1>1, <1>2 DEF ServerQueue
<1>8. ViewFollows'
  BY <1>1 DEF ViewFollows
<1> QED BY <1>4, <1>5, <1>6, <1>7, <1>8 DEF AgreeCore

\* The daemon's handler has the turn: d is its session, without the message it
\* handles.
Ready(d) ==
  /\ DOMAIN d = DOMAIN hdmn /\ hdmn.alive /\ d.alive = TRUE /\ d.sid = hsrv.sid /\ d.ssl = hdmn.ssl /\ d.tls = hdmn.tls
  /\ (d.enc => hcfg.encrypt) /\ d.pc \in {"idle", "dialog", "answered"}
  /\ IsQueue(d.io) /\ \A j \in DOMAIN d.io : d.io[j].good
  /\ \A j \in DOMAIN QueueOf(d.io, hnet.s2d) :
       LET m == QueueOf(d.io, hnet.s2d)[j] IN ~Turn(m) /\ m.cmd # "handshake" /\ m.enc = d.ssl
  /\ hcfg.encrypt /\ ~hsrv.ssl => DOMAIN QueueOf(d.io, hnet.s2d) = {}
  /\ hsrv.alive => d.ssl = hsrv.ssl /\ ~HasTurn(ToS)

\* The last word of the handler is what it has recorded.
LEMMA OkKeeps ==
    ASSUME AgreeCore, HandshakeShape, NEW d, Ready(d), NEW u \in BOOLEAN, SendAuthOkMsg(d, u),
           UNCHANGED <<hcfg, hsrv>>, hhist'.garbled = hhist.garbled, hthr' \in {"none", "send", "update"},
           d.pc # "idle" \/ hthr' # "none" => hsrv.tls = 0 /\ hdmn.tls = 0,
           hthr' # "none" => GetSessionAuthStatus(hsrv.sid)' # "ok",
           d.pc = "answered" /\ d.answer # "refuse" => hthr' = "none",
           u = (GetSessionAuthStatus(hsrv.sid)' # "ok")
    PROVE  AgreeCore'
<1> DEFINE m == Message("ok", [NoBody EXCEPT !.unauth = u], d.ssl)
<1>0. AgreeShape /\ TlsPhases /\ DaemonQueue /\ ServerQueue /\ ViewFollows
  BY DEF AgreeCore
<1>1. hnet' = ToServer(m)
  BY DEF SendAuthOkMsg
<1>2. m.auth = "ok" /\ m.enc = d.ssl /\ m.body.unauth = u /\ ~Turn(m)
  BY DEF Message, NoBody, Turn
<1> HIDE DEF m
<1>3. /\ hdmn'.alive = TRUE /\ hdmn'.sid = d.sid /\ hdmn'.ssl = d.ssl /\ hdmn'.tls = d.tls /\ hdmn'.enc = d.enc
      /\ hdmn'.pc = d.pc /\ hdmn'.io = d.io /\ hdmn'.answer = d.answer
  BY DEF SendAuthOkMsg, Ready, HandshakeShape
<1>4. /\ hnet'.s2d = hnet.s2d /\ DOMAIN hnet' = {"s2d", "d2s"} /\ IsQueue(hnet'.d2s)
      /\ Len(ToS') = Len(ToS) + 1 /\ ToS'[Len(ToS')] = m /\ Len(ToS') \in DOMAIN ToS'
      /\ DOMAIN ToS' = DOMAIN ToS \cup {Len(ToS')}
      /\ \A j \in DOMAIN ToS : ToS'[j] = ToS[j] /\ j # Len(ToS')
  BY <1>0, <1>1, ToServerIs
<1>5. ToD' = QueueOf(d.io, hnet.s2d)
  BY <1>3, <1>4 DEF ToD
<1>6. /\ \A j \in DOMAIN ToD' : ~Turn(ToD'[j]) /\ ToD'[j].cmd # "handshake" /\ ToD'[j].enc = d.ssl
      /\ hcfg.encrypt /\ ~hsrv.ssl => DOMAIN ToD' = {}
  BY <1>5 DEF Ready
<1>7. Asked' <=> d.pc \in {"dialog", "answered"} \/ hthr' # "none"
  BY <1>3 DEF Asked
<1>8. AgreeShape'
  BY <1>0, <1>3, <1>4 DEF AgreeShape, Ready
<1>9. TlsPhases'
  BY <1>0, <1>3, <1>7 DEF TlsPhases, Ready
<1>10. DaemonQueue'
  BY <1>3, <1>6 DEF DaemonQueue, Ready
<1>11. ServerQueue'
  <2> SUFFICES ASSUME hsrv.alive PROVE ServerQueue'
    BY DEF ServerQueue
  <2>1. \A j \in DOMAIN ToS : ToS[j].auth = "ok" /\ ToS[j].enc = hsrv.ssl /\ ~Turn(ToS[j])
    BY <1>0 DEF ServerQueue, Ready, HasTurn
  <2>2. \A j \in DOMAIN ToS' : ToS'[j].auth = "ok" /\ ToS'[j].enc = hsrv.ssl /\ ~Turn(ToS'[j])
    BY <2>1, <1>2, <1>4 DEF Ready
  <2>3. \A j \in DOMAIN hsrv.io : hsrv.io[j].good
    BY <1>0 DEF ServerQueue
  <2> QED BY <2>2, <2>3 DEF ServerQueue
<1>12. ViewFollows'
  <2>1. Len(ToS') > 0
    BY <1>0, <1>4, QueuesAre
  <2>2. hdmn'.sid = hsrv'.sid
    BY <1>3 DEF Ready
  <2>3. GetSessionAuthStatus(hdmn.sid)' = GetSessionAuthStatus(hsrv.sid)'
    BY <2>2 DEF GetSessionAuthStatus
  <2>4. ~TurnLeft'
    BY <1>2, <1>4, <1>6 DEF TurnLeft, HasTurn, Ready
  <2> QED BY <2>1, <2>3, <2>4, <1>2, <1>3, <1>4 DEF ViewFollows
<1> QED BY <1>0, <1>8, <1>9, <1>10, <1>11, <1>12 DEF AgreeCore

\* The handler gives the turn to the server.
LEMMA AskKeeps ==
    ASSUME AgreeCore, HandshakeShape, NEW d, Ready(d), NEW m, Turn(m), m.enc = d.ssl,
           hdmn' = d, hnet' = ToServer(m), hthr = "none", d.pc = "idle",
           UNCHANGED <<hcfg, hsrv, hthr>>, hhist'.garbled = hhist.garbled,
           hsrv.tls = 0, hdmn.tls = 0, m.auth = "psk" => hcfg.encrypt, GetSessionAuthStatus(hsrv.sid)' # "ok"
    PROVE  AgreeCore'
<1>0. AgreeShape /\ TlsPhases /\ DaemonQueue /\ ServerQueue /\ ViewFollows
  BY DEF AgreeCore
<1>4. /\ hnet'.s2d = hnet.s2d /\ DOMAIN hnet' = {"s2d", "d2s"} /\ IsQueue(hnet'.d2s)
      /\ Len(ToS') = Len(ToS) + 1 /\ ToS'[Len(ToS')] = m /\ Len(ToS') \in DOMAIN ToS'
      /\ DOMAIN ToS' = DOMAIN ToS \cup {Len(ToS')}
      /\ \A j \in DOMAIN ToS : ToS'[j] = ToS[j] /\ j # Len(ToS')
  BY <1>0, ToServerIs
<1>5. ToD' = QueueOf(d.io, hnet.s2d)
  BY <1>4 DEF ToD
<1>6. /\ \A j \in DOMAIN ToD' : ~Turn(ToD'[j]) /\ ToD'[j].cmd # "handshake" /\ ToD'[j].enc = d.ssl
      /\ hcfg.encrypt /\ ~hsrv.ssl => DOMAIN ToD' = {}
  BY <1>5 DEF Ready
<1>7. ~Asked' /\ ~HasTurn(ToD')
  BY <1>6 DEF Asked, HasTurn
<1>8. AgreeShape'
  BY <1>0, <1>4 DEF AgreeShape, Ready
<1>9. TlsPhases'
  BY <1>0, <1>7 DEF TlsPhases, Ready
<1>10. DaemonQueue'
  BY <1>6 DEF DaemonQueue, Ready
<1>11. ServerQueue'
  <2> SUFFICES ASSUME hsrv.alive PROVE ServerQueue'
    BY DEF ServerQueue
  <2>1. \A j \in DOMAIN ToS : ToS[j].auth = "ok" /\ ToS[j].enc = hsrv.ssl /\ ~Turn(ToS[j])
    BY <1>0 DEF ServerQueue, Ready, HasTurn
  <2>2. \A j \in DOMAIN ToS' : \/ j = Len(ToS') /\ ToS'[j] = m
                               \/ ToS'[j].auth = "ok" /\ ToS'[j].enc = hsrv.ssl /\ ~Turn(ToS'[j])
    BY <2>1, <1>4
  <2>3. (\A j \in DOMAIN hsrv.io : hsrv.io[j].good) /\ m.enc = hsrv.ssl
    BY <1>0 DEF ServerQueue, Ready
  <2>4. ~hsrv.ssl
    <3>1. hsrv.tls # 2
      OBVIOUS
    <3>2. hsrv.ssl => hsrv.tls = 2
      BY <1>0, Zenon DEF TlsPhases
    <3> QED BY <3>1, <3>2, Zenon
  <2> QED BY <2>2, <2>3, <2>4, <1>7 DEF ServerQueue, Ready
<1>12. ViewFollows'
  <2>1. HasTurn(ToS')
    BY <1>4 DEF HasTurn
  <2>2. GetSessionAuthStatus(hdmn.sid)' # "ok"
    BY DEF GetSessionAuthStatus, Ready
  <2> QED BY <2>1, <2>2 DEF ViewFollows
<1> QED BY <1>0, <1>8, <1>9, <1>10, <1>11, <1>12 DEF AgreeCore

\* A flight of TLS to the server, and with the last one the label.
LEMMA FlightKeeps ==
    ASSUME AgreeCore, HandshakeShape, NEW d, Ready(d), DaemonSSLHandshake(d), hthr = "none", d.pc = "idle",
           UNCHANGED <<hcfg, hsrv, hthr>>, hcfg.encrypt, hsrv.tls = hdmn.tls + 1,
           GetSessionAuthStatus(d.sid) = "pubkey"
    PROVE  AgreeCore'
<1> DEFINE m == Message("psk", [NoBody EXCEPT !.step = d.tls + 1], d.ssl)
<1>0. AgreeShape /\ TlsPhases /\ DaemonQueue /\ ServerQueue /\ ViewFollows
  BY DEF AgreeCore
<1>1. hnet' = ToServer(m) /\ UNCHANGED <<hauth, hhist>>
  BY DEF DaemonSSLHandshake
<1>2. m.auth = "psk" /\ m.enc = d.ssl /\ Turn(m)
  BY DEF Message, NoBody, Turn
<1> HIDE DEF m
<1>a. hdmn.tls \in {0, 1} /\ d.tls = hdmn.tls /\ d.ssl = FALSE /\ hsrv.ssl = FALSE /\ hdmn.ssl = FALSE
  <2>0. hdmn.tls \in 0..2 /\ hsrv.tls \in 0..2
    BY <1>0, Zenon DEF AgreeShape
  <2>1. hdmn.tls \in {0, 1} /\ hdmn.tls # 2
    BY <2>0
  <2>2. ~hdmn.ssl /\ ~hsrv.ssl
    BY <1>0, <2>1, Zenon DEF TlsPhases
  <2>3. hdmn.ssl \in BOOLEAN /\ hsrv.ssl \in BOOLEAN /\ d.tls = hdmn.tls /\ d.ssl = hdmn.ssl
    BY <1>0, Zenon DEF AgreeShape, Ready
  <2>4. hdmn.ssl = FALSE /\ hsrv.ssl = FALSE
    BY <2>2, <2>3, Zenon
  <2> QED BY <2>1, <2>3, <2>4, Zenon
<1>b. "tls" \in DOMAIN d /\ "ssl" \in DOMAIN d /\ "pc" \in DOMAIN d
  BY DEF Ready, HandshakeShape
<1>3. /\ hdmn'.alive = TRUE /\ hdmn'.sid = d.sid /\ hdmn'.enc = d.enc /\ hdmn'.io = d.io
      /\ \/ d.tls = 0 /\ hsrv.tls = 1 /\ hdmn'.tls = 1 /\ hdmn'.ssl = FALSE /\ hdmn'.pc = "idle"
         \/ d.tls = 1 /\ hsrv.tls = 2 /\ hdmn'.tls = 2 /\ hdmn'.ssl = TRUE /\ hdmn'.pc = "ssl wait"
  <2>0. 0 + 1 = 1 /\ 1 + 1 = 2 /\ 0 # 1
    OBVIOUS
  <2>1. CASE d.tls = 0
    <3>1. hdmn' = [d EXCEPT !.tls = 1]
      BY <2>0, <2>1 DEF DaemonSSLHandshake, PerformHandshake
    <3>2. hsrv.tls = 1
      BY <1>a, <2>0, <2>1, Zenon
    <3> QED BY <1>a, <1>b, <2>1, <3>1, <3>2 DEF Ready
  <2>2. CASE d.tls = 1
    <3>1. hdmn' = [d EXCEPT !.tls = 2, !.ssl = TRUE, !.pc = "ssl wait"]
      BY <2>0, <2>2 DEF DaemonSSLHandshake, PerformHandshake, SetHandshakeLabel
    <3>2. hsrv.tls = 2
      BY <1>a, <2>0, <2>2, Zenon
    <3> QED BY <1>a, <1>b, <2>2, <3>1, <3>2 DEF Ready
  <2> QED BY <1>a, <2>1, <2>2
<1>4. /\ hnet'.s2d = hnet.s2d /\ DOMAIN hnet' = {"s2d", "d2s"} /\ IsQueue(hnet'.d2s)
      /\ Len(ToS') = Len(ToS) + 1 /\ ToS'[Len(ToS')] = m /\ Len(ToS') \in DOMAIN ToS'
      /\ DOMAIN ToS' = DOMAIN ToS \cup {Len(ToS')}
      /\ \A j \in DOMAIN ToS : ToS'[j] = ToS[j] /\ j # Len(ToS')
  BY <1>0, <1>1, ToServerIs
<1>5. ToD' = QueueOf(d.io, hnet.s2d)
  BY <1>3, <1>4 DEF ToD
<1>6. DOMAIN ToD' = {}
  BY <1>5, <1>a DEF Ready
<1>7. ~Asked' /\ ~HasTurn(ToD') /\ HasTurn(ToS')
  BY <1>2, <1>3, <1>4, <1>6 DEF Asked, HasTurn
<1>8. AgreeShape'
  BY <1>0, <1>3, <1>4, <1>a DEF AgreeShape, Ready
<1>9. TlsPhases'
  <2>1. hsrv'.ssl = FALSE /\ hcfg'.encrypt /\ hthr' = "none"
    BY <1>a
  <2>a. 1 # 2
    OBVIOUS
  <2>2. hdmn'.ssl <=> hdmn'.tls = 2
    BY <1>3, <2>a, Zenon
  <2>3. hdmn'.pc = "ssl wait" <=> hdmn'.tls = 2
    BY <1>3, <2>a
  <2> QED BY <1>7, <2>1, <2>2, <2>3, Zenon DEF TlsPhases
<1>10. DaemonQueue'
  BY <1>3, <1>6 DEF DaemonQueue, Ready
<1>11. ServerQueue'
  <2> SUFFICES ASSUME hsrv.alive PROVE ServerQueue'
    BY DEF ServerQueue
  <2>1. \A j \in DOMAIN ToS : ToS[j].auth = "ok" /\ ToS[j].enc = hsrv.ssl /\ ~Turn(ToS[j])
    BY <1>0 DEF ServerQueue, Ready, HasTurn
  <2>2. \A j \in DOMAIN ToS' : \/ j = Len(ToS') /\ ToS'[j] = m
                               \/ ToS'[j].auth = "ok" /\ ToS'[j].enc = hsrv.ssl /\ ~Turn(ToS'[j])
    BY <2>1, <1>4
  <2>3. (\A j \in DOMAIN hsrv.io : hsrv.io[j].good)
    BY <1>0 DEF ServerQueue
  <2>4. hsrv'.tls = hdmn'.tls
    BY <1>3
  <2> QED BY <2>2, <2>3, <2>4, <1>2, <1>7, <1>a DEF ServerQueue
<1>12. ViewFollows'
  <2>1. GetSessionAuthStatus(hdmn.sid)' # "ok"
    BY <1>1, <1>3 DEF GetSessionAuthStatus
  <2> QED BY <1>3, <1>7, <2>1 DEF ViewFollows
<1> QED BY <1>0, <1>1, <1>8, <1>9, <1>10, <1>11, <1>12 DEF AgreeCore

\* The dialog is shown: nobody has the turn until it is answered.
LEMMA DialogKeeps ==
    ASSUME AgreeCore, HandshakeShape, NEW d, Ready(d), NEW k, hdmn' = [d EXCEPT !.pc = "dialog", !.key = k],
           hthr' = "send", UNCHANGED <<hcfg, hsrv, hnet, hauth, hhist>>, hsrv.tls = 0, hdmn.tls = 0,
           GetSessionAuthStatus(d.sid) = "none"
    PROVE  AgreeCore'
<1>0. AgreeShape /\ TlsPhases /\ DaemonQueue /\ ServerQueue /\ ViewFollows
  BY DEF AgreeCore
<1>3. /\ hdmn'.alive = TRUE /\ hdmn'.sid = d.sid /\ hdmn'.ssl = d.ssl /\ hdmn'.tls = d.tls /\ hdmn'.enc = d.enc
      /\ hdmn'.pc = "dialog" /\ hdmn'.io = d.io
  BY DEF Ready, HandshakeShape
<1>5. ToD' = QueueOf(d.io, hnet.s2d) /\ ToS' = ToS
  BY <1>3 DEF ToD, ToS
<1>6. /\ \A j \in DOMAIN ToD' : ~Turn(ToD'[j]) /\ ToD'[j].cmd # "handshake" /\ ToD'[j].enc = d.ssl
      /\ hcfg.encrypt /\ ~hsrv.ssl => DOMAIN ToD' = {}
  BY <1>5 DEF Ready
<1>8. AgreeShape'
  BY <1>0, <1>3 DEF AgreeShape, Ready
<1>9. TlsPhases'
  BY <1>0, <1>3 DEF TlsPhases, Ready
<1>10. DaemonQueue'
  BY <1>3, <1>6 DEF DaemonQueue, Ready
<1>11. ServerQueue'
  <2> SUFFICES ASSUME hsrv.alive PROVE ServerQueue'
    BY DEF ServerQueue
  <2>1. \A j \in DOMAIN ToS : ToS[j].auth = "ok" /\ ToS[j].enc = hsrv.ssl /\ ~Turn(ToS[j])
    BY <1>0 DEF ServerQueue, Ready, HasTurn
  <2>3. (\A j \in DOMAIN hsrv.io : hsrv.io[j].good)
    BY <1>0 DEF ServerQueue
  <2> QED BY <2>1, <2>3, <1>5 DEF ServerQueue
<1>12. ViewFollows'
  <2>1. GetSessionAuthStatus(hdmn.sid)' # "ok"
    BY <1>3 DEF GetSessionAuthStatus
  <2> QED BY <1>3, <2>1 DEF ViewFollows
<1> QED BY <1>0, <1>8, <1>9, <1>10, <1>11, <1>12 DEF AgreeCore

\* A host that is not on the list is told so, and the session ends.
LEMMA RejectKeeps ==
    ASSUME AgreeCore, HandshakeShape, NEW d, Ready(d), hdmn' = DaemonFree(d), NEW m, m.auth = "ok", m.enc = d.ssl,
           hnet' = ToServer(m), UNCHANGED <<hcfg, hsrv, hthr, hhist>>
    PROVE  AgreeCore'
<1>0. AgreeShape /\ TlsPhases /\ DaemonQueue /\ ServerQueue /\ ViewFollows
  BY DEF AgreeCore
<1>1. /\ hdmn'.alive = FALSE /\ hdmn'.io = <<>> /\ hdmn'.pc = "idle" /\ hdmn'.tls = hdmn.tls /\ hdmn'.ssl = hdmn.ssl
  BY DEF DaemonFree, HandshakeShape, Ready
<1>3. IsQueue(<<>>)
  BY DEF IsQueue
<1>4. /\ hnet'.s2d = hnet.s2d /\ DOMAIN hnet' = {"s2d", "d2s"} /\ IsQueue(hnet'.d2s)
      /\ Len(ToS') = Len(ToS) + 1 /\ ToS'[Len(ToS')] = m /\ Len(ToS') \in DOMAIN ToS'
      /\ DOMAIN ToS' = DOMAIN ToS \cup {Len(ToS')}
      /\ \A j \in DOMAIN ToS : ToS'[j] = ToS[j] /\ j # Len(ToS')
  BY <1>0, ToServerIs
<1>8. AgreeShape'
  BY <1>0, <1>1, <1>3, <1>4 DEF AgreeShape
<1>9. TlsPhases'
  BY <1>0, <1>1 DEF TlsPhases, Ready
<1>10. DaemonQueue'
  BY <1>1 DEF DaemonQueue
<1>11. ServerQueue'
  <2> SUFFICES ASSUME hsrv.alive PROVE ServerQueue'
    BY DEF ServerQueue
  <2>1. \A j \in DOMAIN ToS : ToS[j].auth = "ok" /\ ToS[j].enc = hsrv.ssl /\ ~Turn(ToS[j])
    BY <1>0 DEF ServerQueue, Ready, HasTurn
  <2>a. ~Turn(m)
    BY DEF Turn
  <2>2. \A j \in DOMAIN ToS' : ToS'[j].auth = "ok" /\ ToS'[j].enc = hsrv.ssl /\ ~Turn(ToS'[j])
    BY <2>1, <2>a, <1>4 DEF Ready
  <2>3. \A j \in DOMAIN hsrv.io : hsrv.io[j].good
    BY <1>0 DEF ServerQueue
  <2> QED BY <2>2, <2>3 DEF ServerQueue
<1>12. ViewFollows'
  BY <1>1 DEF ViewFollows
<1> QED BY <1>0, <1>8, <1>9, <1>10, <1>11, <1>12 DEF AgreeCore

\* Whoever the daemon has asked, or its thread, has the turn.
LEMMA AskedIsReady ==
    ASSUME AgreeCore, HandshakeShape, hdmn.alive, Asked, hdmn.pc # "ssl wait",
           NEW d, d \in {hdmn, [hdmn EXCEPT !.pc = "idle"]}
    PROVE  Ready(d) /\ hsrv.tls = 0 /\ hdmn.tls = 0
<1>0. AgreeShape /\ TlsPhases /\ DaemonQueue /\ ServerQueue
  BY DEF AgreeCore
<1>1. /\ DOMAIN d = DOMAIN hdmn /\ d.alive = hdmn.alive /\ d.sid = hdmn.sid /\ d.ssl = hdmn.ssl /\ d.tls = hdmn.tls
      /\ d.enc = hdmn.enc /\ d.io = hdmn.io /\ d.pc \in {"idle", hdmn.pc}
  BY DEF HandshakeShape
<1>2. hsrv.tls = 0 /\ hdmn.tls = 0
  BY <1>0 DEF TlsPhases
<1>3. \A j \in DOMAIN ToD : ~Turn(ToD[j])
  BY <1>0 DEF DaemonQueue, Asked
<1>4. ToD = QueueOf(d.io, hnet.s2d)
  BY <1>1 DEF ToD
<1>5. \A j \in DOMAIN ToD : ToD[j].cmd # "handshake" /\ ToD[j].enc = d.ssl
  BY <1>0, <1>1, <1>3 DEF DaemonQueue
<1>6. hcfg.encrypt /\ ~hsrv.ssl => DOMAIN ToD = {}
  BY <1>0, <1>3 DEF DaemonQueue
<1>7. hsrv.alive => ~HasTurn(ToS)
  BY <1>0 DEF ServerQueue, HasTurn
<1>8. d.ssl = hsrv.ssl
  <2>1. ~hdmn.ssl /\ ~hsrv.ssl
    BY <1>0, <1>2, TlsNumbers, Zenon DEF TlsPhases
  <2>2. hdmn.ssl \in BOOLEAN /\ hsrv.ssl \in BOOLEAN
    BY <1>0, Zenon DEF AgreeShape
  <2> QED BY <1>1, <2>1, <2>2, Zenon
<1>9. d.sid = hsrv.sid
  <2>1. \A j \in DOMAIN ToD : ToD[j].auth # "none"
    BY <1>3 DEF Turn
  <2> QED BY <1>0, <1>1, <2>1 DEF DaemonQueue
<1>10. /\ d.alive = TRUE /\ d.pc \in {"idle", "dialog", "answered"} /\ (d.enc => hcfg.encrypt)
       /\ IsQueue(d.io) /\ \A j \in DOMAIN d.io : d.io[j].good
  <2>1. hdmn.alive = TRUE /\ hdmn.pc \in {"idle", "dialog", "answered"} /\ IsQueue(hdmn.io)
    BY <1>0 DEF AgreeShape
  <2>2. hdmn.enc => hcfg.encrypt
    BY <1>0, Zenon DEF TlsPhases
  <2>3. \A j \in DOMAIN hdmn.io : hdmn.io[j].good
    BY <1>0 DEF DaemonQueue
  <2> QED BY <1>1, <2>1, <2>2, <2>3
<1> HIDE DEF ToD
<1>11. \A j \in DOMAIN QueueOf(d.io, hnet.s2d) :
         LET m == QueueOf(d.io, hnet.s2d)[j] IN ~Turn(m) /\ m.cmd # "handshake" /\ m.enc = d.ssl
  BY <1>3, <1>4, <1>5
<1>12. Ready(d)
  BY <1>1, <1>4, <1>6, <1>7, <1>8, <1>9, <1>10, <1>11 DEF Ready
<1> QED BY <1>2, <1>12

\* The daemon takes the message that has the turn.
LEMMA TurnTaken ==
    ASSUME AgreeCore, HandshakeShape, hdmn.alive, hdmn.pc = "idle", hdmn.io # <<>>,
           Head(hdmn.io).m.cmd = "handshake",
           NEW d, IF Head(hdmn.io).m.auth = "none"
                  THEN d = DaemonSessionHandshakeInit(Next_io(hdmn), Head(hdmn.io).m.body)
                  ELSE d = Next_io(hdmn)
    PROVE  /\ Ready(d) /\ d.pc = "idle" /\ hthr = "none" /\ Turn(Head(hdmn.io).m)
           /\ IF Head(hdmn.io).m.auth = "psk" THEN hcfg.encrypt /\ hsrv.tls = hdmn.tls + 1
              ELSE hsrv.tls = 0 /\ hdmn.tls = 0
           /\ Head(hdmn.io).m.auth = "none" \/ GetSessionAuthStatus(d.sid) # "ok"
<1> DEFINE m == Head(hdmn.io).m
           q == QueueOf(Tail(hdmn.io), hnet.s2d)
<1>0. AgreeShape /\ TlsPhases /\ DaemonQueue /\ ServerQueue /\ ViewFollows
  BY DEF AgreeCore
<1>1. /\ IsQueue(Tail(hdmn.io)) /\ ToD[1] = m /\ 1 \in DOMAIN ToD /\ Len(q) = Len(ToD) - 1
      /\ (\A j \in DOMAIN q : q[j] = ToD[j + 1] /\ j + 1 \in DOMAIN ToD)
      /\ \A j \in DOMAIN Tail(hdmn.io) : Tail(hdmn.io)[j] = hdmn.io[j + 1] /\ j + 1 \in DOMAIN hdmn.io
  <2>1. IsQueue(hdmn.io) /\ IsQueue(hnet.s2d)
    BY <1>0 DEF AgreeShape
  <2> QED BY <2>1, QueuePop DEF ToD
<1>2. DOMAIN q = 1..Len(q) /\ Len(q) \in Nat
  BY <1>0, <1>1, QueueOfIs DEF AgreeShape, IsQueue
<1> HIDE DEF m, q
<1>3. Turn(m)
  BY <1>0, <1>1 DEF DaemonQueue, m
<1>4. /\ hthr = "none" /\ (m.auth = "psk" => hcfg.encrypt /\ hsrv.tls = hdmn.tls + 1)
      /\ (m.auth # "psk" => hsrv.tls = 0 /\ hdmn.tls = 0) /\ ("encrypt" \in m.body.feature => hcfg.encrypt)
  BY <1>0, <1>1, <1>3 DEF DaemonQueue
<1>5. \A j \in DOMAIN q : ~Turn(q[j])
  <2> SUFFICES ASSUME NEW j \in DOMAIN q, Turn(q[j]) PROVE FALSE
    OBVIOUS
  <2>1. j + 1 = 1
    BY <1>0, <1>1, <1>3 DEF DaemonQueue
  <2> QED BY <1>2, <2>1
<1>6. \A j \in DOMAIN q : q[j].cmd # "handshake" /\ q[j].enc = hdmn.ssl
  BY <1>0, <1>1, <1>5 DEF DaemonQueue
<1>7. hcfg.encrypt /\ ~hsrv.ssl => DOMAIN q = {}
  BY <1>0, <1>1, <1>5 DEF DaemonQueue
<1>8. \A j \in DOMAIN Tail(hdmn.io) : Tail(hdmn.io)[j].good
  BY <1>0, <1>1 DEF DaemonQueue
<1>9. hsrv.alive => ~HasTurn(ToS)
  <2>1. HasTurn(ToD)
    BY <1>1, <1>3 DEF HasTurn
  <2> QED BY <1>0, <2>1 DEF ServerQueue, HasTurn
<1>10. hdmn.ssl = hsrv.ssl
  <2>1. hdmn.tls # 2
    <3>1. hdmn.tls \in 0..2 /\ hsrv.tls \in 0..2
      BY <1>0, Zenon DEF AgreeShape
    <3>2. hdmn.tls = 0 \/ hsrv.tls = hdmn.tls + 1
      BY <1>4
    <3> QED BY <3>1, <3>2
  <2>2. ~hdmn.ssl /\ ~hsrv.ssl
    BY <1>0, <2>1, Zenon DEF TlsPhases
  <2>3. hdmn.ssl \in BOOLEAN /\ hsrv.ssl \in BOOLEAN
    BY <1>0, Zenon DEF AgreeShape
  <2> QED BY <2>2, <2>3, Zenon
<1>11. /\ DOMAIN d = DOMAIN hdmn /\ d.alive = hdmn.alive /\ d.ssl = hdmn.ssl /\ d.tls = hdmn.tls
       /\ d.pc = hdmn.pc /\ d.io = Tail(hdmn.io)
       /\ IF m.auth = "none" THEN d.sid = hsrv.sid /\ (d.enc => "encrypt" \in m.body.feature)
          ELSE d.sid = hdmn.sid /\ d.enc = hdmn.enc
  <2>1. CASE m.auth = "none"
    <3>1. d = DaemonSessionHandshakeInit(Next_io(hdmn), m.body)
      BY <2>1 DEF m
    <3> QED BY <2>1, <3>1 DEF DaemonSessionHandshakeInit, Next_io, HandshakeShape
  <2>2. CASE m.auth # "none"
    <3>1. d = Next_io(hdmn)
      BY <2>2 DEF m
    <3> QED BY <2>2, <3>1 DEF Next_io, HandshakeShape
  <2> QED BY <2>1, <2>2
<1>12. d.sid = hsrv.sid /\ (d.enc => hcfg.encrypt)
  <2>1. CASE m.auth = "none"
    BY <2>1, <1>4, <1>11
  <2>2. CASE m.auth # "none"
    <3>1. \A j \in DOMAIN ToD : ToD[j].auth # "none"
      <4> SUFFICES ASSUME NEW j \in DOMAIN ToD, ToD[j].auth = "none" PROVE FALSE
        OBVIOUS
      <4>1. Turn(ToD[j])
        BY DEF Turn
      <4>2. j = 1
        BY <1>0, <1>1, <1>3, <4>1 DEF DaemonQueue
      <4> QED BY <1>1, <2>2, <4>2
    <3>2. hdmn.sid = hsrv.sid
      BY <1>0, <3>1 DEF DaemonQueue
    <3>3. hdmn.enc => hcfg.encrypt
      BY <1>0, Zenon DEF TlsPhases
    <3> QED BY <2>2, <1>11, <3>2, <3>3
  <2> QED BY <2>1, <2>2
<1>13. Ready(d)
  <2>1. q = QueueOf(d.io, hnet.s2d)
    BY <1>11 DEF q
  <2>2. hdmn.alive = TRUE
    BY <1>0 DEF AgreeShape
  <2>3. \A j \in DOMAIN QueueOf(d.io, hnet.s2d) :
         LET n == QueueOf(d.io, hnet.s2d)[j] IN ~Turn(n) /\ n.cmd # "handshake" /\ n.enc = d.ssl
    BY <1>5, <1>6, <1>11, <2>1
  <2> QED BY <1>1, <1>7, <1>8, <1>9, <1>10, <1>11, <1>12, <2>1, <2>2, <2>3 DEF Ready
<1>14. GetSessionAuthStatus(hdmn.sid) # "ok"
  <2>1. TurnLeft
    BY <1>1, <1>3 DEF HasTurn, TurnLeft
  <2> QED BY <1>0, <2>1 DEF ViewFollows
<1> QED BY <1>3, <1>4, <1>11, <1>13, <1>14 DEF m

\* A status that is recorded for the session of the server.
LEMMA StatusIs ==
    ASSUME AgreeShape, hdmn.alive, UNCHANGED hsrv, NEW t, TypeSet(hauth', hsrv.sid, t)
    PROVE  GetSessionAuthStatus(hsrv.sid)' = t
<1>0. hsrv.sid \in 0..MaxSessions /\ hsrv.sid # 0
  BY Zenon DEF AgreeShape
<1>1. hsrv.sid \in Ids
  BY <1>0, HandshakeBounds DEF Ids
<1> QED BY <1>1 DEF TypeSet, GetSessionAuthStatus

\* The key is asked to be proved, by a signature or by TLS.
LEMMA SendAuthMsgKeeps ==
    ASSUME AgreeCore, HandshakeShape, NEW d, Ready(d), NEW k, SendAuthMsg(d, k), hthr = "none", d.pc = "idle",
           UNCHANGED <<hcfg, hsrv, hthr>>, hsrv.tls = 0, hdmn.tls = 0, NoLapse'
    PROVE  AgreeCore'
<1> DEFINE m == IF hcfg.tcp /\ d.enc THEN Message("psk", RsaPubkeyEncryptPsk(k), d.ssl)
                ELSE Message("sign", [NoBody EXCEPT !.token = d.sid], d.ssl)
<1>0. AgreeShape /\ hdmn.alive /\ d.sid = hsrv.sid
  BY DEF AgreeCore, Ready
<1>a. "silent" \in Lapse(Allow(d.sid), "silent", TRUE).lapses
  BY DEF Lapse, Allow, HandshakeShape
<1>1. hdmn' = d /\ hnet' = ToServer(m) /\ hhist'.garbled = hhist.garbled
  <2>1. hhist' # Lapse(Allow(d.sid), "silent", TRUE)
    BY <1>a DEF NoLapse
  <2>2. Allow(d.sid).garbled = hhist.garbled
    BY DEF Allow, HandshakeShape
  <2> QED BY <2>1, <2>2 DEF SendAuthMsg
<1>b. GetSessionAuthStatus(hsrv.sid)' = "pubkey"
  BY <1>0, UpdateSessionAuthPubkeySets, StatusIs DEF SendAuthMsg
<1>2. Turn(m) /\ m.enc = d.ssl /\ (m.auth = "psk" => hcfg.encrypt)
  <2>1. CASE hcfg.tcp /\ d.enc
    <3>1. m = Message("psk", RsaPubkeyEncryptPsk(k), d.ssl)
      BY <2>1
    <3>2. hcfg.encrypt
      BY <2>1, Zenon DEF Ready
    <3> HIDE DEF m
    <3> QED BY <3>1, <3>2 DEF Turn, Message
  <2>2. CASE ~(hcfg.tcp /\ d.enc)
    <3>1. m = Message("sign", [NoBody EXCEPT !.token = d.sid], d.ssl)
      BY <2>2
    <3> HIDE DEF m
    <3> QED BY <3>1 DEF Turn, Message
  <2> QED BY <2>1, <2>2
<1> HIDE DEF m
<1> QED BY <1>1, <1>2, <1>b, AskKeeps

\* HandDaemonAuth as a whole.
LEMMA HandDaemonAuthAgrees ==
    ASSUME AgreeCore, HandshakeShape, hdmn.alive, NEW d, Ready(d), d.pc = "idle", hthr = "none", NEW m,
           IF m.auth = "psk" THEN hcfg.encrypt /\ hsrv.tls = hdmn.tls + 1 ELSE hsrv.tls = 0 /\ hdmn.tls = 0,
           GetSessionAuthStatus(d.sid) # "ok", HandDaemonAuth(d, m), UNCHANGED <<hcfg, hsrv>>, NoLapse'
    PROVE  AgreeCore'
<1>0. AgreeShape /\ d.sid = hsrv.sid /\ DOMAIN d = DOMAIN hdmn /\ d.tls = hdmn.tls /\ d.ssl = hdmn.ssl
  BY DEF AgreeCore, Ready
<1>1. ASSUME hauth' = UpdateSessionAuthOk(d.sid), SendAuthOkMsg(d, FALSE), UNCHANGED hthr, hhist'.garbled = hhist.garbled
      PROVE  AgreeCore'
  <2>1. GetSessionAuthStatus(hsrv.sid)' = "ok"
    BY <1>0, <1>1, UpdateSessionAuthOkSets, StatusIs
  <2>2. FALSE = (GetSessionAuthStatus(hsrv.sid)' # "ok") /\ FALSE \in BOOLEAN /\ hthr' = "none"
    BY <1>1, <2>1
  <2> QED BY <1>1, <2>2, OkKeeps
<1>2. ASSUME HandleAuthFailed(d), UNCHANGED <<hthr, hhist>>
      PROVE  AgreeCore'
  <2>1. hauth' = UpdateSessionAuthmsg(d.sid) /\ SendAuthOkMsg(d, TRUE)
    BY <1>2 DEF HandleAuthFailed
  <2>2. GetSessionAuthStatus(hsrv.sid)' = "fail"
    BY <1>0, <2>1, UpdateSessionAuthmsgSets, StatusIs
  <2>3. TRUE = (GetSessionAuthStatus(hsrv.sid)' # "ok") /\ TRUE \in BOOLEAN /\ hthr' = "none" /\ hhist'.garbled = hhist.garbled
    BY <1>2, <2>2
  <2> QED BY <2>1, <2>3, OkKeeps
<1>3. CASE NoAuthNeeded
  <2>1. hauth' = UpdateSessionAuthOk(d.sid) /\ SendAuthOkMsg(d, FALSE) /\ UNCHANGED <<hthr, hhist>>
    BY <1>3 DEF HandDaemonAuth
  <2> QED BY <2>1, <1>1
<1>4. CASE ~NoAuthNeeded /\ (hcfg.host = "low" \/ (hcfg.validation /\ ~d.conval))
  <2>1. HandleAuthFailed(d) /\ UNCHANGED <<hthr, hhist>>
    BY <1>4 DEF HandDaemonAuth
  <2> QED BY <2>1, <1>2
<1>5. CASE ~NoAuthNeeded /\ ~(hcfg.host = "low" \/ (hcfg.validation /\ ~d.conval))
  <2>1. CASE m.auth = "none" /\ HandDaemonAuthInit(d) /\ UNCHANGED <<hthr, hhist>>
    <3> DEFINE n == Message("pubkey", [NoBody EXCEPT !.scheme = d.scheme], d.ssl)
    <3>1. hdmn' = d /\ hnet' = ToServer(n)
      BY <2>1 DEF HandDaemonAuthInit
    <3>2. Turn(n) /\ n.enc = d.ssl /\ n.auth # "psk"
      BY DEF Message, Turn
    <3>3. hsrv.tls = 0 /\ hdmn.tls = 0
      BY <2>1
    <3>4. hhist'.garbled = hhist.garbled
      BY <2>1
    <3>5. GetSessionAuthStatus(hsrv.sid)' = "none"
      BY <1>0, <2>1, InitSessionAuthInfoSets, StatusIs DEF HandDaemonAuthInit
    <3> HIDE DEF n
    <3> QED BY <2>1, <3>1, <3>2, <3>3, <3>4, <3>5, AskKeeps
  <2>2. CASE m.auth = "pubkey" /\ GetSessionAuthStatus(d.sid) = "none" /\ HandDaemonAuthPubkey(d, m.body.key)
    <3> DEFINE k == m.body.key
    <3>0. hsrv.tls = 0 /\ hdmn.tls = 0
      BY <2>2
    <3>1. CASE SendAuthMsg(d, k) /\ UNCHANGED hthr
      <4> HIDE DEF k
      <4> QED BY <3>0, <3>1, SendAuthMsgKeeps
    <3>2. CASE /\ hdmn' = DaemonFree(d) /\ UNCHANGED <<hhist, hthr>>
               /\ hnet' = ToServer(Message("ok", [NoBody EXCEPT !.unauth = TRUE], d.ssl))
      <4> DEFINE n == Message("ok", [NoBody EXCEPT !.unauth = TRUE], d.ssl)
      <4>1. n.auth = "ok" /\ n.enc = d.ssl
        BY DEF Message
      <4> HIDE DEF n
      <4>2. hnet' = ToServer(n)
        BY <3>2 DEF n
      <4> QED BY <3>2, <4>1, <4>2, RejectKeeps
    <3>3. CASE hthr' = "send" /\ hdmn' = [d EXCEPT !.pc = "dialog", !.key = k] /\ UNCHANGED <<hauth, hnet, hhist>>
      <4> HIDE DEF k
      <4> QED BY <2>2, <3>0, <3>3, DialogKeeps
    <3> QED BY <2>2, <3>1, <3>2, <3>3 DEF HandDaemonAuthPubkey, HandConnectValidationPubkey
  <2>3. CASE m.auth = "sign" /\ HandDaemonAuthSignature(d, m.body) /\ UNCHANGED hthr
    <3>1. CASE AuthVerify(d, m.body)
      <4>1. hauth' = UpdateSessionAuthOk(d.sid) /\ SendAuthOkMsg(d, FALSE) /\ hhist' \in {Prove(d.sid), hhist}
        BY <2>3, <3>1 DEF HandDaemonAuthSignature
      <4>2. hhist'.garbled = hhist.garbled
        BY <4>1 DEF Prove, HandshakeShape
      <4> QED BY <2>3, <4>1, <4>2, <1>1
    <3>2. CASE ~AuthVerify(d, m.body)
      <4>1. HandleAuthFailed(d) /\ UNCHANGED hhist
        BY <2>3, <3>2 DEF HandDaemonAuthSignature
      <4> QED BY <2>3, <4>1, <1>2
    <3> QED BY <3>1, <3>2
  <2>4. CASE /\ m.auth = "psk" /\ GetSessionAuthStatus(d.sid) = "pubkey" /\ DaemonSSLHandshake(d)
             /\ UNCHANGED hthr
    <3>1. hcfg.encrypt /\ hsrv.tls = hdmn.tls + 1
      BY <2>4
    <3> QED BY <2>4, <3>1, FlightKeeps
  <2>5. CASE hdmn' = DaemonFree(d) /\ UNCHANGED <<hauth, hnet, hthr, hhist>>
    <3>1. hhist'.garbled = hhist.garbled /\ hthr' \in {"none", hthr}
      BY <2>5
    <3> QED BY <1>0, <2>5, <3>1, DaemonFreeKeeps
  <2> QED BY <1>5, <2>1, <2>2, <2>3, <2>4, <2>5 DEF HandDaemonAuth
<1> QED BY <1>3, <1>4, <1>5

\* The server gives the turn back.
LEMMA ServerAnswers ==
    ASSUME AgreeCore, HandshakeShape, hsrv.alive, hsrv.io # <<>>, Head(hsrv.io).m.auth # "ok",
           DOMAIN hsrv' = DOMAIN hsrv, hsrv'.io = Tail(hsrv.io), hsrv'.alive = hsrv.alive, hsrv'.sid = hsrv.sid,
           hsrv'.ssl = hsrv.ssl, hsrv'.hs = hsrv.hs,
           NEW n, Turn(n), n.cmd = "handshake", n.enc = hsrv.ssl, n.body.feature = {}, n.auth # "none",
           hnet' = ToDaemon(n), UNCHANGED <<hcfg, hdmn, hauth, hthr, hhist>>,
           IF Head(hsrv.io).m.auth = "psk"
           THEN n.auth = "psk" /\ ((hsrv.tls = 0 /\ hsrv'.tls = 1) \/ (hsrv.tls = 1 /\ hsrv'.tls = 2))
           ELSE n.auth # "psk" /\ hsrv'.tls = hsrv.tls
    PROVE  AgreeCore'
<1>0. AgreeShape /\ TlsPhases /\ DaemonQueue /\ ServerQueue /\ ViewFollows
  BY DEF AgreeCore
<1>1. /\ hnet'.d2s = hnet.d2s /\ DOMAIN hnet' = {"s2d", "d2s"} /\ IsQueue(hnet'.s2d)
      /\ Len(ToD') = Len(ToD) + 1 /\ ToD'[Len(ToD')] = n /\ Len(ToD') \in DOMAIN ToD'
      /\ DOMAIN ToD' = DOMAIN ToD \cup {Len(ToD')}
      /\ \A j \in DOMAIN ToD : ToD'[j] = ToD[j] /\ j # Len(ToD')
  BY <1>0, ToDaemonIs
<1>2. /\ IsQueue(hsrv'.io) /\ 1 \in DOMAIN ToS /\ ToS[1] = Head(hsrv.io).m
      /\ Len(ToS') = Len(ToS) - 1 /\ DOMAIN ToS' = 1..Len(ToS')
      /\ \A j \in DOMAIN hsrv'.io : hsrv'.io[j] = hsrv.io[j + 1] /\ j + 1 \in DOMAIN hsrv.io
  BY <1>0, <1>1, ServerTakes
<1>3. /\ Turn(ToS[1]) /\ 1 = Len(ToS) /\ ~hsrv.ssl
      /\ ToS[1].auth = "psk" => hcfg.encrypt /\ hsrv.tls = hdmn.tls
      /\ ToS[1].auth # "psk" => hsrv.tls = 0 /\ hdmn.tls = 0
      /\ hdmn.alive => ~Asked /\ ~HasTurn(ToD)
  BY <1>0, <1>2 DEF ServerQueue
<1>4. DOMAIN ToS' = {}
  <2>1. Len(ToS) = 1 /\ Len(ToS') = Len(ToS) - 1 /\ DOMAIN ToS' = 1..Len(ToS')
    BY <1>2, <1>3, Zenon
  <2> HIDE DEF ToS
  <2>2. Len(ToS') = 0
    BY <2>1
  <2> QED BY <2>1, <2>2
<1>5. \/ n.auth = "psk" /\ hcfg.encrypt /\ hdmn.tls = 0 /\ hsrv'.tls = 1
      \/ n.auth = "psk" /\ hcfg.encrypt /\ hdmn.tls = 1 /\ hsrv'.tls = 2
      \/ n.auth # "psk" /\ hdmn.tls = 0 /\ hsrv'.tls = 0
  BY <1>2, <1>3
<1>6. hdmn.tls # 2 /\ ~hdmn.ssl
  <2>1. hdmn.tls # 2
    BY <1>5, TlsNumbers, Zenon
  <2> QED BY <1>0, <2>1, Zenon DEF TlsPhases
<1>7. hdmn.ssl = hsrv.ssl
  BY <1>0, <1>3, <1>6, Zenon DEF AgreeShape
<1>8. hdmn.alive => hdmn.pc = "idle" /\ hthr = "none"
  BY <1>0, <1>3, <1>6 DEF AgreeShape, TlsPhases, Asked
<1>9. Asked' <=> Asked
  BY DEF Asked
<1>10. AgreeShape'
  <2>1. hsrv'.tls \in 0..2
    BY <1>5
  <2> QED BY <1>0, <1>1, <1>2, <2>1 DEF AgreeShape
<1>11. TlsPhases'
  <2>1. ~hcfg.encrypt => hsrv'.tls = 0 /\ hdmn.tls = 0
    BY <1>5, Zenon
  <2> QED BY <1>0, <1>3, <1>6, <1>9, <2>1, Zenon DEF TlsPhases
<1>12. DaemonQueue'
  <2> SUFFICES ASSUME hdmn.alive PROVE DaemonQueue'
    BY DEF DaemonQueue
  <2>1. \A j \in DOMAIN ToD : ~Turn(ToD[j])
    BY <1>3 DEF HasTurn
  <2>2. \A j \in DOMAIN ToD' : \/ j = Len(ToD') /\ ToD'[j] = n
                               \/ j \in DOMAIN ToD /\ ToD'[j] = ToD[j] /\ ~Turn(ToD'[j])
    BY <1>1, <2>1
  <2>3. \A j \in DOMAIN hdmn'.io : hdmn'.io[j].good
    BY <1>0 DEF DaemonQueue
  <2>4. \A j \in DOMAIN ToD' : ToD'[j].enc = hdmn'.ssl
    BY <1>0, <1>7, <2>2 DEF DaemonQueue
  <2>5. \A i, j \in DOMAIN ToD' : Turn(ToD'[i]) /\ Turn(ToD'[j]) => i = j
    BY <2>2
  <2>6. n.auth = "psk" => hcfg.encrypt /\ hsrv'.tls = hdmn.tls + 1
    BY <1>5
  <2>7. n.auth # "psk" => hsrv'.tls = 0 /\ hdmn.tls = 0
    BY <1>5
  <2>8. \A j \in DOMAIN ToD' :
         Turn(ToD'[j]) => /\ hdmn'.pc = "idle" /\ hthr' = "none" /\ ToD'[j].cmd = "handshake"
                          /\ ToD'[j].auth = "psk" => hcfg'.encrypt /\ hsrv'.tls = hdmn'.tls + 1
                          /\ ToD'[j].auth # "psk" => hsrv'.tls = 0 /\ hdmn'.tls = 0
                          /\ "encrypt" \in ToD'[j].body.feature => hcfg'.encrypt
    <3> SUFFICES ASSUME NEW j \in DOMAIN ToD', Turn(ToD'[j])
                 PROVE  /\ hdmn'.pc = "idle" /\ hthr' = "none" /\ ToD'[j].cmd = "handshake"
                        /\ ToD'[j].auth = "psk" => hcfg'.encrypt /\ hsrv'.tls = hdmn'.tls + 1
                        /\ ToD'[j].auth # "psk" => hsrv'.tls = 0 /\ hdmn'.tls = 0
                        /\ "encrypt" \in ToD'[j].body.feature => hcfg'.encrypt
      OBVIOUS
    <3>1. ToD'[j] = n
      BY <2>2
    <3>2. hdmn' = hdmn /\ hcfg' = hcfg /\ hthr' = hthr /\ "encrypt" \notin n.body.feature
      OBVIOUS
    <3>3. hdmn.pc = "idle" /\ hthr = "none"
      BY <1>8
    <3> QED BY <2>6, <2>7, <3>1, <3>2, <3>3, Zenon
  <2>9. \A j \in DOMAIN ToD' : ~Turn(ToD'[j]) => ToD'[j].cmd # "handshake"
    BY <1>0, <2>2 DEF DaemonQueue
  <2>10. hcfg'.encrypt /\ ~hsrv'.ssl => \A j \in DOMAIN ToD' : Turn(ToD'[j])
    BY <1>0, <2>1, <2>2 DEF DaemonQueue
  <2>11. hdmn'.sid = hsrv'.sid
    BY <1>0, <2>1 DEF DaemonQueue, Turn
  <2> QED BY <2>3, <2>4, <2>5, <2>8, <2>9, <2>10, <2>11, Zenon DEF DaemonQueue
<1>13. ServerQueue'
  <2>1. \A j \in DOMAIN hsrv'.io : hsrv'.io[j].good
    BY <1>0, <1>2 DEF ServerQueue
  <2> QED BY <1>4, <2>1 DEF ServerQueue
<1>14. ViewFollows'
  <2>1. HasTurn(ToD')
    BY <1>1 DEF HasTurn
  <2>2. GetSessionAuthStatus(hdmn.sid)' = GetSessionAuthStatus(hdmn.sid)
    BY DEF GetSessionAuthStatus
  <2>3. TurnLeft
    BY <1>2, <1>3 DEF TurnLeft, HasTurn
  <2> QED BY <1>0, <2>1, <2>2, <2>3 DEF ViewFollows
<1> QED BY <1>0, <1>10, <1>11, <1>12, <1>13, <1>14 DEF AgreeCore

\* The server encrypts from here on: the daemon does so already, and nothing is
\* under way.
LEMMA LabelKeeps ==
    ASSUME AgreeCore, HandshakeShape, hsrv.alive, hsrv.io # <<>>, Head(hsrv.io).m.auth = "psk", hsrv.tls = 2,
           hsrv' = SetHandshakeLabel(Next_io(hsrv)), UNCHANGED <<hcfg, hdmn, hauth, hthr, hnet, hhist>>
    PROVE  AgreeCore'
<1>0. AgreeShape /\ TlsPhases /\ DaemonQueue /\ ServerQueue /\ ViewFollows
  BY DEF AgreeCore
<1>1. /\ DOMAIN hsrv' = DOMAIN hsrv /\ hsrv'.io = Tail(hsrv.io) /\ hsrv'.alive = hsrv.alive /\ hsrv'.sid = hsrv.sid
      /\ hsrv'.ssl = TRUE /\ hsrv'.hs = hsrv.hs /\ hsrv'.tls = hsrv.tls
  BY <1>0 DEF AgreeShape, SetHandshakeLabel, Next_io
<1>2. /\ IsQueue(hsrv'.io) /\ 1 \in DOMAIN ToS /\ ToS[1] = Head(hsrv.io).m
      /\ Len(ToS') = Len(ToS) - 1 /\ DOMAIN ToS' = 1..Len(ToS')
      /\ \A j \in DOMAIN hsrv'.io : hsrv'.io[j] = hsrv.io[j + 1] /\ j + 1 \in DOMAIN hsrv.io
  BY <1>0, <1>1, ServerTakes
<1>3. /\ Turn(ToS[1]) /\ 1 = Len(ToS) /\ ~hsrv.ssl
      /\ hcfg.encrypt /\ hsrv.tls = hdmn.tls
      /\ hdmn.alive => ~Asked /\ ~HasTurn(ToD)
  <2>1. Turn(ToS[1]) /\ ToS[1].auth = "psk"
    BY <1>2 DEF Turn
  <2> QED BY <1>0, <1>2, <2>1 DEF ServerQueue
<1>4. DOMAIN ToS' = {}
  <2>1. Len(ToS) = 1 /\ Len(ToS') = Len(ToS) - 1 /\ DOMAIN ToS' = 1..Len(ToS')
    BY <1>2, <1>3, Zenon
  <2> HIDE DEF ToS
  <2>2. Len(ToS') = 0
    BY <2>1
  <2> QED BY <2>1, <2>2
<1>5. hdmn.tls = 2 /\ hdmn.ssl
  <2>1. hdmn.tls = 2
    BY <1>3
  <2> QED BY <1>0, <2>1, Zenon DEF TlsPhases
<1>6. ToD' = ToD /\ (Asked' <=> Asked)
  BY DEF ToD, Asked
<1>7. AgreeShape'
  BY <1>0, <1>1, <1>2 DEF AgreeShape
<1>8. TlsPhases'
  BY <1>0, <1>1, <1>3, <1>5, <1>6 DEF TlsPhases
<1>9. DaemonQueue'
  BY <1>0, <1>1, <1>6 DEF DaemonQueue
<1>10. ServerQueue'
  <2>1. \A j \in DOMAIN hsrv'.io : hsrv'.io[j].good
    BY <1>0, <1>2 DEF ServerQueue
  <2> QED BY <1>4, <2>1 DEF ServerQueue
<1>11. ViewFollows'
  <2>1. hdmn.alive => hdmn.pc = "ssl wait"
    BY <1>0, <1>3, <1>5, Zenon DEF TlsPhases
  <2>2. GetSessionAuthStatus(hdmn.sid)' = GetSessionAuthStatus(hdmn.sid)
    BY DEF GetSessionAuthStatus
  <2>3. TurnLeft
    BY <1>2, <1>3 DEF TurnLeft, HasTurn
  <2> QED BY <1>0, <2>1, <2>2, <2>3 DEF ViewFollows
<1> QED BY <1>0, <1>1, <1>7, <1>8, <1>9, <1>10, <1>11 DEF AgreeCore

\* The server takes the daemon's word, and lists it.
LEMMA OkTakenKeeps ==
    ASSUME AgreeCore, HandshakeShape, hsrv.alive, hsrv.io # <<>>, Head(hsrv.io).m.auth = "ok",
           ~EncryptionMissing(hsrv),
           hsrv' = [UpdateHdiInfo(Next_io(hsrv), Head(hsrv.io).m.body) EXCEPT !.hs = TRUE],
           UNCHANGED <<hcfg, hdmn, hauth, hthr, hnet, hhist>>
    PROVE  AgreeCore'
<1> DEFINE m == Head(hsrv.io).m
<1>0. AgreeShape /\ TlsPhases /\ DaemonQueue /\ ServerQueue /\ ViewFollows
  BY DEF AgreeCore
<1>1. /\ DOMAIN hsrv' = DOMAIN hsrv /\ hsrv'.io = Tail(hsrv.io) /\ hsrv'.alive = hsrv.alive /\ hsrv'.sid = hsrv.sid
      /\ hsrv'.ssl = hsrv.ssl /\ hsrv'.hs = TRUE /\ hsrv'.tls = hsrv.tls
      /\ hsrv'.auth = IF m.body.unauth THEN "unauth" ELSE "success"
  BY <1>0, ZenonT(60) DEF AgreeShape, UpdateHdiInfo, Next_io
<1>2. /\ IsQueue(hsrv'.io) /\ 1 \in DOMAIN ToS /\ ToS[1] = m
      /\ Len(ToS') = Len(ToS) - 1 /\ (\A j \in DOMAIN ToS' : ToS'[j] = ToS[j + 1] /\ j + 1 \in DOMAIN ToS)
      /\ DOMAIN ToS' = 1..Len(ToS')
      /\ \A j \in DOMAIN hsrv'.io : hsrv'.io[j] = hsrv.io[j + 1] /\ j + 1 \in DOMAIN hsrv.io
  BY <1>0, <1>1, ServerTakes, Zenon
<1> HIDE DEF m
<1>3. Len(ToS) \in Nat /\ DOMAIN ToS = 1..Len(ToS)
  BY <1>0, QueuesAre
<1>4. ToD' = ToD /\ (Asked' <=> Asked)
  BY DEF ToD, Asked
<1>5. ~Turn(ToS[1])
  BY <1>2 DEF Turn, m
<1>6. HasTurn(ToS') <=> HasTurn(ToS)
  <2>1. ASSUME HasTurn(ToS) PROVE HasTurn(ToS')
    <3>1. PICK j \in DOMAIN ToS : Turn(ToS[j])
      BY <2>1 DEF HasTurn
    <3>2. j # 1
      BY <3>1, <1>5
    <3>3. j - 1 \in DOMAIN ToS' /\ (j - 1) + 1 = j
      BY <3>2, <1>2, <1>3
    <3>4. Turn(ToS'[j - 1])
      BY <3>1, <3>3, <1>2
    <3> QED BY <3>3, <3>4 DEF HasTurn
  <2>2. ASSUME HasTurn(ToS') PROVE HasTurn(ToS)
    BY <2>2, <1>2, SMTT(40) DEF HasTurn
  <2> QED BY <2>1, <2>2
<1>7. AgreeShape'
  BY <1>0, <1>1, <1>2, ZenonT(60) DEF AgreeShape
<1>8. TlsPhases'
  BY <1>0, <1>1, <1>4, <1>6, Zenon DEF TlsPhases
<1>9. DaemonQueue'
  BY <1>0, <1>1, <1>4 DEF DaemonQueue
<1>10. ServerQueue'
  <2>1. \A j \in DOMAIN hsrv'.io : hsrv'.io[j].good
    BY <1>0, <1>2, SMTT(40) DEF ServerQueue
  <2>2. \A j \in DOMAIN ToS' : ToS'[j].enc = hsrv'.ssl
    BY <1>0, <1>1, <1>2 DEF ServerQueue
  <2>3. HasTurn(ToD') <=> HasTurn(ToD)
    BY <1>4 DEF HasTurn
  <2>4. \A j \in DOMAIN ToS' :
         IF Turn(ToS'[j])
         THEN /\ j = Len(ToS') /\ ~hsrv'.ssl
              /\ ToS'[j].auth = "psk" => hcfg'.encrypt /\ hsrv'.tls = hdmn'.tls
              /\ ToS'[j].auth # "psk" => hsrv'.tls = 0 /\ hdmn'.tls = 0
              /\ hdmn'.alive => ~Asked' /\ ~HasTurn(ToD')
         ELSE ToS'[j].auth = "ok"
    <3> TAKE j \in DOMAIN ToS'
    <3>1. ToS'[j] = ToS[j + 1] /\ j + 1 \in DOMAIN ToS
      BY <1>2
    <3>2. j + 1 = Len(ToS) => j = Len(ToS')
      BY <1>2, <1>3
    <3>3. IF Turn(ToS[j + 1])
          THEN /\ j + 1 = Len(ToS) /\ ~hsrv.ssl
               /\ ToS[j + 1].auth = "psk" => hcfg.encrypt /\ hsrv.tls = hdmn.tls
               /\ ToS[j + 1].auth # "psk" => hsrv.tls = 0 /\ hdmn.tls = 0
               /\ hdmn.alive => ~Asked /\ ~HasTurn(ToD)
          ELSE ToS[j + 1].auth = "ok"
      BY <1>0, <3>1 DEF ServerQueue
    <3> QED BY <1>1, <1>4, <2>3, <3>1, <3>2, <3>3
  <2> QED BY <2>1, <2>2, <2>4, Zenon DEF ServerQueue
<1>11. ViewFollows'
  <2>1. /\ GetSessionAuthStatus(hdmn.sid)' = GetSessionAuthStatus(hdmn.sid)
        /\ GetSessionAuthStatus(hsrv.sid)' = GetSessionAuthStatus(hsrv.sid)
    BY <1>1 DEF GetSessionAuthStatus
  <2>2. ASSUME hdmn.alive, ~HasTurn(ToD), ~HasTurn(ToS), hdmn.pc = "idle"
        PROVE  IF Len(ToS') > 0 THEN ToS'[Len(ToS')].body.unauth = (GetSessionAuthStatus(hsrv.sid) # "ok")
               ELSE (hsrv'.auth = "success") = (GetSessionAuthStatus(hsrv.sid) = "ok")
    <3>1. Len(ToS) > 0
      BY <1>2, <1>3
    <3>2. ToS[Len(ToS)].body.unauth = (GetSessionAuthStatus(hsrv.sid) # "ok")
      BY <1>0, <2>2, <3>1 DEF ViewFollows
    <3>3. CASE Len(ToS') > 0
      <4>1. Len(ToS') \in DOMAIN ToS' /\ Len(ToS') + 1 = Len(ToS)
        BY <1>2, <1>3, <3>3
      <4> QED BY <1>2, <3>2, <3>3, <4>1
    <3>4. CASE ~(Len(ToS') > 0)
      <4>1. Len(ToS) = 1
        BY <1>2, <1>3, <3>1, <3>4
      <4>2. m.body.unauth = (GetSessionAuthStatus(hsrv.sid) # "ok")
        BY <1>2, <3>2, <4>1
      <4>3. CASE GetSessionAuthStatus(hsrv.sid) = "ok"
        <5>1. ~m.body.unauth
          BY <4>2, <4>3, Zenon
        <5>2. hsrv'.auth = "success"
          BY <1>1, <5>1
        <5> QED BY <3>4, <4>3, <5>2
      <4>4. CASE GetSessionAuthStatus(hsrv.sid) # "ok"
        <5>1. m.body.unauth
          BY <4>2, <4>4, Zenon
        <5>2. hsrv'.auth # "success"
          BY <1>1, <5>1
        <5> QED BY <3>4, <4>4, <5>2
      <4> QED BY <4>3, <4>4
    <3> QED BY <3>3, <3>4
  <2>3. HasTurn(ToD') <=> HasTurn(ToD)
    BY <1>4 DEF HasTurn
  <2>4. TurnLeft' <=> TurnLeft
    BY <1>1, <1>6, <2>3 DEF TurnLeft
  <2> QED BY <1>0, <1>1, <1>6, <2>1, <2>2, <2>3, <2>4 DEF ViewFollows
<1>12. hcfg.encrypt /\ hsrv'.hs => hsrv'.ssl
  BY <1>0, <1>1 DEF AgreeShape, EncryptionMissing
<1> QED BY <1>7, <1>8, <1>9, <1>10, <1>11, <1>12 DEF AgreeCore

\* The server's handler as a whole.
LEMMA ServerHandshakeAgrees ==
    ASSUME AgreeCore, HandshakeShape, ServerSessionHandshake
    PROVE  AgreeCore'
<1> DEFINE m == Head(hsrv.io).m
<1>0. AgreeShape /\ TlsPhases /\ ServerQueue
  BY DEF AgreeCore
<1>1. hsrv.alive /\ hsrv.io # <<>> /\ UNCHANGED <<hcfg, hdmn, hauth, hthr>>
  BY DEF ServerSessionHandshake
<1>2. Head(hsrv.io).good
  <2>1. Head(hsrv.io) = hsrv.io[1] /\ 1 \in DOMAIN hsrv.io
    BY <1>0, <1>1, QueuePop DEF AgreeShape
  <2> QED BY <1>0, <1>1, <2>1 DEF ServerQueue
<1>3. /\ DOMAIN Next_io(hsrv) = DOMAIN hsrv /\ Next_io(hsrv).io = Tail(hsrv.io) /\ Next_io(hsrv).alive = hsrv.alive
      /\ Next_io(hsrv).sid = hsrv.sid /\ Next_io(hsrv).ssl = hsrv.ssl /\ Next_io(hsrv).hs = hsrv.hs
      /\ Next_io(hsrv).tls = hsrv.tls
  BY <1>0 DEF AgreeShape, Next_io
<1>4. CASE m.auth # "ok" /\ HandServerAuth(m) /\ UNCHANGED hhist
  <2>1. CASE m.auth = "pubkey" /\ HandleAuthPubkeyMsg(m.body)
    <3> DEFINE n == Message("pubkey", [NoBody EXCEPT !.key = hcfg.pub], hsrv.ssl)
    <3>1. hnet' = ToDaemon(n) /\ hsrv' = [Next_io(hsrv) EXCEPT !.scheme = m.body.scheme]
      BY <2>1 DEF HandleAuthPubkeyMsg
    <3>2. /\ DOMAIN hsrv' = DOMAIN hsrv /\ hsrv'.io = Tail(hsrv.io) /\ hsrv'.alive = hsrv.alive
          /\ hsrv'.sid = hsrv.sid /\ hsrv'.ssl = hsrv.ssl /\ hsrv'.hs = hsrv.hs /\ hsrv'.tls = hsrv.tls
      BY <1>0, <1>3, <3>1 DEF AgreeShape
    <3>3. Turn(n) /\ n.cmd = "handshake" /\ n.enc = hsrv.ssl /\ n.body.feature = {} /\ n.auth # "none" /\ n.auth # "psk"
      BY DEF Message, NoBody, Turn
    <3> HIDE DEF n
    <3>4. IF m.auth = "psk" THEN n.auth = "psk" /\ ((hsrv.tls = 0 /\ hsrv'.tls = 1) \/ (hsrv.tls = 1 /\ hsrv'.tls = 2))
          ELSE n.auth # "psk" /\ hsrv'.tls = hsrv.tls
      BY <2>1, <3>2, <3>3
    <3> QED BY <1>1, <1>4, <3>1, <3>2, <3>3, <3>4, ServerAnswers
  <2>2. CASE m.auth = "sign" /\ HandleAuthSignatureMsg(m.body)
    <3> DEFINE n == Message("sign", RsaSignAndBase64(m.body.token, hsrv.scheme), hsrv.ssl)
    <3>1. hnet' = ToDaemon(n) /\ hsrv' = Next_io(hsrv)
      BY <2>2 DEF HandleAuthSignatureMsg
    <3>2. /\ DOMAIN hsrv' = DOMAIN hsrv /\ hsrv'.io = Tail(hsrv.io) /\ hsrv'.alive = hsrv.alive
          /\ hsrv'.sid = hsrv.sid /\ hsrv'.ssl = hsrv.ssl /\ hsrv'.hs = hsrv.hs /\ hsrv'.tls = hsrv.tls
      BY <1>3, <3>1
    <3>3. Turn(n) /\ n.cmd = "handshake" /\ n.enc = hsrv.ssl /\ n.body.feature = {} /\ n.auth # "none" /\ n.auth # "psk"
      BY DEF Message, NoBody, Turn, RsaSignAndBase64
    <3> HIDE DEF n
    <3>4. IF m.auth = "psk" THEN n.auth = "psk" /\ ((hsrv.tls = 0 /\ hsrv'.tls = 1) \/ (hsrv.tls = 1 /\ hsrv'.tls = 2))
          ELSE n.auth # "psk" /\ hsrv'.tls = hsrv.tls
      BY <2>2, <3>2, <3>3
    <3> QED BY <1>1, <1>4, <3>1, <3>2, <3>3, <3>4, ServerAnswers
  <2>3. CASE m.auth = "psk" /\ ServerSSLHandshake(m.body)
    <3>0. hsrv.tls \in 0..2
      BY <1>0, Zenon DEF AgreeShape
    <3>1. CASE hsrv.tls < 2
      <4> DEFINE n == Message("psk", [NoBody EXCEPT !.step = hsrv.tls + 1], hsrv.ssl)
      <4>1. hnet' = ToDaemon(n) /\ hsrv' = PerformHandshake(Next_io(hsrv))
        BY <2>3, <3>1 DEF ServerSSLHandshake
      <4>2. /\ DOMAIN hsrv' = DOMAIN hsrv /\ hsrv'.io = Tail(hsrv.io) /\ hsrv'.alive = hsrv.alive
            /\ hsrv'.sid = hsrv.sid /\ hsrv'.ssl = hsrv.ssl /\ hsrv'.hs = hsrv.hs /\ hsrv'.tls = hsrv.tls + 1
        BY <1>0, <1>3, <4>1 DEF AgreeShape, PerformHandshake
      <4>3. Turn(n) /\ n.cmd = "handshake" /\ n.enc = hsrv.ssl /\ n.body.feature = {} /\ n.auth # "none" /\ n.auth = "psk"
        BY DEF Message, NoBody, Turn
      <4> HIDE DEF n
      <4>4. (hsrv.tls = 0 /\ hsrv'.tls = 1) \/ (hsrv.tls = 1 /\ hsrv'.tls = 2)
        <5>1. hsrv'.tls = hsrv.tls + 1
          BY <4>2, Zenon
        <5> QED BY <3>0, <3>1, <5>1, NextFlight
      <4>5. IF m.auth = "psk" THEN n.auth = "psk" /\ ((hsrv.tls = 0 /\ hsrv'.tls = 1) \/ (hsrv.tls = 1 /\ hsrv'.tls = 2))
            ELSE n.auth # "psk" /\ hsrv'.tls = hsrv.tls
        BY <2>3, <4>3, <4>4, Zenon
      <4> QED BY <1>1, <1>4, <4>1, <4>2, <4>3, <4>5, ServerAnswers
    <3>2. CASE ~(hsrv.tls < 2)
      <4>1. hsrv.tls = 2
        BY <3>0, <3>2
      <4>2. hsrv' = SetHandshakeLabel(Next_io(hsrv)) /\ UNCHANGED hnet
        BY <2>3, <3>2 DEF ServerSSLHandshake
      <4> QED BY <1>1, <1>4, <2>3, <4>1, <4>2, LabelKeeps
    <3> QED BY <3>1, <3>2
  <2> QED BY <1>4, <2>1, <2>2, <2>3 DEF HandServerAuth
<1>5. CASE hsrv' = ServerFree(hsrv) /\ UNCHANGED <<hnet, hhist>>
  <2>1. hhist'.garbled = hhist.garbled
    BY <1>5
  <2> QED BY <1>1, <1>5, <2>1, ServerFreeKeeps
<1>6. CASE /\ m.auth = "ok" /\ ~EncryptionMissing(hsrv) /\ UNCHANGED <<hnet, hhist>>
           /\ hsrv' = [UpdateHdiInfo(Next_io(hsrv), m.body) EXCEPT !.hs = TRUE]
  BY <1>1, <1>6, OkTakenKeeps
<1> HIDE DEF m
<1>7. \/ ~Head(hsrv.io).good
      \/ m.auth # "ok" /\ HandServerAuth(m) /\ UNCHANGED hhist
      \/ hsrv' = ServerFree(hsrv) /\ UNCHANGED <<hnet, hhist>>
      \/ /\ m.auth = "ok" /\ ~EncryptionMissing(hsrv) /\ UNCHANGED <<hnet, hhist>>
         /\ hsrv' = [UpdateHdiInfo(Next_io(hsrv), m.body) EXCEPT !.hs = TRUE]
  BY DEF ServerSessionHandshake, m
<1> QED BY <1>2, <1>4, <1>5, <1>6, <1>7

\* The server reads.
LEMMA ServerReadAgrees ==
    ASSUME AgreeCore, HandshakeShape, ServerRead
    PROVE  AgreeCore'
<1>0. AgreeShape /\ TlsPhases /\ DaemonQueue /\ ServerQueue /\ ViewFollows
  BY DEF AgreeCore
<1>1. PICK n \in 1..Len(hnet.d2s) :
         /\ hsrv' = [hsrv EXCEPT !.io = FetchIOBuf(SubSeq(hnet.d2s, 1, n), hsrv.ssl)]
         /\ hnet' = [hnet EXCEPT !.d2s = SubSeq(@, n + 1, Len(@))]
  BY DEF ServerRead
<1>2. hsrv.alive /\ hsrv.io = <<>> /\ UNCHANGED <<hcfg, hdmn, hauth, hthr, hhist>>
  BY DEF ServerRead
<1>3. /\ DOMAIN hsrv' = DOMAIN hsrv /\ hsrv'.alive = hsrv.alive /\ hsrv'.sid = hsrv.sid /\ hsrv'.ssl = hsrv.ssl
      /\ hsrv'.hs = hsrv.hs /\ hsrv'.tls = hsrv.tls /\ hsrv'.auth = hsrv.auth
      /\ hsrv'.io = FetchIOBuf(SubSeq(hnet.d2s, 1, n), hsrv.ssl)
  BY <1>0, <1>1 DEF AgreeShape
<1>4. DOMAIN hnet' = DOMAIN hnet /\ hnet'.s2d = hnet.s2d /\ hnet'.d2s = SubSeq(hnet.d2s, n + 1, Len(hnet.d2s))
  BY <1>0, <1>1 DEF AgreeShape
<1>5. IsQueue(hnet.d2s) /\ IsQueue(hsrv.io)
  BY <1>0 DEF AgreeShape
<1>6. /\ IsQueue(hsrv'.io) /\ IsQueue(hnet'.d2s) /\ ToS' = ToS
      /\ \A j \in DOMAIN hsrv'.io : hsrv'.io[j].good = (ToS[j].enc = hsrv.ssl) /\ j \in DOMAIN ToS
  BY <1>2, <1>3, <1>4, <1>5, QueueRead DEF ToS
<1>7. ToD' = ToD /\ (Asked' <=> Asked)
  BY <1>2, <1>4 DEF ToD, Asked
<1>8. AgreeShape'
  BY <1>0, <1>2, <1>3, <1>4, <1>6 DEF AgreeShape
<1>9. HasTurn(ToS') <=> HasTurn(ToS)
  BY <1>6 DEF HasTurn
<1>10. TlsPhases'
  BY <1>0, <1>2, <1>3, <1>7, <1>9, Zenon DEF TlsPhases
<1>11. DaemonQueue'
  BY <1>0, <1>2, <1>3, <1>7 DEF DaemonQueue
<1>12. ServerQueue'
  <2>1. \A j \in DOMAIN hsrv'.io : hsrv'.io[j].good
    BY <1>0, <1>2, <1>6 DEF ServerQueue
  <2>2. HasTurn(ToD') <=> HasTurn(ToD)
    BY <1>7 DEF HasTurn
  <2>3. (\A j \in DOMAIN ToS : ToS[j].enc = hsrv.ssl)
        /\ \A j \in DOMAIN ToS :
         IF Turn(ToS[j])
         THEN /\ j = Len(ToS) /\ ~hsrv.ssl
              /\ ToS[j].auth = "psk" => hcfg.encrypt /\ hsrv.tls = hdmn.tls
              /\ ToS[j].auth # "psk" => hsrv.tls = 0 /\ hdmn.tls = 0
              /\ hdmn.alive => ~Asked /\ ~HasTurn(ToD)
         ELSE ToS[j].auth = "ok"
    BY <1>0, <1>2 DEF ServerQueue
  <2> HIDE DEF ToS, ToD, Asked
  <2> QED BY <1>2, <1>3, <1>6, <1>7, <2>1, <2>2, <2>3 DEF ServerQueue
<1>13. ViewFollows'
  <2>1. /\ GetSessionAuthStatus(hdmn.sid)' = GetSessionAuthStatus(hdmn.sid)
        /\ GetSessionAuthStatus(hsrv.sid)' = GetSessionAuthStatus(hsrv.sid)
    BY <1>2, <1>3 DEF GetSessionAuthStatus
  <2>2. HasTurn(ToD') <=> HasTurn(ToD)
    BY <1>7 DEF HasTurn
  <2>3. TurnLeft' <=> TurnLeft
    BY <1>3, <1>9, <2>2 DEF TurnLeft
  <2> HIDE DEF ToS, ToD
  <2> QED BY <1>0, <1>2, <1>3, <1>6, <1>9, <2>1, <2>2, <2>3 DEF ViewFollows
<1> QED BY <1>2, <1>3, <1>8, <1>10, <1>11, <1>12, <1>13 DEF AgreeCore

\* The daemon reads, or takes a command; nothing it has to answer is gone.
LEMMA DaemonTakes ==
    ASSUME AgreeCore, HandshakeShape, hdmn.alive, hdmn.pc = "idle",
           DOMAIN hdmn' = DOMAIN hdmn, hdmn'.alive = hdmn.alive, hdmn'.sid = hdmn.sid, hdmn'.ssl = hdmn.ssl,
           hdmn'.tls = hdmn.tls, hdmn'.enc = hdmn.enc, hdmn'.pc = hdmn.pc,
           UNCHANGED <<hcfg, hsrv, hauth, hthr>>, hhist'.garbled = hhist.garbled,
           DOMAIN hnet' = DOMAIN hnet, hnet'.d2s = hnet.d2s, IsQueue(hnet'.s2d), IsQueue(hdmn'.io),
           \A j \in DOMAIN hdmn'.io : hdmn'.io[j].good,
           NEW k \in {0, 1}, \A j \in DOMAIN ToD' : ToD'[j] = ToD[j + k] /\ j + k \in DOMAIN ToD,
           \A j \in DOMAIN ToD : Turn(ToD[j]) => j - k \in DOMAIN ToD'
    PROVE  AgreeCore'
<1>0. AgreeShape /\ TlsPhases /\ DaemonQueue /\ ServerQueue /\ ViewFollows
  BY DEF AgreeCore
<1>1. ToS' = ToS /\ (Asked' <=> Asked)
  BY DEF ToS, Asked
<1>2. IsQueue(ToD) /\ Len(ToD) \in Nat /\ DOMAIN ToD = 1..Len(ToD)
  BY <1>0, QueuesAre
<1>3. AgreeShape'
  BY <1>0 DEF AgreeShape
<1>4. \A j \in DOMAIN ToD : Turn(ToD[j]) => j - k \in DOMAIN ToD' /\ ToD'[j - k] = ToD[j]
  <2> TAKE j \in DOMAIN ToD
  <2> HAVE Turn(ToD[j])
  <2>1. j - k \in DOMAIN ToD'
    OBVIOUS
  <2>2. (j - k) + k = j
    BY <1>2
  <2> QED BY <2>1, <2>2
<1>5. HasTurn(ToD') <=> HasTurn(ToD)
  <2>1. ASSUME HasTurn(ToD) PROVE HasTurn(ToD')
    BY <1>4, <2>1 DEF HasTurn
  <2>2. ASSUME HasTurn(ToD') PROVE HasTurn(ToD)
    BY <2>2 DEF HasTurn
  <2> QED BY <2>1, <2>2
<1>6. TlsPhases'
  <2>1. HasTurn(ToS') <=> HasTurn(ToS)
    BY <1>1 DEF HasTurn
  <2> QED BY <1>0, <1>1, <2>1, Zenon DEF TlsPhases
<1>7. DaemonQueue'
  <2>1. \A j \in DOMAIN ToD' : ToD'[j].enc = hdmn'.ssl
    BY <1>0 DEF DaemonQueue
  <2>2. \A i, j \in DOMAIN ToD' : Turn(ToD'[i]) /\ Turn(ToD'[j]) => i = j
    <3> TAKE i, j \in DOMAIN ToD'
    <3> HAVE Turn(ToD'[i]) /\ Turn(ToD'[j])
    <3>1. i + k = j + k
      BY <1>0 DEF DaemonQueue
    <3>2. DOMAIN ToD' = 1..Len(ToD')
      BY QueueOfIs DEF ToD
    <3> QED BY <3>1, <3>2
  <2>3. \A j \in DOMAIN ToD' :
         Turn(ToD'[j]) => /\ hdmn'.pc = "idle" /\ hthr' = "none" /\ ToD'[j].cmd = "handshake"
                          /\ ToD'[j].auth = "psk" => hcfg'.encrypt /\ hsrv'.tls = hdmn'.tls + 1
                          /\ ToD'[j].auth # "psk" => hsrv'.tls = 0 /\ hdmn'.tls = 0
                          /\ "encrypt" \in ToD'[j].body.feature => hcfg'.encrypt
    BY <1>0 DEF DaemonQueue
  <2>4. \A j \in DOMAIN ToD' : ~Turn(ToD'[j]) => ToD'[j].cmd # "handshake"
    BY <1>0 DEF DaemonQueue
  <2>5. hcfg'.encrypt /\ ~hsrv'.ssl => \A j \in DOMAIN ToD' : Turn(ToD'[j])
    BY <1>0 DEF DaemonQueue
  <2>6. hdmn'.sid = hsrv'.sid \/ \E j \in DOMAIN ToD' : ToD'[j].auth = "none"
    <3>1. CASE hdmn.sid = hsrv.sid
      BY <3>1
    <3>2. CASE \E j \in DOMAIN ToD : ToD[j].auth = "none"
      <4>1. PICK j \in DOMAIN ToD : ToD[j].auth = "none"
        BY <3>2
      <4>2. Turn(ToD[j])
        BY <4>1 DEF Turn
      <4> QED BY <1>4, <4>1, <4>2
    <3> QED BY <1>0, <3>1, <3>2 DEF DaemonQueue
  <2> QED BY <2>1, <2>2, <2>3, <2>4, <2>5, <2>6, Zenon DEF DaemonQueue
<1>8. ServerQueue'
  BY <1>0, <1>1, <1>5 DEF ServerQueue
<1>9. ViewFollows'
  <2>1. /\ GetSessionAuthStatus(hdmn.sid)' = GetSessionAuthStatus(hdmn.sid)
        /\ GetSessionAuthStatus(hsrv.sid)' = GetSessionAuthStatus(hsrv.sid)
    BY DEF GetSessionAuthStatus
  <2>2. HasTurn(ToS') <=> HasTurn(ToS)
    BY <1>1 DEF HasTurn
  <2>3. TurnLeft' <=> TurnLeft
    BY <1>5, <2>2 DEF TurnLeft
  <2> HIDE DEF ToS, ToD
  <2> QED BY <1>0, <1>1, <1>5, <2>1, <2>2, <2>3 DEF ViewFollows
<1> QED BY <1>0, <1>3, <1>6, <1>7, <1>8, <1>9 DEF AgreeCore

\* DaemonRead.
LEMMA DaemonReadAgrees ==
    ASSUME AgreeCore, HandshakeShape, DaemonRead
    PROVE  AgreeCore'
<1>0. AgreeShape /\ DaemonQueue
  BY DEF AgreeCore
<1>1. PICK n \in 1..Len(hnet.s2d) :
         /\ hdmn' = [hdmn EXCEPT !.io = FetchIOBuf(SubSeq(hnet.s2d, 1, n), hdmn.ssl)]
         /\ hnet' = [hnet EXCEPT !.s2d = SubSeq(@, n + 1, Len(@))]
  BY DEF DaemonRead
<1>2. hdmn.alive /\ hdmn.io = <<>> /\ hdmn.pc = "idle" /\ UNCHANGED <<hcfg, hsrv, hauth, hthr, hhist>>
  BY DEF DaemonRead
<1>3. /\ DOMAIN hdmn' = DOMAIN hdmn /\ hdmn'.alive = hdmn.alive /\ hdmn'.sid = hdmn.sid /\ hdmn'.ssl = hdmn.ssl
      /\ hdmn'.tls = hdmn.tls /\ hdmn'.enc = hdmn.enc /\ hdmn'.pc = hdmn.pc
      /\ hdmn'.io = FetchIOBuf(SubSeq(hnet.s2d, 1, n), hdmn.ssl)
  BY <1>1 DEF HandshakeShape
<1>4. DOMAIN hnet' = DOMAIN hnet /\ hnet'.d2s = hnet.d2s /\ hnet'.s2d = SubSeq(hnet.s2d, n + 1, Len(hnet.s2d))
  BY <1>0, <1>1 DEF AgreeShape
<1>5. IsQueue(hnet.s2d) /\ IsQueue(hdmn.io)
  BY <1>0 DEF AgreeShape
<1>6. /\ IsQueue(hdmn'.io) /\ IsQueue(hnet'.s2d) /\ ToD' = ToD
      /\ \A j \in DOMAIN hdmn'.io : hdmn'.io[j].good = (ToD[j].enc = hdmn.ssl) /\ j \in DOMAIN ToD
  BY <1>2, <1>3, <1>4, <1>5, QueueRead DEF ToD
<1>7. \A j \in DOMAIN hdmn'.io : hdmn'.io[j].good
  BY <1>0, <1>2, <1>6 DEF DaemonQueue
<1>8. Len(ToD) \in Nat /\ DOMAIN ToD = 1..Len(ToD)
  BY <1>0, QueuesAre
<1> HIDE DEF ToD
<1>9. \A j \in DOMAIN ToD : j + 0 = j /\ j - 0 = j
  BY <1>8
<1>10. \A j \in DOMAIN ToD' : ToD'[j] = ToD[j + 0] /\ j + 0 \in DOMAIN ToD
  BY <1>6, <1>9
<1>11. \A j \in DOMAIN ToD : Turn(ToD[j]) => j - 0 \in DOMAIN ToD'
  BY <1>6, <1>9
<1>12. 0 \in {0, 1} /\ hhist'.garbled = hhist.garbled
  BY <1>2
<1> QED BY <1>2, <1>3, <1>4, <1>6, <1>7, <1>10, <1>11, <1>12, DaemonTakes

\* FetchTask.
LEMMA FetchTaskAgrees ==
    ASSUME AgreeCore, HandshakeShape, FetchTask
    PROVE  AgreeCore'
<1>0. AgreeShape /\ DaemonQueue
  BY DEF AgreeCore
<1>1. /\ hdmn.alive /\ hdmn.pc = "idle" /\ hdmn.io # <<>> /\ Head(hdmn.io).m.cmd # "handshake"
      /\ hdmn' = Next_io(hdmn) /\ UNCHANGED <<hcfg, hsrv, hauth, hthr, hnet>>
  BY DEF FetchTask
<1>2. hhist'.garbled = hhist.garbled
  BY DEF FetchTask, HandshakeShape
<1>3. /\ DOMAIN hdmn' = DOMAIN hdmn /\ hdmn'.alive = hdmn.alive /\ hdmn'.sid = hdmn.sid /\ hdmn'.ssl = hdmn.ssl
      /\ hdmn'.tls = hdmn.tls /\ hdmn'.enc = hdmn.enc /\ hdmn'.pc = hdmn.pc /\ hdmn'.io = Tail(hdmn.io)
  BY <1>1 DEF HandshakeShape, Next_io
<1>4. IsQueue(hnet.s2d) /\ IsQueue(hdmn.io)
  BY <1>0 DEF AgreeShape
<1>5. ToD' = QueueOf(Tail(hdmn.io), hnet.s2d) /\ ToD = QueueOf(hdmn.io, hnet.s2d)
  BY <1>1, <1>3 DEF ToD
<1>6. /\ IsQueue(Tail(hdmn.io)) /\ ToD[1] = Head(hdmn.io).m /\ 1 \in DOMAIN ToD
      /\ Len(ToD') = Len(ToD) - 1 /\ (\A j \in DOMAIN ToD' : ToD'[j] = ToD[j + 1] /\ j + 1 \in DOMAIN ToD)
      /\ \A j \in DOMAIN Tail(hdmn.io) : Tail(hdmn.io)[j] = hdmn.io[j + 1] /\ j + 1 \in DOMAIN hdmn.io
  BY <1>1, <1>4, <1>5, QueuePop
<1>7. Len(ToD) \in Nat /\ DOMAIN ToD = 1..Len(ToD) /\ DOMAIN ToD' = 1..Len(ToD')
  BY <1>0, <1>4, <1>5, <1>6, QueuesAre, QueueOfIs
<1>8. \A j \in DOMAIN hdmn'.io : hdmn'.io[j].good
  BY <1>0, <1>1, <1>3, <1>6 DEF DaemonQueue
<1>9. ~Turn(ToD[1])
  BY <1>0, <1>1, <1>6 DEF DaemonQueue
<1> HIDE DEF ToD
<1>10. \A j \in DOMAIN ToD : Turn(ToD[j]) => j - 1 \in DOMAIN ToD'
  <2> TAKE j \in DOMAIN ToD
  <2> HAVE Turn(ToD[j])
  <2>1. j # 1
    BY <1>9
  <2>2. Len(ToD') = Len(ToD) - 1
    BY <1>6, Zenon
  <2> QED BY <1>7, <2>1, <2>2
<1>11. 1 \in {0, 1} /\ DOMAIN hnet' = DOMAIN hnet /\ hnet'.d2s = hnet.d2s /\ IsQueue(hnet'.s2d) /\ IsQueue(hdmn'.io)
  BY <1>1, <1>3, <1>4, <1>6
<1>12. \A j \in DOMAIN ToD' : ToD'[j] = ToD[j + 1] /\ j + 1 \in DOMAIN ToD
  BY <1>6, Zenon
<1> QED BY <1>1, <1>2, <1>3, <1>8, <1>10, <1>11, <1>12, DaemonTakes

\* DaemonSessionHandshake.
LEMMA DaemonHandshakeAgrees ==
    ASSUME AgreeCore, HandshakeShape, DaemonSessionHandshake, NoLapse'
    PROVE  AgreeCore'
<1> DEFINE m == Head(hdmn.io).m
           d == IF m.auth = "none" THEN DaemonSessionHandshakeInit(Next_io(hdmn), m.body) ELSE Next_io(hdmn)
<1>0. AgreeShape /\ DaemonQueue
  BY DEF AgreeCore
<1>1. hdmn.alive /\ hdmn.pc = "idle" /\ hdmn.io # <<>> /\ UNCHANGED <<hcfg, hsrv>>
  BY DEF DaemonSessionHandshake
<1>2. Head(hdmn.io).good
  <2>1. Head(hdmn.io) = hdmn.io[1] /\ 1 \in DOMAIN hdmn.io
    BY <1>0, <1>1, QueuePop DEF AgreeShape
  <2> QED BY <1>0, <1>1, <2>1 DEF DaemonQueue
<1>3. /\ m.cmd = "handshake" /\ HandDaemonAuth(d, m)
      /\ m.auth = "none" => GetSessionAuthStatus(hsrv.sid) = "none"
  BY <1>2 DEF DaemonSessionHandshake
<1>4. IF m.auth = "none" THEN d = DaemonSessionHandshakeInit(Next_io(hdmn), m.body) ELSE d = Next_io(hdmn)
  OBVIOUS
<1> HIDE DEF d
<1>5. /\ Ready(d) /\ d.pc = "idle" /\ hthr = "none"
      /\ IF m.auth = "psk" THEN hcfg.encrypt /\ hsrv.tls = hdmn.tls + 1 ELSE hsrv.tls = 0 /\ hdmn.tls = 0
      /\ m.auth = "none" \/ GetSessionAuthStatus(d.sid) # "ok"
  BY <1>1, <1>3, <1>4, TurnTaken
<1>6. GetSessionAuthStatus(d.sid) # "ok"
  BY <1>3, <1>5 DEF Ready
<1> HIDE DEF m
<1> QED BY <1>1, <1>3, <1>5, <1>6, HandDaemonAuthAgrees

\* PeerClosed and ConnectionLost.
LEMMA ClosingAgrees ==
    ASSUME AgreeCore, HandshakeShape, PeerClosed \/ ConnectionLost
    PROVE  AgreeCore'
<1>1. UNCHANGED <<hcfg, hauth, hthr, hnet, hhist>>
  BY DEF PeerClosed, ConnectionLost
<1>2. hhist'.garbled = hhist.garbled /\ hthr' \in {"none", hthr}
  BY <1>1
<1>3. CASE hsrv' = ServerFree(hsrv) /\ UNCHANGED hdmn
  BY <1>1, <1>2, <1>3, ServerFreeKeeps
<1>4. CASE hdmn' = DaemonFree(hdmn) /\ UNCHANGED hsrv
  BY <1>1, <1>2, <1>4, DaemonFreeKeeps
<1> QED BY <1>3, <1>4 DEF PeerClosed, ConnectionLost

\* WorkThreadInitSession: the server speaks first.
LEMMA SessionStartAgrees ==
    ASSUME AgreeCore, HandshakeShape, WorkThreadInitSession
    PROVE  AgreeCore'
<1> DEFINE m == Message("none", [NoBody EXCEPT !.feature = SetFeature,
                                               !.scheme = IF hcfg.host = "new" THEN "sha512" ELSE "rsa"], FALSE)
<1>0. AgreeShape
  BY DEF AgreeCore
<1>1. /\ hsrv' = NewServerSession(hsrv.sid + 1) /\ hdmn' = NewDaemonSession(TRUE)
      /\ hnet' = [s2d |-> <<m>>, d2s |-> <<>>] /\ hthr = "none" /\ hsrv.sid < MaxSessions
      /\ UNCHANGED <<hcfg, hauth, hthr, hhist>>
  BY DEF WorkThreadInitSession
<1>2. m.auth = "none" /\ m.cmd = "handshake" /\ m.enc = FALSE /\ m.body.feature = SetFeature
  BY DEF Message, NoBody
<1> HIDE DEF m
<1>3. Turn(m) /\ ("encrypt" \in m.body.feature => hcfg.encrypt)
  <2>1. Turn(m)
    BY <1>2 DEF Turn
  <2> QED BY <1>2, <2>1 DEF SetFeature
<1>4. /\ DOMAIN hsrv' = {"sid", "alive", "hs", "ssl", "tls", "scheme", "io", "conn", "auth", "sent"}
      /\ hsrv'.sid = hsrv.sid + 1 /\ hsrv'.ssl = FALSE /\ hsrv'.tls = 0 /\ hsrv'.hs = FALSE /\ hsrv'.io = <<>>
      /\ hsrv'.alive = (hsrv.sid + 1 # 0)
  BY <1>1 DEF NewServerSession
<1>5. /\ hdmn'.alive = TRUE /\ hdmn'.ssl = FALSE /\ hdmn'.tls = 0 /\ hdmn'.enc = FALSE /\ hdmn'.io = <<>>
      /\ hdmn'.pc = "idle" /\ hdmn'.sid = 0
  BY <1>1 DEF NewDaemonSession
<1>6. DOMAIN hnet' = {"s2d", "d2s"} /\ hnet'.s2d = <<m>> /\ hnet'.d2s = <<>>
  BY <1>1
<1>7. IsQueue(<<>>) /\ IsQueue(<<m>>) /\ Len(<<m>>) = 1 /\ <<m>>[1] = m
  BY DEF IsQueue
<1>8. hsrv'.sid \in 0..MaxSessions /\ hsrv'.sid # 0 /\ hsrv'.alive \in BOOLEAN
  <2>1. hsrv.sid \in 0..MaxSessions
    BY <1>0, Zenon DEF AgreeShape
  <2>2. hsrv.sid < MaxSessions /\ hsrv'.sid = hsrv.sid + 1
    BY <1>1, <1>4, Zenon
  <2>3. hsrv'.sid \in 0..MaxSessions /\ hsrv'.sid # 0
    BY <2>1, <2>2, HandshakeBounds
  <2> QED BY <1>4, <2>3
<1>9. AgreeShape'
  <2>1. hsrv'.tls \in 0..2 /\ hdmn'.tls \in 0..2
    BY <1>4, <1>5
  <2> QED BY <1>0, <1>1, <1>4, <1>5, <1>6, <1>7, <1>8, <2>1 DEF AgreeShape
<1>10. DOMAIN ToD' = {1} /\ ToD'[1] = m
  <2>1. ToD' = QueueOf(<<>>, <<m>>)
    BY <1>5, <1>6 DEF ToD
  <2>2. Len(<<>>) = 0
    OBVIOUS
  <2>3. /\ DOMAIN QueueOf(<<>>, <<m>>) = 1..Len(QueueOf(<<>>, <<m>>)) /\ Len(QueueOf(<<>>, <<m>>)) = 0 + 1
        /\ \A j \in 1..Len(QueueOf(<<>>, <<m>>)) :
             QueueOf(<<>>, <<m>>)[j] = IF j <= 0 THEN <<>>[j].m ELSE <<m>>[j - 0]
    BY <1>7, <2>2, QueueOfIs
  <2> QED BY <2>1, <2>3, <1>7
<1>11. DOMAIN ToS' = {}
  <2>1. ToS' = QueueOf(<<>>, <<>>)
    BY <1>4, <1>6 DEF ToS
  <2>2. DOMAIN QueueOf(<<>>, <<>>) = 1..Len(QueueOf(<<>>, <<>>)) /\ Len(QueueOf(<<>>, <<>>)) = Len(<<>>) + Len(<<>>)
    BY <1>7, QueueOfIs
  <2> QED BY <2>1, <2>2
<1>12. ~Asked'
  BY <1>1, <1>5 DEF Asked
<1>13. TlsPhases'
  BY <1>4, <1>5, <1>12 DEF TlsPhases
<1>14. HasTurn(ToD')
  BY <1>3, <1>10 DEF HasTurn
<1>15. DOMAIN <<>> = {}
  OBVIOUS
<1>16. DaemonQueue'
  BY <1>1, <1>2, <1>3, <1>4, <1>5, <1>10, <1>15 DEF DaemonQueue
<1>17. ServerQueue'
  BY <1>4, <1>11, <1>15 DEF ServerQueue
<1>18. ViewFollows'
  <2>1. GetSessionAuthStatus(hdmn.sid)' = "none"
    BY <1>5, HandshakeBounds DEF GetSessionAuthStatus, Ids
  <2> QED BY <1>1, <1>5, <1>14, <2>1 DEF ViewFollows
<1> QED BY <1>1, <1>4, <1>9, <1>13, <1>16, <1>17, <1>18 DEF AgreeCore

\* ServerTask: what it sends is not to be answered, and both ends encrypt by then.
LEMMA ServerTaskAgrees ==
    ASSUME AgreeCore, HandshakeShape, ServerTask
    PROVE  AgreeCore'
<1>0. AgreeShape /\ TlsPhases /\ DaemonQueue /\ ServerQueue /\ ViewFollows
  BY DEF AgreeCore
<1>1. PICK c \in Controls : hnet' = ToDaemon([cmd |-> c, auth |-> "-", body |-> NoBody, enc |-> hsrv.ssl])
  BY DEF ServerTask
<1> DEFINE n == [cmd |-> c, auth |-> "-", body |-> NoBody, enc |-> hsrv.ssl]
<1>2. ~Turn(n) /\ n.cmd # "handshake" /\ n.enc = hsrv.ssl /\ n.auth # "none"
  BY DEF Turn, Controls
<1>a. hnet' = ToDaemon(n)
  BY <1>1
<1> HIDE DEF n
<1>3. hsrv.alive /\ hsrv.hs /\ hsrv' = [hsrv EXCEPT !.sent = @ + 1] /\ UNCHANGED <<hcfg, hdmn, hauth, hthr, hhist>>
  BY DEF ServerTask
<1>4. /\ DOMAIN hsrv' = DOMAIN hsrv /\ hsrv'.io = hsrv.io /\ hsrv'.alive = hsrv.alive /\ hsrv'.sid = hsrv.sid
      /\ hsrv'.ssl = hsrv.ssl /\ hsrv'.hs = hsrv.hs /\ hsrv'.tls = hsrv.tls /\ hsrv'.auth = hsrv.auth
  BY <1>0, <1>3 DEF AgreeShape
<1>5. /\ hnet'.d2s = hnet.d2s /\ DOMAIN hnet' = {"s2d", "d2s"} /\ IsQueue(hnet'.s2d)
      /\ Len(ToD') = Len(ToD) + 1 /\ ToD'[Len(ToD')] = n /\ Len(ToD') \in DOMAIN ToD'
      /\ DOMAIN ToD' = DOMAIN ToD \cup {Len(ToD')}
      /\ \A j \in DOMAIN ToD : ToD'[j] = ToD[j] /\ j # Len(ToD')
  BY <1>0, <1>3, <1>a, ToDaemonIs
<1>6. ToS' = ToS /\ (Asked' <=> Asked)
  BY <1>3, <1>4, <1>5 DEF ToS, Asked
<1>7. hsrv.ssl = hdmn.ssl
  <2>0. hsrv.ssl \in BOOLEAN /\ hdmn.ssl \in BOOLEAN /\ hcfg.encrypt \in BOOLEAN
    BY <1>0, Zenon DEF AgreeShape
  <2>1. CASE hcfg.encrypt
    <3>1. hsrv.ssl
      BY <1>3, <2>1, Zenon DEF AgreeCore
    <3>2. hdmn.ssl
      BY <1>0, <3>1, Zenon DEF TlsPhases
    <3> QED BY <2>0, <3>1, <3>2, Zenon
  <2>2. CASE ~hcfg.encrypt
    <3>1. ~hsrv.ssl /\ ~hdmn.ssl
      BY <1>0, <2>2, TlsNumbers, Zenon DEF TlsPhases
    <3> QED BY <2>0, <3>1, Zenon
  <2> QED BY <2>1, <2>2
<1>8. hcfg.encrypt => hsrv.ssl
  BY <1>3, Zenon DEF AgreeCore
<1>9. AgreeShape'
  BY <1>0, <1>3, <1>4, <1>5 DEF AgreeShape
<1>10. HasTurn(ToS') <=> HasTurn(ToS)
  BY <1>6 DEF HasTurn
<1>11. TlsPhases'
  BY <1>0, <1>3, <1>4, <1>6, <1>10, Zenon DEF TlsPhases
<1>12. \A j \in DOMAIN ToD' : \/ j = Len(ToD') /\ ToD'[j] = n
                              \/ j \in DOMAIN ToD /\ ToD'[j] = ToD[j]
  BY <1>5
<1>13. HasTurn(ToD') <=> HasTurn(ToD)
  BY <1>2, <1>5, <1>12 DEF HasTurn
<1>14. DaemonQueue'
  <2> SUFFICES ASSUME hdmn.alive PROVE DaemonQueue'
    BY <1>3 DEF DaemonQueue
  <2>1. \A j \in DOMAIN hdmn'.io : hdmn'.io[j].good
    BY <1>0, <1>3 DEF DaemonQueue
  <2>2. \A j \in DOMAIN ToD' : ToD'[j].enc = hdmn'.ssl
    BY <1>0, <1>2, <1>3, <1>7, <1>12 DEF DaemonQueue
  <2>3. \A i, j \in DOMAIN ToD' : Turn(ToD'[i]) /\ Turn(ToD'[j]) => i = j
    BY <1>0, <1>2, <1>12 DEF DaemonQueue
  <2>4. \A j \in DOMAIN ToD' :
         Turn(ToD'[j]) => /\ hdmn'.pc = "idle" /\ hthr' = "none" /\ ToD'[j].cmd = "handshake"
                          /\ ToD'[j].auth = "psk" => hcfg'.encrypt /\ hsrv'.tls = hdmn'.tls + 1
                          /\ ToD'[j].auth # "psk" => hsrv'.tls = 0 /\ hdmn'.tls = 0
                          /\ "encrypt" \in ToD'[j].body.feature => hcfg'.encrypt
    BY <1>0, <1>2, <1>3, <1>4, <1>12 DEF DaemonQueue
  <2>5. \A j \in DOMAIN ToD' : ~Turn(ToD'[j]) => ToD'[j].cmd # "handshake"
    BY <1>0, <1>2, <1>12 DEF DaemonQueue
  <2>6. hcfg'.encrypt /\ ~hsrv'.ssl => \A j \in DOMAIN ToD' : Turn(ToD'[j])
    BY <1>3, <1>4, <1>8, Zenon
  <2>7. hdmn'.sid = hsrv'.sid \/ \E j \in DOMAIN ToD' : ToD'[j].auth = "none"
    BY <1>0, <1>3, <1>4, <1>5 DEF DaemonQueue
  <2> QED BY <2>1, <2>2, <2>3, <2>4, <2>5, <2>6, <2>7, Zenon DEF DaemonQueue
<1>15. ServerQueue'
  <2> HIDE DEF ToS, ToD, Asked
  <2> QED BY <1>0, <1>3, <1>4, <1>6, <1>13 DEF ServerQueue
<1>16. ViewFollows'
  <2>1. /\ GetSessionAuthStatus(hdmn.sid)' = GetSessionAuthStatus(hdmn.sid)
        /\ GetSessionAuthStatus(hsrv.sid)' = GetSessionAuthStatus(hsrv.sid)
    BY <1>3, <1>4 DEF GetSessionAuthStatus
  <2> HIDE DEF ToS, ToD
  <2>2. TurnLeft' <=> TurnLeft
    BY <1>4, <1>10, <1>13 DEF TurnLeft
  <2> QED BY <1>0, <1>3, <1>4, <1>6, <1>10, <1>13, <2>1, <2>2 DEF ViewFollows
<1> QED BY <1>3, <1>4, <1>9, <1>11, <1>14, <1>15, <1>16 DEF AgreeCore

\* DialogAnswer.
LEMMA DialogAnswerAgrees ==
    ASSUME AgreeCore, HandshakeShape, DialogAnswer, NoLapse'
    PROVE  AgreeCore'
<1>0. AgreeShape /\ TlsPhases /\ DaemonQueue /\ ServerQueue /\ ViewFollows
  BY DEF AgreeCore
<1>a. PICK a \in {"once", "forever", "refuse"} :
         /\ hdmn' = [hdmn EXCEPT !.pc = "answered", !.answer = a]
         /\ hhist' = Lapse(hhist, "dialog", a # "refuse" /\ hthr # "none")
  BY DEF DialogAnswer
<1>1. (a # "refuse" => hthr = "none") /\ hdmn' = [hdmn EXCEPT !.pc = "answered", !.answer = a] /\ UNCHANGED hhist
  <2>1. "dialog" \in Lapse(hhist, "dialog", TRUE).lapses
    BY DEF Lapse, HandshakeShape
  <2> QED BY <1>a, <2>1 DEF Lapse, NoLapse
<1>2. hdmn.pc = "dialog" /\ UNCHANGED <<hcfg, hsrv, hauth, hthr, hnet, hhist>>
  BY <1>1 DEF DialogAnswer
<1>3. /\ hdmn'.alive = hdmn.alive /\ hdmn'.sid = hdmn.sid /\ hdmn'.ssl = hdmn.ssl /\ hdmn'.tls = hdmn.tls
      /\ hdmn'.enc = hdmn.enc /\ hdmn'.io = hdmn.io /\ hdmn'.pc = "answered" /\ hdmn'.answer = a
  BY <1>1 DEF HandshakeShape
<1>4. hdmn.alive
  BY <1>0, <1>2 DEF AgreeShape
<1>5. ToD' = ToD /\ ToS' = ToS /\ Asked' /\ Asked
  BY <1>2, <1>3 DEF ToD, ToS, Asked
<1>6. (HasTurn(ToD') <=> HasTurn(ToD)) /\ (HasTurn(ToS') <=> HasTurn(ToS))
  BY <1>5 DEF HasTurn
<1>7. AgreeShape'
  BY <1>0, <1>2, <1>3, <1>4 DEF AgreeShape
<1>8. hsrv.tls = 0 /\ hdmn.tls = 0
  BY <1>0, <1>4, <1>5, Zenon DEF TlsPhases
<1>9. TlsPhases'
  <2>1. hdmn'.pc # "ssl wait" /\ hdmn'.tls # 2
    BY <1>3, <1>8, TlsNumbers
  <2> QED BY <1>0, <1>2, <1>3, <1>8, <2>1, Zenon DEF TlsPhases
<1>10. \A j \in DOMAIN ToD : ~Turn(ToD[j])
  BY <1>0, <1>2, <1>4 DEF DaemonQueue
<1>11. DaemonQueue'
  BY <1>0, <1>2, <1>3, <1>4, <1>5, <1>10 DEF DaemonQueue
<1>12. ServerQueue'
  BY <1>0, <1>2, <1>3, <1>4, <1>5, <1>6 DEF ServerQueue
<1>13. ViewFollows'
  <2>1. GetSessionAuthStatus(hdmn.sid)' = GetSessionAuthStatus(hdmn.sid)
    BY <1>2, <1>3 DEF GetSessionAuthStatus
  <2>2. TurnLeft' <=> TurnLeft
    BY <1>2, <1>6 DEF TurnLeft
  <2> QED BY <1>0, <1>1, <1>2, <1>3, <1>4, <2>1, <2>2 DEF ViewFollows
<1> QED BY <1>2, <1>7, <1>9, <1>11, <1>12, <1>13 DEF AgreeCore

\* AfterDialog: the handler goes on with the answer, or says that it was no.
LEMMA AfterDialogAgrees ==
    ASSUME AgreeCore, HandshakeShape, AfterDialog, NoLapse'
    PROVE  AgreeCore'
<1> DEFINE d == [hdmn EXCEPT !.pc = "idle"]
<1>0. AgreeShape /\ ViewFollows
  BY DEF AgreeCore
<1>1. hdmn.pc = "answered" /\ UNCHANGED <<hcfg, hsrv, hthr>>
  BY DEF AfterDialog
<1>2. hdmn.alive /\ Asked /\ hdmn.pc # "ssl wait" /\ hthr \in {"none", "send", "update"}
  BY <1>0, <1>1 DEF AgreeShape, Asked
<1>3. d \in {hdmn, [hdmn EXCEPT !.pc = "idle"]} /\ d.pc = "idle" /\ d.sid = hdmn.sid
  BY DEF HandshakeShape
<1>4. (hdmn.answer # "refuse" /\ SendAuthMsg(d, hdmn.key))
      \/ (HandleAuthFailed(d) /\ UNCHANGED hhist)
  BY DEF AfterDialog
<1> HIDE DEF d
<1>5. Ready(d) /\ hsrv.tls = 0 /\ hdmn.tls = 0
  BY <1>2, <1>3, AskedIsReady
<1>6. d.sid = hsrv.sid
  BY <1>5 DEF Ready
<1>7. CASE hdmn.answer # "refuse" /\ SendAuthMsg(d, hdmn.key)
  <2>1. hthr = "none"
    BY <1>0, <1>1, <1>2, <1>7 DEF ViewFollows
  <2> DEFINE k == hdmn.key
  <2>3. SendAuthMsg(d, k)
    BY <1>7
  <2> HIDE DEF k
  <2> QED BY <1>1, <1>3, <1>5, <2>1, <2>3, SendAuthMsgKeeps
<1>8. CASE HandleAuthFailed(d) /\ UNCHANGED hhist
  <2>1. hauth' = UpdateSessionAuthmsg(d.sid) /\ SendAuthOkMsg(d, TRUE)
    BY <1>8 DEF HandleAuthFailed
  <2>2. GetSessionAuthStatus(hsrv.sid)' = "fail"
    BY <1>0, <1>1, <1>2, <1>6, <2>1, UpdateSessionAuthmsgSets, StatusIs
  <2>3. TRUE = (GetSessionAuthStatus(hsrv.sid)' # "ok") /\ TRUE \in BOOLEAN /\ hhist'.garbled = hhist.garbled
    BY <1>8, <2>2
  <2>4. hthr' \in {"none", "send", "update"} /\ d.pc # "answered" /\ GetSessionAuthStatus(hsrv.sid)' # "ok"
    BY <1>1, <1>2, <1>3, <2>2
  <2> QED BY <1>1, <1>5, <2>1, <2>3, <2>4, OkKeeps
<1> QED BY <1>4, <1>7, <1>8

\* NotifyMsgSend: the host is told of the dialog, or the daemon ends.
LEMMA NotifySendAgrees ==
    ASSUME AgreeCore, HandshakeShape, NotifyMsgSend
    PROVE  AgreeCore'
<1>0. AgreeShape /\ TlsPhases /\ DaemonQueue /\ ServerQueue /\ ViewFollows
  BY DEF AgreeCore
<1>1. hthr = "send" /\ UNCHANGED <<hcfg, hsrv, hhist>>
  BY DEF NotifyMsgSend
<1>2. hhist'.garbled = hhist.garbled
  BY <1>1
<1>3. CASE hdmn.alive /\ SendAuthOkMsg(hdmn, TRUE) /\ hthr' = "update" /\ UNCHANGED hauth
  <2>1. Asked /\ hdmn.pc # "ssl wait" /\ hdmn \in {hdmn, [hdmn EXCEPT !.pc = "idle"]}
    BY <1>0, <1>1, <1>3 DEF Asked, TlsPhases
  <2>2. Ready(hdmn) /\ hsrv.tls = 0 /\ hdmn.tls = 0
    BY <1>3, <2>1, AskedIsReady
  <2>3. hdmn.sid = hsrv.sid
    BY <2>2 DEF Ready
  <2>4. GetSessionAuthStatus(hsrv.sid)' # "ok"
    BY <1>0, <1>1, <1>3, <2>3 DEF ViewFollows, GetSessionAuthStatus
  <2>5. ~(hdmn.pc = "answered" /\ hdmn.answer # "refuse")
    BY <1>0, <1>1, <1>3 DEF ViewFollows
  <2>6. TRUE = (GetSessionAuthStatus(hsrv.sid)' # "ok") /\ TRUE \in BOOLEAN /\ hthr' \in {"none", "send", "update"}
    BY <1>3, <2>4
  <2> QED BY <1>1, <1>2, <1>3, <2>2, <2>4, <2>5, <2>6, OkKeeps
<1>4. CASE ~hdmn.alive /\ UNCHANGED <<hdmn, hnet, hauth>> /\ hthr' = "update"
  <2>1. ToD' = ToD /\ ToS' = ToS
    BY <1>1, <1>4 DEF ToD, ToS
  <2>2. HasTurn(ToS') <=> HasTurn(ToS)
    BY <2>1 DEF HasTurn
  <2>3. AgreeShape'
    BY <1>0, <1>1, <1>4 DEF AgreeShape
  <2>4. TlsPhases'
    BY <1>0, <1>1, <1>4, <2>2, Zenon DEF TlsPhases
  <2>5. DaemonQueue' /\ ViewFollows'
    BY <1>4 DEF DaemonQueue, ViewFollows
  <2>6. ServerQueue'
    BY <1>0, <1>1, <1>4, <2>1 DEF ServerQueue
  <2> QED BY <1>0, <1>1, <2>3, <2>4, <2>5, <2>6 DEF AgreeCore
<1>5. CASE hthr' = "none" /\ hdmn' = DaemonFree(hdmn) /\ UNCHANGED hnet
  <2>1. hthr' \in {"none", hthr}
    BY <1>5
  <2> QED BY <1>1, <1>2, <1>5, <2>1, DaemonFreeKeeps
<1> QED BY <1>3, <1>4, <1>5 DEF NotifyMsgSend

\* NotifyMsgUpdate: it is recorded what the host was told.
LEMMA NotifyUpdateAgrees ==
    ASSUME AgreeCore, HandshakeShape, NotifyMsgUpdate
    PROVE  AgreeCore'
<1>0. AgreeShape /\ TlsPhases /\ DaemonQueue /\ ServerQueue /\ ViewFollows
  BY DEF AgreeCore
<1>1. /\ hthr = "update" /\ hthr' = "none" /\ hauth' = UpdateSessionAuthmsg(hdmn.sid)
      /\ UNCHANGED <<hcfg, hsrv, hdmn, hnet, hhist>>
  BY DEF NotifyMsgUpdate
<1>2. ToD' = ToD /\ ToS' = ToS /\ Asked
  BY <1>1 DEF ToD, ToS, Asked
<1>3. (HasTurn(ToD') <=> HasTurn(ToD)) /\ (HasTurn(ToS') <=> HasTurn(ToS))
  BY <1>2 DEF HasTurn
<1>4. AgreeShape'
  BY <1>0, <1>1 DEF AgreeShape
<1>5. TlsPhases'
  BY <1>0, <1>1, <1>2, <1>3, Zenon DEF TlsPhases
<1>6. hdmn.alive => \A j \in DOMAIN ToD : ~Turn(ToD[j])
  BY <1>0, <1>1 DEF DaemonQueue
<1>7. DaemonQueue'
  BY <1>0, <1>1, <1>2, <1>6 DEF DaemonQueue
<1>8. hsrv.alive /\ hdmn.alive => \A j \in DOMAIN ToS : ~Turn(ToS[j])
  BY <1>0, <1>2 DEF ServerQueue
<1>9. ServerQueue'
  <2> HIDE DEF ToS, ToD, Asked
  <2> QED BY <1>0, <1>1, <1>2, <1>8 DEF ServerQueue
<1>10. ViewFollows'
  <2>1. CASE ~hdmn.alive
    BY <2>1, <1>1 DEF ViewFollows
  <2>2. CASE hdmn.alive
    <3>1. \A j \in DOMAIN ToD : ToD[j].auth # "none"
      BY <1>6, <2>2 DEF Turn
    <3>2. hdmn.sid = hsrv.sid
      BY <1>0, <2>2, <3>1 DEF DaemonQueue
    <3>3. GetSessionAuthStatus(hsrv.sid)' = "fail"
      BY <1>0, <1>1, <2>2, <3>2, UpdateSessionAuthmsgSets, StatusIs
    <3>4. GetSessionAuthStatus(hsrv.sid) # "ok"
      BY <1>0, <1>1, <2>2, <3>2 DEF ViewFollows
    <3>5. (GetSessionAuthStatus(hsrv.sid)' = "ok") = (GetSessionAuthStatus(hsrv.sid) = "ok")
          /\ (GetSessionAuthStatus(hsrv.sid)' # "ok") = (GetSessionAuthStatus(hsrv.sid) # "ok")
      BY <3>3, <3>4
    <3>6. GetSessionAuthStatus(hdmn.sid)' # "ok"
      BY <1>1, <3>2, <3>3 DEF GetSessionAuthStatus
    <3> HIDE DEF ToS, ToD
    <3> QED BY <1>0, <1>1, <1>2, <1>3, <3>5, <3>6 DEF ViewFollows
  <2> QED BY <2>1, <2>2
<1> QED BY <1>0, <1>1, <1>4, <1>5, <1>7, <1>9, <1>10 DEF AgreeCore

\* SslHandshakeDone, where the server has taken the last plain message by then.
LEMMA SslDoneAgrees ==
    ASSUME AgreeCore, HandshakeShape, SslHandshakeDone, NoLapse'
    PROVE  AgreeCore'
<1> DEFINE d == [hdmn EXCEPT !.pc = "idle"]
<1>0. AgreeShape /\ TlsPhases /\ DaemonQueue /\ ServerQueue
  BY DEF AgreeCore
<1>1. /\ hdmn.pc = "ssl wait" /\ LastPlainTaken /\ hauth' = UpdateSessionAuthOk(hdmn.sid)
      /\ SendAuthOkMsg(d, FALSE) /\ hhist' = Prove(hdmn.sid) /\ UNCHANGED <<hcfg, hsrv, hthr>>
  <2>1. "wait" \in Lapse(Prove(hdmn.sid), "wait", TRUE).lapses
    BY DEF Lapse, Prove, HandshakeShape
  <2>2. LastPlainTaken
    BY <2>1 DEF SslHandshakeDone, NoLapse, Lapse
  <2> QED BY <2>2 DEF SslHandshakeDone, Lapse
<1>2. /\ DOMAIN d = DOMAIN hdmn /\ d.alive = hdmn.alive /\ d.sid = hdmn.sid /\ d.ssl = hdmn.ssl /\ d.tls = hdmn.tls
      /\ d.enc = hdmn.enc /\ d.io = hdmn.io /\ d.pc = "idle"
  BY DEF HandshakeShape
<1> HIDE DEF d
<1>3. hdmn.alive
  BY <1>0, <1>1 DEF AgreeShape
<1>4. hthr = "none" /\ hdmn.tls = 2
  BY <1>0, <1>1, <1>3, Zenon DEF TlsPhases
<1>5. \A j \in DOMAIN ToD : ~Turn(ToD[j])
  BY <1>0, <1>1, <1>3 DEF DaemonQueue
<1>6. ToD = QueueOf(d.io, hnet.s2d)
  BY <1>2 DEF ToD
<1>7. \A j \in DOMAIN ToD : ToD[j].cmd # "handshake" /\ ToD[j].enc = d.ssl
  BY <1>0, <1>2, <1>3, <1>5 DEF DaemonQueue
<1>8. hcfg.encrypt /\ ~hsrv.ssl => DOMAIN ToD = {}
  BY <1>0, <1>3, <1>5 DEF DaemonQueue
<1>9. hdmn.sid = hsrv.sid
  <2>1. \A j \in DOMAIN ToD : ToD[j].auth # "none"
    BY <1>5 DEF Turn
  <2> QED BY <1>0, <1>3, <2>1 DEF DaemonQueue
<1>10. hsrv.alive => d.ssl = hsrv.ssl /\ ~HasTurn(ToS)
  <2> SUFFICES ASSUME hsrv.alive PROVE d.ssl = hsrv.ssl /\ ~HasTurn(ToS)
    OBVIOUS
  <2>1. hnet.d2s = <<>> /\ hsrv.io = <<>>
    BY <1>1 DEF LastPlainTaken
  <2>2. IsQueue(<<>>) /\ Len(<<>>) = 0
    BY DEF IsQueue
  <2>3. DOMAIN ToS = 1..(0 + 0)
    BY <2>1, <2>2, QueueOfIs DEF ToS
  <2>4. ~HasTurn(ToS)
    BY <2>3 DEF HasTurn
  <2>5. hsrv.ssl /\ hdmn.ssl
    BY <1>0, <1>4, <2>4, Zenon DEF TlsPhases
  <2>6. hdmn.ssl \in BOOLEAN /\ hsrv.ssl \in BOOLEAN
    BY <1>0, Zenon DEF AgreeShape
  <2>7. hdmn.ssl = hsrv.ssl
    BY <2>5, <2>6, Zenon
  <2> QED BY <1>2, <2>4, <2>7
<1>11. /\ d.alive = TRUE /\ (d.enc => hcfg.encrypt) /\ IsQueue(d.io) /\ \A j \in DOMAIN d.io : d.io[j].good
  <2>1. hdmn.alive = TRUE /\ IsQueue(hdmn.io)
    BY <1>0, <1>3 DEF AgreeShape
  <2>2. hdmn.enc => hcfg.encrypt
    BY <1>0, <1>3, Zenon DEF TlsPhases
  <2>3. \A j \in DOMAIN hdmn.io : hdmn.io[j].good
    BY <1>0, <1>3 DEF DaemonQueue
  <2> QED BY <1>2, <2>1, <2>2, <2>3
<1> HIDE DEF ToD
<1>12. \A j \in DOMAIN QueueOf(d.io, hnet.s2d) :
         LET m == QueueOf(d.io, hnet.s2d)[j] IN ~Turn(m) /\ m.cmd # "handshake" /\ m.enc = d.ssl
  BY <1>5, <1>6, <1>7
<1>13. Ready(d)
  BY <1>2, <1>3, <1>6, <1>8, <1>9, <1>10, <1>11, <1>12 DEF Ready
<1>14. GetSessionAuthStatus(hsrv.sid)' = "ok"
  BY <1>0, <1>1, <1>3, <1>9, UpdateSessionAuthOkSets, StatusIs
<1>15. FALSE = (GetSessionAuthStatus(hsrv.sid)' # "ok") /\ FALSE \in BOOLEAN /\ hthr' = "none"
  BY <1>1, <1>4, <1>14
<1>16. hhist'.garbled = hhist.garbled
  BY <1>1 DEF Prove, HandshakeShape
<1> QED BY <1>1, <1>2, <1>13, <1>15, <1>16, OkKeeps

\* Before any session, nothing is under way.
LEMMA AgreeInit == HandshakeInit => AgreeInv
<1> SUFFICES ASSUME HandshakeInit PROVE AgreeInv
  OBVIOUS
<1>1. /\ DOMAIN hcfg = {"validation", "secure", "oemmode", "bypass", "denied", "tcp", "encrypt", "hostValidation",
                        "host", "pub", "priv", "valid"}
      /\ hcfg.tcp = TRUE /\ hcfg.encrypt \in BOOLEAN
  BY DEF HandshakeInit, Configs
<1>2. /\ DOMAIN hsrv = {"sid", "alive", "hs", "ssl", "tls", "scheme", "io", "conn", "auth", "sent"}
      /\ hsrv.sid = 0 /\ hsrv.alive = FALSE /\ hsrv.hs = FALSE /\ hsrv.ssl = FALSE /\ hsrv.tls = 0 /\ hsrv.io = <<>>
  BY DEF HandshakeInit, NewServerSession
<1>3. /\ hdmn.alive = FALSE /\ hdmn.ssl = FALSE /\ hdmn.tls = 0 /\ hdmn.io = <<>> /\ hdmn.pc = "idle"
  BY DEF HandshakeInit, NewDaemonSession
<1>4. DOMAIN hnet = {"s2d", "d2s"} /\ hnet.s2d = <<>> /\ hnet.d2s = <<>> /\ hthr = "none" /\ ~hhist.garbled
  BY DEF HandshakeInit
<1>5. IsQueue(<<>>)
  BY DEF IsQueue
<1>6. 0 \in 0..MaxSessions /\ 0 \in 0..2
  BY HandshakeBounds
<1>7. AgreeShape
  BY <1>1, <1>2, <1>3, <1>4, <1>5, <1>6 DEF AgreeShape
<1>8. TlsPhases /\ DaemonQueue /\ ServerQueue /\ ViewFollows
  BY <1>2, <1>3, TlsNumbers DEF TlsPhases, DaemonQueue, ServerQueue, ViewFollows
<1>9. AgreeCore
  BY <1>2, <1>4, <1>7, <1>8 DEF AgreeCore
<1> QED BY <1>2, <1>9 DEF AgreeInv

\* Every step of either end keeps the turns, unless it is a lapse.
LEMMA CoreStep ==
    ASSUME AgreeCore, HandshakeShape, [HandshakeNext]_hsVars, NoLapse'
    PROVE  AgreeCore'
<1>1. CASE UNCHANGED hsVars
  <2>0. UNCHANGED <<hcfg, hsrv, hdmn, hauth, hthr, hnet, hhist>>
    BY <1>1 DEF hsVars
  <2>1. AgreeShape'
    BY <2>0 DEF AgreeCore, AgreeShape
  <2>2. ToD' = ToD /\ ToS' = ToS /\ (Asked' <=> Asked)
    BY <2>0 DEF ToD, ToS, Asked
  <2>3. (HasTurn(ToD') <=> HasTurn(ToD)) /\ (HasTurn(ToS') <=> HasTurn(ToS))
    BY <2>2 DEF HasTurn
  <2>4. TlsPhases'
    BY <2>0, <2>2, <2>3, Zenon DEF AgreeCore, TlsPhases
  <2>5. DaemonQueue'
    BY <2>0, <2>2 DEF AgreeCore, DaemonQueue
  <2> HIDE DEF ToD, ToS, Asked
  <2>6. ServerQueue'
    BY <2>0, <2>2, <2>3 DEF AgreeCore, ServerQueue
  <2>7. /\ GetSessionAuthStatus(hdmn.sid)' = GetSessionAuthStatus(hdmn.sid)
        /\ GetSessionAuthStatus(hsrv.sid)' = GetSessionAuthStatus(hsrv.sid)
    BY <2>0 DEF GetSessionAuthStatus
  <2>8. TurnLeft' <=> TurnLeft
    BY <2>0, <2>3 DEF TurnLeft
  <2>9. ViewFollows'
    BY <2>0, <2>2, <2>3, <2>7, <2>8 DEF AgreeCore, ViewFollows
  <2> QED BY <2>0, <2>1, <2>4, <2>5, <2>6, <2>9 DEF AgreeCore
<1>2. CASE HandshakeNext
  BY <1>2, SessionStartAgrees, ClosingAgrees, ServerReadAgrees, ServerHandshakeAgrees, ServerTaskAgrees,
     DaemonReadAgrees, DaemonHandshakeAgrees, FetchTaskAgrees, AfterDialogAgrees, NotifySendAgrees,
     NotifyUpdateAgrees, SslDoneAgrees, DialogAnswerAgrees DEF HandshakeNext, ServerSteps, DaemonSteps
<1> QED BY <1>1, <1>2

\* A lapse is never forgotten.
LEMMA LapsesStay ==
    ASSUME HandshakeShape, [HandshakeNext]_hsVars
    PROVE  hhist.lapses \subseteq hhist'.lapses
<1>1. CASE ServerSessionHandshake
  <2>1. hhist' = hhist \/ hhist' = [hhist EXCEPT !.garbled = TRUE]
    BY <1>1 DEF ServerSessionHandshake
  <2> QED BY <2>1 DEF HandshakeShape
<1>2. ASSUME NEW d, NEW m, HandDaemonAuth(d, m) PROVE hhist.lapses \subseteq hhist'.lapses
  <2>1. ASSUME NEW k, SendAuthMsg(d, k) PROVE hhist.lapses \subseteq hhist'.lapses
    BY <2>1 DEF SendAuthMsg, Lapse, Allow, HandshakeShape
  <2>2. hhist' = hhist \/ SendAuthMsg(d, m.body.key) \/ HandDaemonAuthSignature(d, m.body)
    BY <1>2 DEF HandDaemonAuth, HandDaemonAuthPubkey, HandConnectValidationPubkey, DaemonSSLHandshake
  <2>3. CASE HandDaemonAuthSignature(d, m.body)
    BY <2>3 DEF HandDaemonAuthSignature, Prove, HandshakeShape
  <2> QED BY <2>1, <2>2, <2>3
<1>3. CASE DaemonSessionHandshake
  <2>1. hhist' = [hhist EXCEPT !.garbled = TRUE] \/ \E d, m : HandDaemonAuth(d, m)
    BY <1>3 DEF DaemonSessionHandshake
  <2> QED BY <1>2, <2>1 DEF HandshakeShape
<1>4. CASE FetchTask
  BY <1>4 DEF FetchTask, HandshakeShape
<1>5. CASE DialogAnswer
  BY <1>5 DEF DialogAnswer, Lapse, HandshakeShape
<1>6. CASE AfterDialog
  <2> DEFINE i == [hdmn EXCEPT !.pc = "idle"].sid
  <2>1. hhist' = hhist \/ hhist' = Allow(i) \/ hhist' = Lapse(Allow(i), "silent", TRUE)
    BY <1>6 DEF AfterDialog, SendAuthMsg
  <2> HIDE DEF i
  <2> QED BY <2>1 DEF Lapse, Allow, HandshakeShape
<1>7. CASE SslHandshakeDone
  BY <1>7 DEF SslHandshakeDone, Lapse, Prove, HandshakeShape
<1>8. CASE UNCHANGED hhist
  BY <1>8
<1> QED BY <1>1, <1>3, <1>4, <1>5, <1>6, <1>7, <1>8 DEF HandshakeNext, hsVars, ServerSteps, DaemonSteps,
           WorkThreadInitSession, PeerClosed, ConnectionLost, ServerRead, ServerTask, DaemonRead, NotifyMsgSend,
           NotifyMsgUpdate

\* The server does not end its handshake without the encryption it requires.
EncryptedEnd ==
  /\ DOMAIN hsrv = {"sid", "alive", "hs", "ssl", "tls", "scheme", "io", "conn", "auth", "sent"}
  /\ hcfg.tcp /\ hcfg.encrypt /\ hsrv.hs => hsrv.ssl

\* Only ServerSessionHandshake ends it, after EncryptionMissing.
LEMMA EncryptedEndStep ==
    ASSUME EncryptedEnd, [HandshakeNext]_hsVars
    PROVE  EncryptedEnd'
<1>0. UNCHANGED hcfg
  BY DEF HandshakeNext, hsVars, ServerSteps, DaemonSteps, WorkThreadInitSession, PeerClosed, ConnectionLost,
         ServerRead, ServerSessionHandshake, ServerTask, DaemonRead, DaemonSessionHandshake, FetchTask, AfterDialog,
         NotifyMsgSend, NotifyMsgUpdate, SslHandshakeDone, DialogAnswer
<1>1. CASE UNCHANGED hsrv
  BY <1>0, <1>1 DEF EncryptedEnd
<1>2. CASE WorkThreadInitSession
  BY <1>2 DEF WorkThreadInitSession, NewServerSession, EncryptedEnd
<1>3. CASE hsrv' = ServerFree(hsrv)
  BY <1>0, <1>3 DEF ServerFree, EncryptedEnd
<1>4. CASE ServerRead \/ ServerTask
  BY <1>0, <1>4 DEF ServerRead, ServerTask, EncryptedEnd
<1>5. CASE ServerSessionHandshake
  <2> DEFINE r == Head(hsrv.io)
             n == Next_io(hsrv)
  <2>0. DOMAIN n = DOMAIN hsrv /\ n.hs = hsrv.hs /\ n.ssl = hsrv.ssl
    BY DEF Next_io, EncryptedEnd
  <2> HIDE DEF n
  <2>1. CASE HandServerAuth(r.m)
    <3>1. \/ hsrv' = [n EXCEPT !.scheme = r.m.body.scheme] \/ hsrv' = n
          \/ hsrv' = PerformHandshake(n) \/ hsrv' = SetHandshakeLabel(n)
      BY <2>1 DEF HandServerAuth, HandleAuthPubkeyMsg, HandleAuthSignatureMsg, ServerSSLHandshake, n
    <3> QED BY <1>0, <2>0, <3>1 DEF PerformHandshake, SetHandshakeLabel, EncryptedEnd
  <2>2. CASE ~EncryptionMissing(hsrv) /\ hsrv' = [UpdateHdiInfo(n, r.m.body) EXCEPT !.hs = TRUE]
    <3>1. DOMAIN hsrv' = DOMAIN hsrv /\ hsrv'.ssl = hsrv.ssl
      BY <2>0, <2>2 DEF UpdateHdiInfo, EncryptedEnd
    <3> QED BY <1>0, <2>2, <3>1 DEF EncryptionMissing, EncryptedEnd
  <2> QED BY <1>3, <1>5, <2>1, <2>2 DEF ServerSessionHandshake, n
<1> QED BY <1>1, <1>2, <1>3, <1>4, <1>5 DEF HandshakeNext, hsVars, ServerSteps, DaemonSteps, PeerClosed,
           ConnectionLost, DaemonRead, DaemonSessionHandshake, FetchTask, AfterDialog, NotifyMsgSend, NotifyMsgUpdate,
           SslHandshakeDone, DialogAnswer

\* Both parts of the invariant, lapses included.
LEMMA AgreeStep == AgreeInv /\ HandshakeShape /\ [HandshakeNext]_hsVars => AgreeInv'
<1> SUFFICES ASSUME AgreeInv, HandshakeShape, [HandshakeNext]_hsVars PROVE AgreeInv'
  OBVIOUS
<1>1. EncryptedEnd'
  BY EncryptedEndStep DEF AgreeInv, EncryptedEnd
<1>2. NoLapse' => NoLapse
  BY LapsesStay DEF NoLapse
<1>3. NoLapse' => AgreeCore'
  BY <1>2, CoreStep DEF AgreeInv
<1> QED BY <1>1, <1>3 DEF AgreeInv, EncryptedEnd

\* With nothing under way and nobody asked, the list says what is recorded.
LEMMA AgreeMeans == AgreeInv => HandshakeAgrees
<1> SUFFICES ASSUME AgreeInv PROVE HandshakeAgrees
  OBVIOUS
<1>0. NoLapse => AgreeShape /\ ViewFollows
  BY DEF AgreeInv, AgreeCore
<1>1. EncryptionAgreed
  BY DEF AgreeInv, AgreeCore, EncryptionAgreed
<1>2. ViewsAgree
  <2> SUFFICES ASSUME Settled, NoLapse PROVE hsrv.hs /\ (hsrv.auth = "success") = (hauth[hsrv.sid].type = "ok")
    BY DEF ViewsAgree
  <2>1. hsrv.io = <<>> /\ hdmn.io = <<>> /\ hnet.s2d = <<>> /\ hnet.d2s = <<>>
    BY DEF Settled
  <2>2. IsQueue(<<>>) /\ Len(<<>>) = 0
    BY DEF IsQueue
  <2>3. Len(ToS) = 0 + 0 /\ DOMAIN ToS = 1..Len(ToS) /\ Len(ToD) = 0 + 0 /\ DOMAIN ToD = 1..Len(ToD)
    BY <2>1, <2>2, QueueOfIs DEF ToS, ToD
  <2> HIDE DEF ToS, ToD
  <2>4. ~HasTurn(ToS) /\ ~HasTurn(ToD) /\ ~(Len(ToS) > 0)
    BY <2>3 DEF HasTurn
  <2>5. hsrv.hs /\ (hsrv.auth = "success") = (GetSessionAuthStatus(hsrv.sid) = "ok")
    BY <1>0, <2>4 DEF Settled, ViewFollows
  <2>6. hsrv.sid \in Ids
    <3>1. hsrv.sid \in 0..MaxSessions /\ hsrv.sid # 0
      BY <1>0, Zenon DEF AgreeShape, Settled
    <3> QED BY <3>1, HandshakeBounds DEF Ids
  <2> QED BY <2>5, <2>6 DEF GetSessionAuthStatus
<1> QED BY <1>1, <1>2 DEF HandshakeAgrees

\* Both ends take a session for the same, encrypted or not and authorised or
\* not, for any number of keys, sessions and commands: ServerSessionHandshake and
\* DaemonSessionHandshake talk past each other only after one of the three lapses
\* of NoLapse, and even then the server ends no handshake without the encryption it
\* requires.
THEOREM HandshakeAgreesHolds == HandshakeSpec => []HandshakeAgrees
<1>1. AuthInv => HandshakeShape
  BY DEF AuthInv
<1>2. HandshakeInit => AuthInv /\ AgreeInv
  BY AuthInit, AgreeInit
<1>3. (AuthInv /\ AgreeInv) /\ [HandshakeNext]_hsVars => (AuthInv /\ AgreeInv)'
  BY <1>1, AuthStep, AgreeStep
<1> QED BY <1>2, <1>3, AgreeMeans, PTL DEF HandshakeSpec
-----------------------------------------------------------------------------
(* The list of targets                                                     *)

\* The record of a session of the target.
SessionShape(r) == /\ DOMAIN r = {"state", "run", "shook", "upd", "pend"}
                   /\ r.state \in {"none", "made", "live", "dead", "gone"}
                   /\ EntryOK(r.upd)

\* The channels that wait for a connection.
ChannelsOK == /\ DOMAIN tchan = TargetChannels
              /\ \A c \in TargetChannels : /\ DOMAIN tchan[c] = {"st", "check", "count"}
                                           /\ tchan[c].st \in {"idle", "polling", "done"}
                                           /\ tchan[c].count \in 0..MaxPolls
                                           /\ tchan[c].st = "polling" => tkind \in {"tcp", "local"}

\* What Freeing adds to the history.
LEMMA OrphanFlag ==
    ASSUME TargetsTypeOK, NEW b \in BOOLEAN, thist' = [thist EXCEPT !.orphaned = @ \/ b]
    PROVE  /\ DOMAIN thist' = {"raced", "gaveUp", "orphaned"}
           /\ thist'.raced <=> thist.raced
           /\ thist'.gaveUp <=> thist.gaveUp
           /\ thist'.orphaned <=> thist.orphaned \/ b
  BY DEF TargetsTypeOK

\* What a late write adds to the history.
LEMMA RaceFlag ==
    ASSUME TargetsTypeOK, NEW b \in BOOLEAN, thist' = [thist EXCEPT !.raced = @ \/ b]
    PROVE  /\ DOMAIN thist' = {"raced", "gaveUp", "orphaned"}
           /\ thist'.raced <=> thist.raced \/ b
           /\ thist'.gaveUp <=> thist.gaveUp
           /\ thist'.orphaned <=> thist.orphaned
  BY DEF TargetsTypeOK

\* The entry that the end of a session leaves.
LEMMA FreedEntry ==
    ASSUME NEW e, EntryOK(e), ~e.listed => e.session = NoSession
    PROVE  LET f == NotifyInstanceSessionFree(e)
           IN  EntryOK(f) /\ f.session = NoSession /\ (f.listed <=> e.listed)
<1>1. CASE e.listed
  BY <1>1 DEF NotifyInstanceSessionFree, EntryOK, EntryStatus
<1>2. CASE ~e.listed
  BY <1>2 DEF NotifyInstanceSessionFree, EntryOK, EntryStatus
<1>3. QED
  BY <1>1, <1>2

\* The channels after an answer are still channels.
LEMMA ChannelAnswered ==
    ASSUME ChannelsOK, NEW c \in TargetChannels, Answered(c), UNCHANGED tkind
    PROVE  ChannelsOK'
  BY DEF ChannelsOK, Answered

\* The sessions with a change of s that is no step of its life.
SameBut(ss, s) ==
  /\ DOMAIN ss = TargetSessions
  /\ \A t \in TargetSessions : t # s => ss[t] = tsess[t]
  /\ SessionShape(ss[s]) /\ ss[s].state = tsess[s].state /\ ss[s].upd = tsess[s].upd
  /\ ss[s].shook <=> tsess[s].shook
  /\ ss[s].run => tsess[s].run

\* FreeSession: the entry of the target is changed only by the session it names.
LEMMA FreeingKeeps ==
    ASSUME TargetsInv, NEW s \in TargetSessions, NEW ss, SameBut(ss, s), Freeing(ss, s, tlist),
           UNCHANGED tkind, ChannelsOK'
    PROVE  TargetsInv'
<1> DEFINE b == Usable(s) /\ tlist.session \notin {NoSession, s}
<1>1. thist' = [thist EXCEPT !.orphaned = @ \/ b]
  BY DEF Freeing
<1>2. b \in BOOLEAN
  OBVIOUS
<1> HIDE DEF b
<1>3. /\ DOMAIN thist' = {"raced", "gaveUp", "orphaned"}
      /\ thist'.raced <=> thist.raced
      /\ thist'.gaveUp <=> thist.gaveUp
      /\ thist'.orphaned <=> thist.orphaned \/ b
  BY <1>1, <1>2, OrphanFlag DEF TargetsInv
<1>4. ~thist'.orphaned => ~thist.orphaned /\ ~(Usable(s) /\ tlist.session \notin {NoSession, s})
  BY <1>3 DEF b
<1>5. CASE Usable(s)
  <2>1. tsess' = [ss EXCEPT ![s].state = "dead"] /\ tlist' = NotifyInstanceSessionFree(tlist)
    BY <1>5 DEF Freeing, MarkDead, SameBut, Usable
  <2>2. EntryOK(tlist') /\ tlist'.session = NoSession /\ (tlist'.listed <=> tlist.listed)
    BY <2>1, FreedEntry DEF TargetsInv, TargetsTypeOK, EntriesFit
  <2>3. /\ DOMAIN tsess' = TargetSessions /\ \A t \in TargetSessions : t # s => tsess'[t] = tsess[t]
        /\ SessionShape(tsess'[s]) /\ tsess'[s].state = "dead" /\ tsess'[s].upd = tsess[s].upd
    BY <2>1 DEF SameBut, SessionShape
  <2>4. TargetsTypeOK'
    BY <1>3, <2>2, <2>3 DEF TargetsInv, TargetsTypeOK, ChannelsOK, SessionShape
  <2>5. EntriesFit'
    BY <1>5, <2>2, <2>3 DEF TargetsInv, EntriesFit, ChannelsOK, Usable
  <2>6. ListedIsUsable'
    BY <2>2 DEF ListedIsUsable
  <2>7. OneUsable'
    BY <1>4, <2>3 DEF TargetsInv, OneUsable, Usable
  <2>8. WorkingIsListed'
    <3>1. SUFFICES ASSUME WritesOrdered', NEW t \in TargetSessions, tsess'[t].run,
                   (tsess'[t].state = "live" \/ (tkind' \in {"tcp", "local"} /\ tsess'[t].state = "made"))
            PROVE  FALSE
      BY DEF WorkingIsListed
    <3>2. t # s /\ tsess'[t] = tsess[t] /\ WritesOrdered
      BY <3>1, <2>3, <1>3, <1>4 DEF WritesOrdered
    <3>3. tlist.session = t
      BY <3>1, <3>2 DEF TargetsInv, WorkingIsListed
    <3>4. QED
      BY <1>4, <1>5, <3>1, <3>2, <3>3 DEF WritesOrdered, TargetSessions, NoSession
  <2>9. QED
    BY <2>4, <2>5, <2>6, <2>7, <2>8 DEF TargetsInv
<1>6. CASE ~Usable(s)
  <2>1. tsess' = ss /\ tlist' = tlist
    BY <1>6 DEF Freeing, MarkDead, SameBut, Usable
  <2>3. /\ DOMAIN tsess' = TargetSessions /\ \A t \in TargetSessions : t # s => tsess'[t] = tsess[t]
        /\ SessionShape(tsess'[s]) /\ tsess'[s].state = tsess[s].state /\ tsess'[s].upd = tsess[s].upd
        /\ tsess'[s].shook <=> tsess[s].shook
    BY <2>1 DEF SameBut
  <2>4. TargetsTypeOK'
    BY <1>3, <2>1, <2>3 DEF TargetsInv, TargetsTypeOK, ChannelsOK, SessionShape
  <2>5. EntriesFit'
    BY <1>6, <2>1, <2>3 DEF TargetsInv, EntriesFit, ChannelsOK, Usable
  <2>6. ListedIsUsable'
    BY <1>3, <2>1, <2>3 DEF ListedIsUsable, TargetsInv, TargetsTypeOK, EntryOK, Usable
  <2>7. OneUsable'
    BY <1>4, <2>3, <2>1 DEF TargetsInv, OneUsable, Usable
  <2>8. WorkingIsListed'
    BY <1>3, <1>4, <1>6, <2>1, <2>3 DEF TargetsInv, WorkingIsListed, WritesOrdered, Usable
  <2>9. QED
    BY <2>4, <2>5, <2>6, <2>7, <2>8 DEF TargetsInv
<1>7. QED
  BY <1>5, <1>6

\* An entry that no session is listed in.
LEMMA EntryKept ==
    ASSUME TargetsInv, UNCHANGED <<tkind, tsess, thist>>, ChannelsOK',
           tlist' = tlist \/ (tlist.session = NoSession /\ tlist'.session = NoSession /\ EntryOK(tlist'))
    PROVE  TargetsInv'
<1>1. TargetsTypeOK'
  BY DEF TargetsInv, TargetsTypeOK, ChannelsOK
<1>2. EntriesFit'
  BY DEF TargetsInv, EntriesFit, ChannelsOK
<1>3. ListedIsUsable'
  BY DEF TargetsInv, ListedIsUsable, Usable
<1>4. OneUsable'
  BY DEF TargetsInv, OneUsable, Usable
<1>5. WorkingIsListed'
  BY DEF TargetsInv, WorkingIsListed, WritesOrdered, TargetSessions, NoSession
<1>6. QED
  BY <1>1, <1>2, <1>3, <1>4, <1>5 DEF TargetsInv

\* A session is made where the list leads to none that works.
LEMMA MadeKeeps ==
    ASSUME TargetsInv, UNCHANGED tkind, ChannelsOK', NEW s \in TargetSessions, Fresh(s),
           tsess' = [tsess EXCEPT ![s].state = "made"], EntryOK(tlist'), tlist'.listed,
           DOMAIN thist' = {"raced", "gaveUp", "orphaned"}, thist'.raced <=> thist.raced,
           thist'.gaveUp <=> thist.gaveUp, ~thist'.orphaned => ~thist.orphaned,
           tlist'.session \in {NoSession, s},
           tkind \in {"tcp", "local"} =>
             /\ tlist'.session = s /\ tlist'.inited
             /\ ~tlist.listed \/ (tlist.status # "connected" /\ ~tlist.inited),
           tkind \notin {"tcp", "local"} /\ ~thist'.orphaned => \A t \in TargetSessions : ~Usable(t)
    PROVE  TargetsInv'
<1>1. /\ DOMAIN tsess' = TargetSessions /\ \A t \in TargetSessions : t # s => tsess'[t] = tsess[t]
      /\ SessionShape(tsess'[s]) /\ tsess'[s].state = "made" /\ tsess'[s].upd = tsess[s].upd
      /\ tsess[s].state = "none" /\ (tsess'[s].shook <=> tsess[s].shook)
  BY DEF TargetsInv, TargetsTypeOK, SessionShape, Fresh
<1>2. TargetsTypeOK'
  BY <1>1 DEF TargetsInv, TargetsTypeOK, SessionShape, ChannelsOK
<1>3. EntriesFit'
  BY <1>1 DEF TargetsInv, EntriesFit, ChannelsOK
<1>4. ListedIsUsable'
  BY <1>1 DEF ListedIsUsable, Usable
<1>5. OneUsable'
  BY <1>1 DEF TargetsInv, OneUsable, Usable
<1>6. WorkingIsListed'
  <2>1. SUFFICES ASSUME WritesOrdered', NEW t \in TargetSessions, tsess'[t].run,
                 (tsess'[t].state = "live" \/ (tkind \in {"tcp", "local"} /\ tsess'[t].state = "made"))
          PROVE  t = s /\ tkind \in {"tcp", "local"} /\ tsess'[s].state = "made" /\ ~tsess'[s].shook
    BY DEF WorkingIsListed, WritesOrdered
  <2>2. WritesOrdered
    BY <2>1 DEF WritesOrdered
  <2>3. CASE t # s
    <3>1. tsess'[t] = tsess[t]
      BY <1>1, <2>3
    <3>2. tlist.listed /\ (tkind \in {"tcp", "local"} => tlist.inited \/ tlist.status = "connected")
      BY <2>1, <2>2, <3>1 DEF TargetsInv, WorkingIsListed
    <3>3. QED
      BY <2>1, <3>1, <3>2 DEF WritesOrdered, Usable
  <2>4. CASE t = s
    BY <1>1, <1>3, <2>1, <2>4 DEF EntriesFit
  <2>5. QED
    BY <2>3, <2>4
<1>7. QED
  BY <1>2, <1>3, <1>4, <1>5, <1>6 DEF TargetsInv

\* A device that the scan finds is listed, and gets a session of its own.
LEMMA DeviceFoundKeeps ==
    ASSUME TargetsInv, ChannelsOK', NEW s \in TargetSessions, DeviceFound(s) PROVE TargetsInv'
<1>1. EntryOK(tlist') /\ tlist'.listed /\ tlist'.session = NoSession
  BY DEF DeviceFound, Detected, EntryOK, EntryStatus
<1>2. DOMAIN thist = {"raced", "gaveUp", "orphaned"}
  BY DEF TargetsInv, TargetsTypeOK
<1>3. QED
  BY <1>1, <1>2, MadeKeeps DEF DeviceFound

\* NewConnectTry makes a session for a target that has none, or refuses.
LEMMA NewConnectTryKeeps ==
    ASSUME TargetsInv, ChannelsOK', NEW c \in TargetChannels, NEW chk \in BOOLEAN, NewConnectTry(c, chk)
    PROVE  TargetsInv'
<1>0. DOMAIN thist = {"raced", "gaveUp", "orphaned"}
  BY DEF TargetsInv, TargetsTypeOK
<1>1. /\ EntryOK(ConnectEntry) /\ ConnectEntry.listed
      /\ ConnectEntry = tlist \/ (ConnectEntry.session = NoSession /\ tlist.session = NoSession)
      /\ tlist.listed => ConnectEntry = tlist
  <2>1. CASE tlist.listed
    BY <2>1 DEF ConnectEntry, TargetsInv, TargetsTypeOK
  <2>2. CASE ~tlist.listed
    <3>1. ConnectEntry = [NotListed EXCEPT !.listed = TRUE]
      BY <2>2 DEF ConnectEntry
    <3>2. QED
      BY <2>2, <3>1 DEF NotListed, TargetsInv, EntriesFit, EntryOK, EntryStatus
  <2>3. QED
    BY <2>1, <2>2
<1>2. CASE ConnectTcp(c, chk)
  <2>1. CASE tlist' = ConnectEntry /\ UNCHANGED <<tsess, thist>>
    BY <2>1, <1>1, EntryKept DEF NewConnectTry
  <2>2. ASSUME NEW s \in TargetSessions, Fresh(s), tsess' = [tsess EXCEPT ![s].state = "made"],
               tlist' = [ConnectEntry EXCEPT !.session = s, !.inited = TRUE]
        PROVE  TargetsInv'
    <3>1. EntryOK(tlist') /\ tlist'.listed /\ tlist'.session = s /\ tlist'.inited
      BY <1>1, <2>2 DEF EntryOK
    <3>2. UNCHANGED <<thist, tkind>> /\ tkind \in {"tcp", "local"} /\ MayConnect(ConnectEntry)
      BY <1>2 DEF ConnectTcp, NewConnectTry
    <3>3. ~tlist.listed \/ (tlist.status # "connected" /\ ~tlist.inited)
      BY <1>1, <3>2 DEF MayConnect
    <3>4. QED
      BY <1>0, <2>2, <3>1, <3>2, <3>3, MadeKeeps
  <2>3. QED
    BY <1>2, <2>1, <2>2 DEF ConnectTcp
<1>3. CASE ConnectSerial(c)
  <2> DEFINE b == \E t \in TargetSessions : Usable(t)
  <2>1. thist' = [thist EXCEPT !.orphaned = @ \/ b] /\ b \in BOOLEAN
    BY <1>3 DEF ConnectSerial
  <2> HIDE DEF b
  <2>2. /\ DOMAIN thist' = {"raced", "gaveUp", "orphaned"}
        /\ thist'.raced <=> thist.raced
        /\ thist'.gaveUp <=> thist.gaveUp
        /\ thist'.orphaned <=> thist.orphaned \/ b
    BY <2>1, OrphanFlag DEF TargetsInv
  <2>3. tkind = "serial" /\ UNCHANGED tkind /\ (~thist'.orphaned => \A t \in TargetSessions : ~Usable(t))
    BY <1>3, <2>2 DEF ConnectSerial, NewConnectTry, b
  <2>4. EntryOK(tlist') /\ tlist'.session = NoSession /\ tlist'.listed
    BY <1>3 DEF ConnectSerial, Detected, EntryOK, EntryStatus
  <2>5. CASE UNCHANGED tsess
    <3>1. TargetsTypeOK'
      BY <2>2, <2>3, <2>4, <2>5 DEF TargetsInv, TargetsTypeOK, ChannelsOK
    <3>2. EntriesFit'
      BY <2>3, <2>4, <2>5 DEF TargetsInv, EntriesFit, ChannelsOK
    <3>3. ListedIsUsable'
      BY <2>4 DEF ListedIsUsable
    <3>4. OneUsable'
      BY <2>2, <2>3, <2>5 DEF OneUsable, TargetsInv, Usable
    <3>5. WorkingIsListed'
      BY <2>2, <2>3, <2>5 DEF WorkingIsListed, WritesOrdered, Usable
    <3>6. QED
      BY <3>1, <3>2, <3>3, <3>4, <3>5 DEF TargetsInv
  <2>6. ASSUME NEW s \in TargetSessions, Fresh(s), tsess' = [tsess EXCEPT ![s].state = "made"]
        PROVE  TargetsInv'
    BY <2>2, <2>3, <2>4, <2>6, MadeKeeps
  <2>7. QED
    BY <1>3, <2>5, <2>6 DEF ConnectSerial
<1>4. CASE tkind = "usb" /\ UNCHANGED <<tlist, tsess, thist>>
  BY <1>4, EntryKept DEF NewConnectTry
<1>5. CASE tlist' = ConnectEntry /\ UNCHANGED <<tsess, thist>>
  BY <1>5, <1>1, EntryKept DEF NewConnectTry
<1>6. QED
  BY <1>2, <1>3, <1>4, <1>5 DEF NewConnectTry

\* PreConnect: the transport is up, the entry follows it for USB and serial.
LEMMA PreConnectKeeps ==
    ASSUME TargetsInv, ChannelsOK', NEW s \in TargetSessions, PreConnect(s) PROVE TargetsInv'
<1>0. DOMAIN thist = {"raced", "gaveUp", "orphaned"}
  BY DEF TargetsInv, TargetsTypeOK
<1>1. CASE Freeing([tsess EXCEPT ![s].run = FALSE], s, tlist)
  <2> DEFINE ss == [tsess EXCEPT ![s].run = FALSE]
  <2>1. SameBut(ss, s)
    BY DEF SameBut, SessionShape, TargetsInv, TargetsTypeOK
  <2> HIDE DEF ss
  <2>2. Freeing(ss, s, tlist)
    BY <1>1 DEF ss
  <2>3. QED
    BY <2>1, <2>2, FreeingKeeps DEF PreConnect
<1>2. ASSUME tkind \in {"tcp", "local"} \/ tlist.listed, tsess' = [tsess EXCEPT ![s].state = "live"],
             tlist' = CASE tkind = "usb" -> Detected("connected", s)
                        [] tkind = "serial" -> Detected("ready", s)
                        [] OTHER -> tlist,
             thist' = [thist EXCEPT !.orphaned = @ \/ (/\ tkind = "serial"
                                                       /\ tlist.session \notin {NoSession, s})]
      PROVE  TargetsInv'
  <2> DEFINE b == tkind = "serial" /\ tlist.session \notin {NoSession, s}
  <2>1. thist' = [thist EXCEPT !.orphaned = @ \/ b] /\ b \in BOOLEAN
    BY <1>2
  <2> HIDE DEF b
  <2>2. /\ DOMAIN thist' = {"raced", "gaveUp", "orphaned"}
        /\ thist'.raced <=> thist.raced
        /\ thist'.gaveUp <=> thist.gaveUp
        /\ thist'.orphaned <=> thist.orphaned \/ b
    BY <2>1, OrphanFlag DEF TargetsInv
  <2>3. /\ DOMAIN tsess' = TargetSessions /\ \A t \in TargetSessions : t # s => tsess'[t] = tsess[t]
        /\ SessionShape(tsess'[s]) /\ tsess'[s].state = "live" /\ tsess'[s].upd = tsess[s].upd
        /\ (tsess'[s].shook <=> tsess[s].shook) /\ (tsess'[s].run <=> tsess[s].run)
        /\ tsess[s].state = "made"
    BY <1>2 DEF TargetsInv, TargetsTypeOK, SessionShape, PreConnect
  <2>4. tkind \in {"tcp", "local"} => tlist' = tlist
    BY <1>2
  <2>5. tkind \notin {"tcp", "local"} => /\ EntryOK(tlist') /\ tlist'.listed /\ tlist'.session = s
    <3>1. CASE tkind = "usb"
      <4>1. tlist' = Detected("connected", s)
        BY <1>2, <3>1
      <4>2. QED
        BY <4>1 DEF Detected, EntryOK, EntryStatus
    <3>2. CASE tkind = "serial"
      <4>1. tlist' = Detected("ready", s)
        BY <1>2, <3>2
      <4>2. QED
        BY <4>1 DEF Detected, EntryOK, EntryStatus
    <3>3. QED
      BY <3>1, <3>2 DEF TargetsInv, TargetsTypeOK
  <2>6. tkind' = tkind
    BY DEF PreConnect
  <2>7. TargetsTypeOK'
    BY <2>2, <2>3, <2>4, <2>5, <2>6 DEF TargetsInv, TargetsTypeOK, ChannelsOK, SessionShape
  <2>8. EntriesFit'
    BY <2>3, <2>4, <2>5, <2>6 DEF TargetsInv, EntriesFit, ChannelsOK
  <2>9. ListedIsUsable'
    BY <2>2, <2>3, <2>4, <2>5 DEF TargetsInv, TargetsTypeOK, EntryOK, ListedIsUsable, Usable
  <2>10. OneUsable'
    BY <2>2, <2>3, <2>6 DEF TargetsInv, OneUsable, Usable
  <2>11. WorkingIsListed'
    <3>1. CASE tkind \in {"tcp", "local"}
      BY <3>1, <2>2, <2>3, <2>4, <2>6 DEF TargetsInv, WorkingIsListed, WritesOrdered, EntriesFit
    <3>2. CASE tkind \notin {"tcp", "local"}
      BY <3>2, <2>2, <2>3, <2>5, <2>6, <2>8, <2>10
         DEF TargetsInv, WorkingIsListed, WritesOrdered, EntriesFit, OneUsable, Usable
    <3>3. QED
      BY <3>1, <3>2
  <2>12. QED
    BY <2>7, <2>8, <2>9, <2>10, <2>11 DEF TargetsInv
<1>3. QED
  BY <1>1, <1>2 DEF PreConnect

\* UpdateHdiInfo, the copy of the entry that the worker takes.
LEMMA CopyKeeps ==
    ASSUME TargetsInv, ChannelsOK', NEW s \in TargetSessions, UpdateHdiInfoCopy(s) PROVE TargetsInv'
<1> DEFINE u == [tlist EXCEPT !.inited = FALSE, !.status = "connected"]
<1>1. EntryOK(u) /\ u.listed /\ u.status = "connected" /\ u # NotListed
  BY DEF TargetsInv, TargetsTypeOK, EntryOK, EntryStatus, UpdateHdiInfoCopy, NotListed
<1>2. tsess' = [tsess EXCEPT ![s].shook = TRUE, ![s].upd = u]
  BY DEF UpdateHdiInfoCopy
<1> HIDE DEF u
<1>3. /\ DOMAIN tsess' = TargetSessions /\ \A t \in TargetSessions : t # s => tsess'[t] = tsess[t]
      /\ SessionShape(tsess'[s]) /\ tsess'[s].state = "live" /\ tsess'[s].upd = u /\ tsess[s].state = "live"
      /\ (tsess'[s].run <=> tsess[s].run) /\ UNCHANGED <<tkind, tlist, thist>>
  BY <1>1, <1>2 DEF TargetsInv, TargetsTypeOK, SessionShape, UpdateHdiInfoCopy
<1>4. TargetsTypeOK'
  BY <1>3 DEF TargetsInv, TargetsTypeOK, SessionShape, ChannelsOK
<1>5. EntriesFit'
  BY <1>1, <1>3 DEF TargetsInv, EntriesFit, ChannelsOK
<1>6. ListedIsUsable'
  BY <1>3 DEF TargetsInv, TargetsTypeOK, EntryOK, ListedIsUsable, Usable
<1>7. OneUsable'
  BY <1>3 DEF TargetsInv, OneUsable, Usable
<1>8. WorkingIsListed'
  BY <1>1, <1>3 DEF TargetsInv, WorkingIsListed, WritesOrdered
<1>9. QED
  BY <1>4, <1>5, <1>6, <1>7, <1>8 DEF TargetsInv

\* UpdateHdiInfo, the copy written back: it may be older than the entry.
LEMMA WriteKeeps ==
    ASSUME TargetsInv, ChannelsOK', NEW s \in TargetSessions, UpdateHdiInfoWrite(s) PROVE TargetsInv'
<1> DEFINE b == tsess[s].state = "dead" \/ tlist.session # tsess[s].upd.session
<1>1. thist' = [thist EXCEPT !.raced = @ \/ b] /\ b \in BOOLEAN
  BY DEF UpdateHdiInfoWrite
<1> HIDE DEF b
<1>2. /\ DOMAIN thist' = {"raced", "gaveUp", "orphaned"}
      /\ thist'.raced <=> thist.raced \/ b
      /\ thist'.gaveUp <=> thist.gaveUp
      /\ thist'.orphaned <=> thist.orphaned
  BY <1>1, RaceFlag DEF TargetsInv
<1>3. ~thist'.raced => ~thist.raced /\ tsess[s].state # "dead" /\ tlist.session = tsess[s].upd.session
  BY <1>2 DEF b
<1>4. /\ DOMAIN tsess' = TargetSessions /\ \A t \in TargetSessions : t # s => tsess'[t] = tsess[t]
      /\ SessionShape(tsess'[s]) /\ tsess'[s].state = tsess[s].state /\ tsess'[s].upd = NotListed
      /\ (tsess'[s].run <=> tsess[s].run) /\ (tsess'[s].shook <=> tsess[s].shook) /\ UNCHANGED tkind
  <2>1. EntryOK(NotListed)
    BY DEF EntryOK, NotListed, EntryStatus
  <2>2. tsess' = [tsess EXCEPT ![s].upd = NotListed] /\ UNCHANGED tkind
    BY DEF UpdateHdiInfoWrite
  <2>3. QED
    BY <2>1, <2>2 DEF TargetsInv, TargetsTypeOK, SessionShape
<1>5. tsess[s].upd.listed /\ tsess[s].upd.status = "connected" /\ EntryOK(tsess[s].upd)
  BY DEF UpdateHdiInfoWrite, TargetsInv, EntriesFit, TargetsTypeOK
<1>6. EntryOK(tlist') /\ (tlist'.listed <=> tlist.listed)
      /\ (tlist.listed => tlist' = tsess[s].upd) /\ (~tlist.listed => tlist' = tlist)
  <2>1. CASE tlist.listed
    BY <1>5, <2>1 DEF UpdateHdiInfoWrite, AdminDaemonMapUpdate
  <2>2. CASE ~tlist.listed
    BY <2>2 DEF UpdateHdiInfoWrite, AdminDaemonMapUpdate, TargetsInv, TargetsTypeOK
  <2>3. QED
    BY <2>1, <2>2
<1>7. TargetsTypeOK'
  BY <1>2, <1>4, <1>6 DEF TargetsInv, TargetsTypeOK, SessionShape, ChannelsOK
<1>8. EntriesFit'
  BY <1>4, <1>5, <1>6 DEF TargetsInv, EntriesFit, ChannelsOK
<1>9. ListedIsUsable'
  BY <1>3, <1>4, <1>6 DEF TargetsInv, TargetsTypeOK, EntryOK, ListedIsUsable, Usable
<1>10. OneUsable'
  BY <1>2, <1>4 DEF TargetsInv, OneUsable, Usable
<1>11. WorkingIsListed'
  BY <1>2, <1>3, <1>4, <1>5, <1>6 DEF TargetsInv, WorkingIsListed, WritesOrdered
<1>12. QED
  BY <1>7, <1>8, <1>9, <1>10, <1>11 DEF TargetsInv

\* The connection is lost: the session begins to end.
LEMMA LostKeeps ==
    ASSUME TargetsInv, ChannelsOK', NEW s \in TargetSessions, TargetLost(s) PROVE TargetsInv'
<1>0. EntryOK(tlist) /\ DOMAIN thist = {"raced", "gaveUp", "orphaned"}
  BY DEF TargetsInv, TargetsTypeOK
<1>1. /\ DOMAIN tsess' = TargetSessions /\ \A t \in TargetSessions : t # s => tsess'[t] = tsess[t]
      /\ SessionShape(tsess'[s]) /\ tsess'[s].state = tsess[s].state /\ tsess'[s].upd = tsess[s].upd
      /\ ~tsess'[s].run /\ (tsess'[s].shook <=> tsess[s].shook) /\ UNCHANGED tkind
  BY DEF TargetsInv, TargetsTypeOK, SessionShape, TargetLost
<1>2. CASE tkind = "serial"
  <2> DEFINE a == tsess[s].state = "dead"
             b == tlist.session \notin {NoSession, s}
  <2>1. thist' = [thist EXCEPT !.raced = @ \/ a, !.orphaned = @ \/ b] /\ a \in BOOLEAN /\ b \in BOOLEAN
    BY <1>2 DEF TargetLost
  <2> HIDE DEF a, b
  <2>2. /\ DOMAIN thist' = {"raced", "gaveUp", "orphaned"}
        /\ thist'.raced <=> thist.raced \/ a
        /\ thist'.gaveUp <=> thist.gaveUp
        /\ thist'.orphaned <=> thist.orphaned \/ b
    BY <1>0, <2>1
  <2>3. ~thist'.raced => ~thist.raced /\ tsess[s].state = "live"
    BY <2>2 DEF a, TargetLost
  <2>4. EntryOK(tlist') /\ tlist'.listed /\ tlist'.session = s
    <3>1. tlist' = Detected("offline", s)
      BY <1>2 DEF TargetLost
    <3>2. QED
      BY <3>1 DEF Detected, EntryOK, EntryStatus
  <2>5. TargetsTypeOK'
    BY <1>1, <2>2, <2>4 DEF TargetsInv, TargetsTypeOK, SessionShape, ChannelsOK
  <2>6. EntriesFit'
    BY <1>1, <2>4 DEF TargetsInv, EntriesFit, ChannelsOK
  <2>7. ListedIsUsable'
    BY <1>1, <2>3, <2>4 DEF ListedIsUsable, Usable
  <2>8. OneUsable'
    BY <1>1, <2>2 DEF TargetsInv, OneUsable, Usable
  <2>9. WorkingIsListed'
    BY <1>1, <1>2, <2>2, <2>3, <2>8 DEF WorkingIsListed, WritesOrdered, OneUsable, Usable
  <2>10. QED
    BY <2>5, <2>6, <2>7, <2>8, <2>9 DEF TargetsInv
<1>3. CASE tkind # "serial"
  <2>1. UNCHANGED <<tlist, thist>>
    BY <1>3 DEF TargetLost
  <2>5. TargetsTypeOK'
    BY <1>1, <2>1 DEF TargetsInv, TargetsTypeOK, SessionShape, ChannelsOK
  <2>6. EntriesFit'
    BY <1>1, <2>1 DEF TargetsInv, EntriesFit, ChannelsOK
  <2>7. ListedIsUsable'
    BY <1>0, <1>1, <2>1 DEF TargetsInv, EntryOK, ListedIsUsable, Usable
  <2>8. OneUsable'
    BY <1>1, <2>1 DEF TargetsInv, OneUsable, Usable
  <2>9. WorkingIsListed'
    BY <1>1, <2>1 DEF TargetsInv, WorkingIsListed, WritesOrdered
  <2>10. QED
    BY <2>5, <2>6, <2>7, <2>8, <2>9 DEF TargetsInv
<1>4. QED
  BY <1>2, <1>3

\* The session of a target whose device has left is freed.
LEMMA FreeTargetKeeps ==
    ASSUME TargetsInv, ChannelsOK', NEW s \in TargetSessions, FreeTarget(s) PROVE TargetsInv'
<1> DEFINE ss == [tsess EXCEPT ![s].pend = FALSE]
<1>1. SameBut(ss, s)
  BY DEF SameBut, SessionShape, TargetsInv, TargetsTypeOK
<1> HIDE DEF ss
<1>2. Freeing(ss, s, tlist)
  BY DEF ss, FreeTarget
<1>3. QED
  BY <1>1, <1>2, FreeingKeeps DEF FreeTarget

\* The last step of FreeSession forgets the session.
LEMMA DeletedKeeps ==
    ASSUME TargetsInv, ChannelsOK', NEW s \in TargetSessions, TargetDeleted(s) PROVE TargetsInv'
<1>1. /\ DOMAIN tsess' = TargetSessions /\ \A t \in TargetSessions : t # s => tsess'[t] = tsess[t]
      /\ SessionShape(tsess'[s]) /\ tsess'[s].state = "gone" /\ tsess'[s].upd = NotListed
      /\ tsess[s].state = "dead" /\ UNCHANGED <<tkind, tlist, thist>>
  BY DEF TargetsInv, TargetsTypeOK, SessionShape, TargetDeleted
<1>2. TargetsTypeOK'
  BY <1>1 DEF TargetsInv, TargetsTypeOK, SessionShape, ChannelsOK
<1>3. EntriesFit'
  BY <1>1 DEF TargetsInv, EntriesFit, ChannelsOK
<1>4. ListedIsUsable'
  BY <1>1 DEF TargetsInv, TargetsTypeOK, EntryOK, ListedIsUsable, Usable
<1>5. OneUsable'
  BY <1>1 DEF TargetsInv, OneUsable, Usable
<1>6. WorkingIsListed'
  BY <1>1 DEF TargetsInv, WorkingIsListed, WritesOrdered
<1>7. QED
  BY <1>2, <1>3, <1>4, <1>5, <1>6 DEF TargetsInv

\* The session of a listed entry is freed on behalf of a client.
LEMMA FreeListedKeeps ==
    ASSUME TargetsInv, ChannelsOK', tlist.session # NoSession, Freeing(tsess, tlist.session, tlist),
           UNCHANGED tkind
    PROVE  TargetsInv'
<1>1. tlist.session \in TargetSessions
  BY DEF TargetsInv, TargetsTypeOK, EntryOK
<1>2. SameBut(tsess, tlist.session)
  BY <1>1 DEF SameBut, SessionShape, TargetsInv, TargetsTypeOK
<1>3. QED
  BY <1>1, <1>2, FreeingKeeps

\* The answer to a channel that waits for its connection.
LEMMA ResultKeeps ==
    ASSUME TargetsInv, ChannelsOK', NEW c \in TargetChannels, OrderConnecTargetResult(c) PROVE TargetsInv'
<1>0. UNCHANGED tkind
  BY DEF OrderConnecTargetResult
<1>1. CASE ConnectOk(c)
  BY <1>0, <1>1, FreeListedKeeps, EntryKept DEF ConnectOk
<1>2. CASE PollAgain(c)
  BY <1>0, <1>2, EntryKept DEF PollAgain
<1>3. CASE ConnectFailed(c)
  <2> DEFINE b == tlist.listed /\ ~IsDisconnect(tlist)
  <2>1. thist' = [thist EXCEPT !.gaveUp = @ \/ b] /\ b \in BOOLEAN /\ UNCHANGED <<tkind, tsess>>
    BY <1>0, <1>3 DEF ConnectFailed
  <2> HIDE DEF b
  <2>2. /\ DOMAIN thist' = {"raced", "gaveUp", "orphaned"}
        /\ thist'.raced <=> thist.raced
        /\ thist'.gaveUp <=> thist.gaveUp \/ b
        /\ thist'.orphaned <=> thist.orphaned
    BY <2>1 DEF TargetsInv, TargetsTypeOK
  <2>3. ~thist'.gaveUp => ~thist.gaveUp /\ (~tlist.listed \/ IsDisconnect(tlist))
    BY <2>2 DEF b
  <2>4. EntryOK(tlist') /\ tlist'.session = tlist.session /\ (tlist'.listed <=> tlist.listed)
    <3>1. CASE tlist.listed
      <4>1. tlist' = [tlist EXCEPT !.inited = FALSE, !.status = "offline"]
        BY <1>3, <3>1 DEF ConnectFailed, AdminDaemonMapUpdate
      <4>2. QED
        BY <4>1 DEF TargetsInv, TargetsTypeOK, EntryOK, EntryStatus
    <3>2. CASE ~tlist.listed
      <4>1. tlist' = tlist
        BY <1>3, <3>2 DEF ConnectFailed, AdminDaemonMapUpdate
      <4>2. QED
        BY <4>1 DEF TargetsInv, TargetsTypeOK
    <3>3. QED
      BY <3>1, <3>2
  <2>5. TargetsTypeOK'
    BY <2>1, <2>2, <2>4 DEF TargetsInv, TargetsTypeOK, ChannelsOK
  <2>6. EntriesFit'
    BY <2>1, <2>4 DEF TargetsInv, EntriesFit, ChannelsOK
  <2>7. ListedIsUsable'
    BY <2>1, <2>2, <2>4 DEF TargetsInv, ListedIsUsable, Usable
  <2>8. OneUsable'
    BY <2>1, <2>2 DEF TargetsInv, OneUsable, Usable
  <2>9. WorkingIsListed'
    BY <2>1, <2>2, <2>3 DEF TargetsInv, WorkingIsListed, WritesOrdered, IsDisconnect
  <2>10. QED
    BY <2>5, <2>6, <2>7, <2>8, <2>9 DEF TargetsInv
<1>4. QED
  BY <1>1, <1>2, <1>3 DEF OrderConnecTargetResult

\* Every step keeps the channels in shape.
LEMMA ChannelsStep ==
    ASSUME TargetsInv, [TargetsNext]_targetVars PROVE ChannelsOK'
<1>0. ChannelsOK
  BY DEF TargetsInv, TargetsTypeOK, EntriesFit, ChannelsOK
<1>1. CASE UNCHANGED <<tkind, tchan>>
  BY <1>0, <1>1 DEF ChannelsOK
<1>2. ASSUME NEW c \in TargetChannels, Answered(c), UNCHANGED tkind PROVE ChannelsOK'
  BY <1>0, <1>2, ChannelAnswered
<1>3. ASSUME NEW c \in TargetChannels, NEW chk \in BOOLEAN, NewConnectTry(c, chk) PROVE ChannelsOK'
  <2>1. CASE /\ tchan' = [tchan EXCEPT ![c] = [st |-> "polling", check |-> chk, count |-> 0]]
             /\ tkind \in {"tcp", "local"}
    <3>1. UNCHANGED tkind
      BY <1>3 DEF NewConnectTry
    <3>2. QED
      BY <1>0, <2>1, <3>1, TargetBounds DEF ChannelsOK
  <2>2. CASE Answered(c)
    BY <1>2, <1>3, <2>2 DEF NewConnectTry
  <2>3. QED
    BY <1>3, <2>1, <2>2 DEF NewConnectTry, ConnectTcp, ConnectSerial
<1>4. ASSUME NEW c \in TargetChannels, OrderConnecTargetResult(c) PROVE ChannelsOK'
  <2>1. CASE tchan' = [tchan EXCEPT ![c].count = @ + 1] /\ tchan[c].count < MaxPolls
    <3>1. UNCHANGED tkind
      BY <1>4 DEF OrderConnecTargetResult
    <3>2. QED
      BY <1>0, <2>1, <3>1, TargetBounds DEF ChannelsOK
  <2>2. CASE Answered(c)
    BY <1>2, <1>4, <2>2 DEF OrderConnecTargetResult
  <2>3. QED
    BY <1>4, <2>1, <2>2 DEF OrderConnecTargetResult, ConnectOk, ConnectFailed, PollAgain
<1>5. ASSUME NEW c \in TargetChannels, ChannelReused(c) PROVE ChannelsOK'
  BY <1>0, <1>5, TargetBounds DEF ChannelsOK, ChannelReused
<1>6. ASSUME NEW c \in TargetChannels, CommandRemoveSession(c) \/ CommandReconnectTarget(c) PROVE ChannelsOK'
  BY <1>2, <1>6 DEF CommandRemoveSession, CommandReconnectTarget
<1>7. CASE UNCHANGED targetVars
  BY <1>1, <1>7 DEF targetVars
<1>8. QED
  BY <1>1, <1>3, <1>4, <1>5, <1>6, <1>7
     DEF TargetsNext, OrderFindTargets, WatchUartDevPlugin, DeviceFound, PreConnect, UpdateHdiInfoCopy,
         UpdateHdiInfoWrite, TargetLost, FreeTarget, TargetDeleted

\* Every step keeps the inductive invariant of TargetsListed.
LEMMA TargetsStepInv ==
    ASSUME TargetsInv, [TargetsNext]_targetVars PROVE TargetsInv'
<1>0. ChannelsOK'
  BY ChannelsStep
<1>1. CASE OrderFindTargets
  <2>1. CASE tlist.listed
    BY <1>0, <1>1, <2>1, EntryKept DEF OrderFindTargets, AdminDaemonMapAdd
  <2>2. CASE ~tlist.listed
    <3>1. tlist' = Detected("ready", NoSession)
      BY <1>1, <2>2 DEF OrderFindTargets, AdminDaemonMapAdd
    <3>2. EntryOK(tlist') /\ tlist'.session = NoSession
      BY <3>1 DEF Detected, EntryOK, EntryStatus
    <3>3. tlist.session = NoSession
      BY <2>2 DEF TargetsInv, EntriesFit
    <3>4. QED
      BY <1>0, <1>1, <3>2, <3>3, EntryKept DEF OrderFindTargets
  <2>3. QED
    BY <2>1, <2>2
<1>2. CASE WatchUartDevPlugin
  <2>1. tlist.session = NoSession
    BY <1>2 DEF WatchUartDevPlugin, MayRemovePort, TargetsInv, EntriesFit
  <2>2. EntryOK(tlist') /\ tlist'.session = NoSession
    BY <1>2 DEF WatchUartDevPlugin, AdminDaemonMapRemove, Detected, NotListed, EntryOK, EntryStatus
  <2>3. QED
    BY <1>0, <1>2, <2>1, <2>2, EntryKept DEF WatchUartDevPlugin
<1>3. ASSUME NEW c \in TargetChannels, CommandRemoveSession(c) PROVE TargetsInv'
  BY <1>0, <1>3, FreeListedKeeps DEF CommandRemoveSession
<1>4. ASSUME NEW c \in TargetChannels, CommandReconnectTarget(c) PROVE TargetsInv'
  <2>1. CASE tlist.session # NoSession
    BY <1>0, <1>4, <2>1, FreeListedKeeps DEF CommandReconnectTarget
  <2>2. CASE tlist.session = NoSession
    BY <1>0, <1>4, <2>2, EntryKept DEF CommandReconnectTarget
  <2>3. QED
    BY <2>1, <2>2
<1>5. ASSUME NEW c \in TargetChannels, ChannelReused(c) PROVE TargetsInv'
  BY <1>0, <1>5, EntryKept DEF ChannelReused
<1>6. CASE UNCHANGED targetVars
  BY <1>0, <1>6, EntryKept DEF targetVars
<1>7. QED
  BY <1>0, <1>1, <1>2, <1>3, <1>4, <1>5, <1>6, NewConnectTryKeeps, ResultKeeps, DeviceFoundKeeps,
     PreConnectKeeps, CopyKeeps, WriteKeeps, LostKeeps, FreeTargetKeeps, DeletedKeeps DEF TargetsNext

\* An empty list satisfies the inductive invariant.
LEMMA TargetsInitInv == TargetsInit => TargetsInv
<1> SUFFICES ASSUME TargetsInit PROVE TargetsInv
  OBVIOUS
<1>0. EntryOK(NotListed)
  BY DEF EntryOK, NotListed, EntryStatus
<1>1. TargetsTypeOK
  BY <1>0, TargetBounds DEF TargetsInit, TargetsTypeOK
<1>2. EntriesFit
  BY DEF TargetsInit, EntriesFit, NotListed
<1>3. ListedIsUsable
  BY DEF TargetsInit, ListedIsUsable, NotListed
<1>4. OneUsable /\ WorkingIsListed
  BY DEF TargetsInit, OneUsable, WorkingIsListed, Usable
<1>5. QED
  BY <1>1, <1>2, <1>3, <1>4 DEF TargetsInv

\* TargetsListed for any number of sessions and channels: the list leads to no deleted
\* session and to every one that works, outside the late writes the history records.
THEOREM TargetsAreListed == TargetsSpec => []TargetsListed
<1>1. TargetsInv => TargetsListed
  <2> SUFFICES ASSUME TargetsInv PROVE TargetsListed
    OBVIOUS
  <2>1. ListedSessionExists
    BY DEF TargetsInv, ListedIsUsable, ListedSessionExists, Usable
  <2>2. OneSessionPerTarget
    BY DEF TargetsInv, WorkingIsListed, OneSessionPerTarget, Usable
  <2>3. ConnectedIsListed
    BY DEF TargetsInv, WorkingIsListed, ConnectedIsListed, Visible
  <2>4. QED
    BY <2>1, <2>2, <2>3 DEF TargetsInv, TargetsListed
<1>2. QED
  BY <1>1, TargetsInitInv, TargetsStepInv, PTL DEF TargetsSpec

-----------------------------------------------------------------------------
(* The subservers                                                          *)

\* The first states of the subservers satisfy the inductive invariant.
LEMMA SubserverInitInv == SubserverInit => SubserverInv
  BY SubserverBound DEF SubserverInit, SubserverInv, SubserverTypeOK, RegisteredIsFindable, Subs, NoSub, Running,
                         Starting, Suspends

\* The part of the invariant that speaks of the main server.
MainOK(m) ==
    /\ DOMAIN m = {"plat", "own", "ignore", "delays", "early", "readers", "map"}
    /\ m.plat = smain.plat /\ m.own \in {"none", "open", "closing"}
    /\ m.ignore \in {"no", "register", "ignore", "suspended"} /\ m.map \in {NoSub} \cup Subs
    /\ m.delays \in Seq({"ignore", "suspended"}) /\ m.early \in BOOLEAN /\ m.readers \in Nat
Suspended(m) == Suspends(m.delays) /\ ~m.early => m.own # "open" /\ m.ignore = "suspended"

\* A timer of ReviewUsbNodeLater that is no handover's makes none.
LEMMA AppendedTimer ==
    ASSUME NEW d \in Seq({"ignore", "suspended"}), Suspends(Append(d, "ignore"))
    PROVE  Suspends(d)
<1>1. PICK j \in DOMAIN Append(d, "ignore") : Append(d, "ignore")[j] = "suspended"
  BY DEF Suspends
<1>2. j \in 1..(Len(d) + 1) /\ Len(d) \in Nat
  BY <1>1
<1>3. j # Len(d) + 1
  BY <1>1, <1>2
<1>4. j \in DOMAIN d /\ d[j] = "suspended"
  BY <1>1, <1>2, <1>3
<1> QED BY <1>4 DEF Suspends

\* What the invariant says of the main server.
LEMMA MainIs ==
    ASSUME SubserverInv
    PROVE  MainOK(smain) /\ Suspended(smain)
  BY DEF SubserverInv, SubserverTypeOK, MainOK, Suspended

\* A step of the main server alone.
LEMMA MainKeeps ==
    ASSUME SubserverInv, MainOK(smain'), Suspended(smain'), UNCHANGED <<sproc, spids, skill>>
    PROVE  SubserverInv'
<1>1. SubserverTypeOK'
  BY DEF SubserverInv, SubserverTypeOK, MainOK
<1>2. RegisteredIsFindable'
  BY DEF SubserverInv, RegisteredIsFindable, MainOK
<1> QED BY <1>1, <1>2 DEF SubserverInv, Suspended

\* The main server: its scans, its sessions and its timers.
LEMMA MainStepInv ==
    ASSUME SubserverInv,
           DelayDo \/ MainScans \/ MainLosesDevice \/ MainReaderEnds \/ MainFreed \/ CommandReconnects \/ CommandAsks
    PROVE  SubserverInv'
<1>0. MainOK(smain) /\ Suspended(smain)
  BY MainIs
<1>1. UNCHANGED <<sproc, spids, skill>>
  BY DEF DelayDo, MainScans, MainLosesDevice, MainReaderEnds, MainFreed, CommandReconnects, CommandAsks
<1>2. CASE DelayDo
  <2>1. /\ DOMAIN smain' = DOMAIN smain /\ smain'.plat = smain.plat /\ smain'.own = smain.own /\ smain'.ignore = "no"
        /\ smain'.map = smain.map /\ smain'.readers = smain.readers /\ smain'.delays = Tail(smain.delays)
        /\ smain'.early = (smain.early \/ Suspends(Tail(smain.delays)))
    BY <1>0, <1>2 DEF DelayDo, MainOK
  <2>2. Tail(smain.delays) \in Seq({"ignore", "suspended"})
    BY <1>0, <1>2 DEF DelayDo, MainOK
  <2>3. MainOK(smain')
    BY <1>0, <2>1, <2>2 DEF MainOK
  <2>4. Suspended(smain')
    BY <2>1 DEF Suspended
  <2> QED BY <1>1, <2>3, <2>4, MainKeeps
<1>3. CASE MainScans
  <2>0. ~(Suspends(smain.delays) /\ ~smain.early)
    BY <1>0, <1>3 DEF MainScans, Suspended
  <2>1. CASE smain' = [smain EXCEPT !.own = "open", !.ignore = "register", !.readers = @ + 1]
    <3>1. MainOK(smain')
      BY <1>0, <2>1 DEF MainOK
    <3>2. Suspended(smain')
      BY <1>0, <2>0, <2>1 DEF MainOK, Suspended
    <3> QED BY <1>1, <3>1, <3>2, MainKeeps
  <2>2. CASE smain' = MainReviewUsbNode(smain, "ignore")
    <3>1. /\ DOMAIN smain' = DOMAIN smain /\ smain'.plat = smain.plat /\ smain'.own = smain.own
          /\ smain'.ignore = "ignore" /\ smain'.map = smain.map /\ smain'.readers = smain.readers
          /\ smain'.delays = Append(smain.delays, "ignore") /\ smain'.early = smain.early
      BY <1>0, <2>2 DEF MainReviewUsbNode, MainOK
    <3>2. Append(smain.delays, "ignore") \in Seq({"ignore", "suspended"})
      BY <1>0 DEF MainOK
    <3>3. MainOK(smain')
      BY <1>0, <3>1, <3>2 DEF MainOK
    <3>4. Suspended(smain')
      BY <1>0, <2>0, <3>1, AppendedTimer DEF Suspended, MainOK
    <3> QED BY <1>1, <3>3, <3>4, MainKeeps
  <2> QED BY <1>3, <2>1, <2>2 DEF MainScans
<1>4. CASE MainLosesDevice \/ MainFreed \/ CommandReconnects
  <2>1. MainOK(smain')
    BY <1>0, <1>4 DEF MainLosesDevice, MainFreed, CommandReconnects, MainOK
  <2>2. Suspended(smain')
    BY <1>0, <1>4 DEF MainLosesDevice, MainFreed, CommandReconnects, MainOK, Suspended
  <2> QED BY <1>1, <2>1, <2>2, MainKeeps
<1>5. CASE MainReaderEnds
  <2>1. MainOK(smain')
    BY <1>0, <1>5 DEF MainReaderEnds, MainRemoveIgnore, MainOK
  <2>2. Suspended(smain')
    BY <1>0, <1>5 DEF MainReaderEnds, MainRemoveIgnore, MainOK, Suspended
  <2> QED BY <1>1, <2>1, <2>2, MainKeeps
<1>6. CASE CommandAsks
  <2>1. MainOK(smain')
    BY <1>0, <1>6 DEF CommandAsks, MainOK
  <2>2. Suspended(smain')
    BY <1>0, <1>6 DEF CommandAsks, MainOK, Suspended
  <2> QED BY <1>1, <2>1, <2>2, MainKeeps
<1> QED BY <1>2, <1>3, <1>4, <1>5, <1>6

\* What the invariant says of the processes, the pid file and its readers.
ProcessesOK ==
    /\ DOMAIN sproc = Subs
    /\ \A p \in Subs : DOMAIN sproc[p] = {"st", "reg"} /\ sproc[p].st \in {"none", "gone"} \cup Running
    /\ DOMAIN spids = {"file", "lock", "copy", "torn"} /\ DOMAIN skill = {"busy", "list"}
    /\ spids.lock \in {NoSub} \cup Subs
    /\ spids.file \subseteq Subs /\ spids.copy \subseteq Subs /\ skill.list \subseteq Subs
    /\ RegisteredIsFindable
    /\ \A p \in Subs : sproc[p].st = "filtering" =>
         spids.lock = p /\ \A q \in Subs : q # p /\ q \in spids.file => q \in spids.copy
    /\ \A p \in Subs : sproc[p].st \in {"none", "started"} => ~sproc[p].reg
    /\ ~skill.busy => skill.list = {}

\* The two parts make the invariant.
LEMMA SubserverParts ==
    ASSUME SubserverInv
    PROVE  /\ ProcessesOK
           /\ ProcessesOK' /\ MainOK(smain') /\ Suspended(smain') => SubserverInv'
<1>1. ProcessesOK
  BY DEF SubserverInv, SubserverTypeOK, ProcessesOK
<1>2. ASSUME ProcessesOK', MainOK(smain'), Suspended(smain') PROVE SubserverInv'
  <2>1. SubserverTypeOK'
    BY <1>2 DEF SubserverInv, SubserverTypeOK, MainOK, ProcessesOK
  <2> QED BY <1>2, <2>1 DEF SubserverInv, Suspended, ProcessesOK
<1> QED BY <1>1, <1>2

\* A step that leaves the main server alone.
LEMMA ProcessKeeps ==
    ASSUME SubserverInv, ProcessesOK', UNCHANGED smain
    PROVE  SubserverInv'
<1>1. MainOK(smain) /\ Suspended(smain)
  BY MainIs
<1>2. MainOK(smain') /\ Suspended(smain')
  BY <1>1
<1> QED BY <1>2, SubserverParts

\* A process that dies gives the lock back, and loses nothing of the file unless
\* it was writing it.
LEMMA SubDiesEffect ==
    ASSUME ProcessesOK, NEW p \in Subs, SubDies(p)
    PROVE  /\ sproc' = [sproc EXCEPT ![p] = [st |-> "gone", reg |-> FALSE]] /\ sproc[p].st \in Running
           /\ DOMAIN spids' = DOMAIN spids /\ spids'.file \subseteq spids.file /\ spids'.copy \subseteq Subs
           /\ sproc[p].st # "filtering" => spids' = spids
           /\ spids'.lock \in {spids.lock, NoSub}
           /\ ~spids'.torn /\ smain.plat = "linux" => ~spids.torn /\ spids'.file = spids.file
<1>1. sproc' = [sproc EXCEPT ![p] = [st |-> "gone", reg |-> FALSE]] /\ sproc[p].st \in Running
  BY DEF SubDies, Gone, Alive
<1>2. CASE sproc[p].st # "filtering"
  BY <1>1, <1>2 DEF SubDies, ProcessesOK
<1>3. CASE sproc[p].st = "filtering"
  <2>1. PICK lost \in {FALSE, smain.plat = "linux"} :
          spids' = [spids EXCEPT !.lock = NoSub, !.copy = {}, !.torn = @ \/ lost, !.file = IF lost THEN {} ELSE @]
    BY <1>3 DEF SubDies
  <2>2. DOMAIN spids' = DOMAIN spids /\ spids'.lock = NoSub /\ spids'.copy = {}
    BY <2>1 DEF ProcessesOK
  <2>3. spids'.torn <=> spids.torn \/ lost
    BY <2>1 DEF ProcessesOK
  <2>4. spids'.file = IF lost THEN {} ELSE spids.file
    BY <2>1 DEF ProcessesOK
  <2>5. QED
    BY <1>1, <1>3, <2>2, <2>3, <2>4
<1>4. QED
  BY <1>2, <1>3

\* Every step of the server, of the subservers and of their clients keeps the
\* inductive invariant.
LEMMA SubserverStepInv == SubserverInv /\ [SubserverNext]_subVars => SubserverInv'
<1> SUFFICES ASSUME SubserverInv, [SubserverNext]_subVars PROVE SubserverInv'
  OBVIOUS
<1>0. ProcessesOK /\ NoSub \notin Subs /\ MainOK(smain)
  BY SubserverParts, MainIs, SubserverBound DEF Subs, NoSub
<1> USE <1>0 DEF ProcessesOK, Become, Running, Starting
<1>1. ASSUME ReadAndClear PROVE ProcessesOK'
  <2>1. (/\ DOMAIN sproc = Subs
         /\ \A q \in Subs : DOMAIN sproc[q] = {"st", "reg"} /\ sproc[q].st \in {"none", "gone"} \cup Running)'
    BY <1>1 DEF ReadAndClear, LockFree
  <2>2. (/\ DOMAIN spids = {"file", "lock", "copy", "torn"} /\ DOMAIN skill = {"busy", "list"}
         /\ spids.lock \in {NoSub} \cup Subs
         /\ spids.file \subseteq Subs /\ spids.copy \subseteq Subs /\ skill.list \subseteq Subs)'
    BY <1>1 DEF ReadAndClear, LockFree
  <2>3. RegisteredIsFindable'
    BY <1>1 DEF ReadAndClear, LockFree, RegisteredIsFindable
  <2>4. \A q \in Subs : sproc'[q].st = "filtering" =>
          spids'.lock = q /\ \A r \in Subs : r # q /\ r \in spids'.file => r \in spids'.copy
    BY <1>1 DEF ReadAndClear, LockFree
  <2>5. \A q \in Subs : sproc'[q].st \in {"none", "started"} => ~sproc'[q].reg
    BY <1>1 DEF ReadAndClear, LockFree
  <2>6. ~skill'.busy => skill'.list = {}
    BY <1>1 DEF ReadAndClear, LockFree
  <2> QED BY <2>1, <2>2, <2>3, <2>4, <2>5, <2>6
<1>2. ASSUME KillDone PROVE ProcessesOK'
  <2>1. (/\ DOMAIN sproc = Subs
         /\ \A q \in Subs : DOMAIN sproc[q] = {"st", "reg"} /\ sproc[q].st \in {"none", "gone"} \cup Running)'
    BY <1>2 DEF KillDone
  <2>2. (/\ DOMAIN spids = {"file", "lock", "copy", "torn"} /\ DOMAIN skill = {"busy", "list"}
         /\ spids.lock \in {NoSub} \cup Subs
         /\ spids.file \subseteq Subs /\ spids.copy \subseteq Subs /\ skill.list \subseteq Subs)'
    BY <1>2 DEF KillDone
  <2>3. RegisteredIsFindable'
    BY <1>2 DEF KillDone, RegisteredIsFindable
  <2>4. \A q \in Subs : sproc'[q].st = "filtering" =>
          spids'.lock = q /\ \A r \in Subs : r # q /\ r \in spids'.file => r \in spids'.copy
    BY <1>2 DEF KillDone
  <2>5. \A q \in Subs : sproc'[q].st \in {"none", "started"} => ~sproc'[q].reg
    BY <1>2 DEF KillDone
  <2>6. ~skill'.busy => skill'.list = {}
    BY <1>2 DEF KillDone
  <2> QED BY <2>1, <2>2, <2>3, <2>4, <2>5, <2>6
<1>3. ASSUME KillerDies PROVE ProcessesOK'
  <2>1. (/\ DOMAIN sproc = Subs
         /\ \A q \in Subs : DOMAIN sproc[q] = {"st", "reg"} /\ sproc[q].st \in {"none", "gone"} \cup Running)'
    BY <1>3 DEF KillerDies
  <2>2. (/\ DOMAIN spids = {"file", "lock", "copy", "torn"} /\ DOMAIN skill = {"busy", "list"}
         /\ spids.lock \in {NoSub} \cup Subs
         /\ spids.file \subseteq Subs /\ spids.copy \subseteq Subs /\ skill.list \subseteq Subs)'
    BY <1>3 DEF KillerDies
  <2>3. RegisteredIsFindable'
    BY <1>3 DEF KillerDies, RegisteredIsFindable
  <2>4. \A q \in Subs : sproc'[q].st = "filtering" =>
          spids'.lock = q /\ \A r \in Subs : r # q /\ r \in spids'.file => r \in spids'.copy
    BY <1>3 DEF KillerDies
  <2>5. \A q \in Subs : sproc'[q].st \in {"none", "started"} => ~sproc'[q].reg
    BY <1>3 DEF KillerDies
  <2>6. ~skill'.busy => skill'.list = {}
    BY <1>3 DEF KillerDies
  <2> QED BY <2>1, <2>2, <2>3, <2>4, <2>5, <2>6
<1>4. ASSUME NEW p \in Subs, CommandSpawns(p) PROVE SubserverInv'
  <2> DEFINE m == MainReviewUsbNode([smain EXCEPT !.own = "closing", !.early = FALSE], "suspended")
  <2>a. UNCHANGED <<spids, skill>> /\ sproc[p].st = "none"
    BY <1>4 DEF CommandSpawns, FreshSub
  <2>b. \/ smain' = [m EXCEPT !.map = p] /\ sproc' = [sproc EXCEPT ![p].st = "started"]
        \/ smain' = m /\ UNCHANGED sproc
    BY <1>4 DEF CommandSpawns
  <2>c. Append(smain.delays, "suspended") \in Seq({"ignore", "suspended"})
    BY DEF MainOK
  <2>d. /\ DOMAIN m = DOMAIN smain /\ m.plat = smain.plat /\ m.own = "closing" /\ m.ignore = "suspended"
        /\ m.map = smain.map /\ m.delays = Append(smain.delays, "suspended") /\ m.early = FALSE
        /\ m.readers = smain.readers
    BY DEF MainReviewUsbNode, MainOK
  <2> HIDE DEF m
  <2>e. /\ DOMAIN smain' = DOMAIN smain /\ smain'.plat = smain.plat /\ smain'.own = "closing"
        /\ smain'.ignore = "suspended" /\ smain'.map \in {smain.map, p} /\ smain'.early = FALSE
        /\ smain'.delays = Append(smain.delays, "suspended") /\ smain'.readers = smain.readers
    BY <2>b, <2>d DEF MainOK
  <2>f. sproc' = [sproc EXCEPT ![p].st = "started"] \/ UNCHANGED sproc
    BY <2>b
  <2>g. MainOK(smain') /\ Suspended(smain')
    BY <2>c, <2>e DEF MainOK, Suspended
  <2>1. (/\ DOMAIN sproc = Subs
         /\ \A q \in Subs : DOMAIN sproc[q] = {"st", "reg"} /\ sproc[q].st \in {"none", "gone"} \cup Running)'
    BY <2>f
  <2>2. RegisteredIsFindable'
    BY <2>a, <2>e, <2>f DEF RegisteredIsFindable
  <2>3. \A q \in Subs : sproc'[q].st = "filtering" =>
          spids'.lock = q /\ \A r \in Subs : r # q /\ r \in spids'.file => r \in spids'.copy
    BY <2>a, <2>f
  <2>4. \A q \in Subs : sproc'[q].st \in {"none", "started"} => ~sproc'[q].reg
    BY <2>a, <2>f
  <2>5. ProcessesOK'
    BY <2>a, <2>1, <2>2, <2>3, <2>4
  <2> QED BY <2>5, <2>g, SubserverParts
<1>5. ASSUME NEW p \in Subs, RegisterPid(p) PROVE ProcessesOK'
  <2>1. (/\ DOMAIN sproc = Subs
         /\ \A q \in Subs : DOMAIN sproc[q] = {"st", "reg"} /\ sproc[q].st \in {"none", "gone"} \cup Running)'
    BY <1>5 DEF RegisterPid, LockFree
  <2>2. (/\ DOMAIN spids = {"file", "lock", "copy", "torn"} /\ DOMAIN skill = {"busy", "list"}
         /\ spids.lock \in {NoSub} \cup Subs
         /\ spids.file \subseteq Subs /\ spids.copy \subseteq Subs /\ skill.list \subseteq Subs)'
    BY <1>5 DEF RegisterPid, LockFree
  <2>3. RegisteredIsFindable'
    BY <1>5 DEF RegisterPid, LockFree, RegisteredIsFindable
  <2>4. \A q \in Subs : sproc'[q].st = "filtering" =>
          spids'.lock = q /\ \A r \in Subs : r # q /\ r \in spids'.file => r \in spids'.copy
    BY <1>5 DEF RegisterPid, LockFree
  <2>5. \A q \in Subs : sproc'[q].st \in {"none", "started"} => ~sproc'[q].reg
    BY <1>5 DEF RegisterPid, LockFree
  <2>6. ~skill'.busy => skill'.list = {}
    BY <1>5 DEF RegisterPid, LockFree
  <2> QED BY <2>1, <2>2, <2>3, <2>4, <2>5, <2>6
<1>6. ASSUME NEW p \in Subs, SubListens(p) PROVE ProcessesOK'
  <2>1. (/\ DOMAIN sproc = Subs
         /\ \A q \in Subs : DOMAIN sproc[q] = {"st", "reg"} /\ sproc[q].st \in {"none", "gone"} \cup Running)'
    BY <1>6 DEF SubListens
  <2>2. (/\ DOMAIN spids = {"file", "lock", "copy", "torn"} /\ DOMAIN skill = {"busy", "list"}
         /\ spids.lock \in {NoSub} \cup Subs
         /\ spids.file \subseteq Subs /\ spids.copy \subseteq Subs /\ skill.list \subseteq Subs)'
    BY <1>6 DEF SubListens
  <2>3. RegisteredIsFindable'
    BY <1>6 DEF SubListens, RegisteredIsFindable
  <2>4. \A q \in Subs : sproc'[q].st = "filtering" =>
          spids'.lock = q /\ \A r \in Subs : r # q /\ r \in spids'.file => r \in spids'.copy
    BY <1>6 DEF SubListens
  <2>5. \A q \in Subs : sproc'[q].st \in {"none", "started"} => ~sproc'[q].reg
    BY <1>6 DEF SubListens
  <2>6. ~skill'.busy => skill'.list = {}
    BY <1>6 DEF SubListens
  <2> QED BY <2>1, <2>2, <2>3, <2>4, <2>5, <2>6
<1>7. ASSUME NEW p \in Subs, SubDetects(p) PROVE ProcessesOK'
  <2>1. (/\ DOMAIN sproc = Subs
         /\ \A q \in Subs : DOMAIN sproc[q] = {"st", "reg"} /\ sproc[q].st \in {"none", "gone"} \cup Running)'
    BY <1>7 DEF SubDetects
  <2>2. (/\ DOMAIN spids = {"file", "lock", "copy", "torn"} /\ DOMAIN skill = {"busy", "list"}
         /\ spids.lock \in {NoSub} \cup Subs
         /\ spids.file \subseteq Subs /\ spids.copy \subseteq Subs /\ skill.list \subseteq Subs)'
    BY <1>7 DEF SubDetects
  <2>3. RegisteredIsFindable'
    BY <1>7 DEF SubDetects, RegisteredIsFindable
  <2>4. \A q \in Subs : sproc'[q].st = "filtering" =>
          spids'.lock = q /\ \A r \in Subs : r # q /\ r \in spids'.file => r \in spids'.copy
    BY <1>7 DEF SubDetects
  <2>5. \A q \in Subs : sproc'[q].st \in {"none", "started"} => ~sproc'[q].reg
    BY <1>7 DEF SubDetects
  <2>6. ~skill'.busy => skill'.list = {}
    BY <1>7 DEF SubDetects
  <2> QED BY <2>1, <2>2, <2>3, <2>4, <2>5, <2>6
<1>8. ASSUME NEW p \in Subs, SubConnects(p) PROVE ProcessesOK'
  <2>1. (/\ DOMAIN sproc = Subs
         /\ \A q \in Subs : DOMAIN sproc[q] = {"st", "reg"} /\ sproc[q].st \in {"none", "gone"} \cup Running)'
    BY <1>8 DEF SubConnects
  <2>2. (/\ DOMAIN spids = {"file", "lock", "copy", "torn"} /\ DOMAIN skill = {"busy", "list"}
         /\ spids.lock \in {NoSub} \cup Subs
         /\ spids.file \subseteq Subs /\ spids.copy \subseteq Subs /\ skill.list \subseteq Subs)'
    BY <1>8 DEF SubConnects
  <2>3. RegisteredIsFindable'
    BY <1>8 DEF SubConnects, RegisteredIsFindable
  <2>4. \A q \in Subs : sproc'[q].st = "filtering" =>
          spids'.lock = q /\ \A r \in Subs : r # q /\ r \in spids'.file => r \in spids'.copy
    BY <1>8 DEF SubConnects
  <2>5. \A q \in Subs : sproc'[q].st \in {"none", "started"} => ~sproc'[q].reg
    BY <1>8 DEF SubConnects
  <2>6. ~skill'.busy => skill'.list = {}
    BY <1>8 DEF SubConnects
  <2> QED BY <2>1, <2>2, <2>3, <2>4, <2>5, <2>6
<1>9. ASSUME NEW p \in Subs, SubDisconnected(p) PROVE ProcessesOK'
  <2>1. (/\ DOMAIN sproc = Subs
         /\ \A q \in Subs : DOMAIN sproc[q] = {"st", "reg"} /\ sproc[q].st \in {"none", "gone"} \cup Running)'
    BY <1>9 DEF SubDisconnected
  <2>2. (/\ DOMAIN spids = {"file", "lock", "copy", "torn"} /\ DOMAIN skill = {"busy", "list"}
         /\ spids.lock \in {NoSub} \cup Subs
         /\ spids.file \subseteq Subs /\ spids.copy \subseteq Subs /\ skill.list \subseteq Subs)'
    BY <1>9 DEF SubDisconnected
  <2>3. RegisteredIsFindable'
    BY <1>9 DEF SubDisconnected, RegisteredIsFindable
  <2>4. \A q \in Subs : sproc'[q].st = "filtering" =>
          spids'.lock = q /\ \A r \in Subs : r # q /\ r \in spids'.file => r \in spids'.copy
    BY <1>9 DEF SubDisconnected
  <2>5. \A q \in Subs : sproc'[q].st \in {"none", "started"} => ~sproc'[q].reg
    BY <1>9 DEF SubDisconnected
  <2>6. ~skill'.busy => skill'.list = {}
    BY <1>9 DEF SubDisconnected
  <2> QED BY <2>1, <2>2, <2>3, <2>4, <2>5, <2>6
<1>10. ASSUME NEW p \in Subs, ConnectTimer(p) PROVE ProcessesOK'
  <2>1. (/\ DOMAIN sproc = Subs
         /\ \A q \in Subs : DOMAIN sproc[q] = {"st", "reg"} /\ sproc[q].st \in {"none", "gone"} \cup Running)'
    BY <1>10 DEF ConnectTimer, TimerExpired
  <2>2. (/\ DOMAIN spids = {"file", "lock", "copy", "torn"} /\ DOMAIN skill = {"busy", "list"}
         /\ spids.lock \in {NoSub} \cup Subs
         /\ spids.file \subseteq Subs /\ spids.copy \subseteq Subs /\ skill.list \subseteq Subs)'
    BY <1>10 DEF ConnectTimer, TimerExpired
  <2>3. RegisteredIsFindable'
    BY <1>10 DEF ConnectTimer, TimerExpired, RegisteredIsFindable
  <2>4. \A q \in Subs : sproc'[q].st = "filtering" =>
          spids'.lock = q /\ \A r \in Subs : r # q /\ r \in spids'.file => r \in spids'.copy
    BY <1>10 DEF ConnectTimer, TimerExpired
  <2>5. \A q \in Subs : sproc'[q].st \in {"none", "started"} => ~sproc'[q].reg
    BY <1>10 DEF ConnectTimer, TimerExpired
  <2>6. ~skill'.busy => skill'.list = {}
    BY <1>10 DEF ConnectTimer, TimerExpired
  <2> QED BY <2>1, <2>2, <2>3, <2>4, <2>5, <2>6
<1>11. ASSUME NEW p \in Subs, UnregisterReads(p) PROVE ProcessesOK'
  <2>1. (/\ DOMAIN sproc = Subs
         /\ \A q \in Subs : DOMAIN sproc[q] = {"st", "reg"} /\ sproc[q].st \in {"none", "gone"} \cup Running)'
    BY <1>11 DEF UnregisterReads, LockFree
  <2>2. (/\ DOMAIN spids = {"file", "lock", "copy", "torn"} /\ DOMAIN skill = {"busy", "list"}
         /\ spids.lock \in {NoSub} \cup Subs
         /\ spids.file \subseteq Subs /\ spids.copy \subseteq Subs /\ skill.list \subseteq Subs)'
    BY <1>11 DEF UnregisterReads, LockFree
  <2>3. RegisteredIsFindable'
    BY <1>11 DEF UnregisterReads, LockFree, RegisteredIsFindable
  <2>4. \A q \in Subs : sproc'[q].st = "filtering" =>
          spids'.lock = q /\ \A r \in Subs : r # q /\ r \in spids'.file => r \in spids'.copy
    BY <1>11 DEF UnregisterReads, LockFree
  <2>5. \A q \in Subs : sproc'[q].st \in {"none", "started"} => ~sproc'[q].reg
    BY <1>11 DEF UnregisterReads, LockFree
  <2>6. ~skill'.busy => skill'.list = {}
    BY <1>11 DEF UnregisterReads, LockFree
  <2> QED BY <2>1, <2>2, <2>3, <2>4, <2>5, <2>6
<1>12. ASSUME NEW p \in Subs, UnregisterWrites(p) PROVE ProcessesOK'
  <2>a. /\ sproc[p].st = "filtering" /\ sproc' = [sproc EXCEPT ![p] = [st |-> "gone", reg |-> FALSE]]
        /\ UNCHANGED <<smain, skill>>
    BY <1>12 DEF UnregisterWrites, Gone
  <2>b. /\ DOMAIN spids' = DOMAIN spids /\ spids'.lock = NoSub /\ spids'.copy = {}
        /\ \/ spids'.file \in {Rewritten, spids.file} /\ spids'.torn = spids.torn
           \/ spids'.file = {} /\ spids'.torn = TRUE
    BY <1>12 DEF UnregisterWrites
  <2>1. (/\ DOMAIN sproc = Subs
         /\ \A q \in Subs : DOMAIN sproc[q] = {"st", "reg"} /\ sproc[q].st \in {"none", "gone"} \cup Running)'
    BY <2>a, <2>b DEF Rewritten
  <2>2. (/\ DOMAIN spids = {"file", "lock", "copy", "torn"} /\ DOMAIN skill = {"busy", "list"}
         /\ spids.lock \in {NoSub} \cup Subs
         /\ spids.file \subseteq Subs /\ spids.copy \subseteq Subs /\ skill.list \subseteq Subs)'
    BY <2>a, <2>b DEF Rewritten
  <2>3. RegisteredIsFindable'
    BY <2>a, <2>b DEF RegisteredIsFindable, Rewritten
  <2>4. \A q \in Subs : sproc'[q].st = "filtering" =>
          spids'.lock = q /\ \A r \in Subs : r # q /\ r \in spids'.file => r \in spids'.copy
    BY <2>a, <2>b DEF Rewritten
  <2>5. \A q \in Subs : sproc'[q].st \in {"none", "started"} => ~sproc'[q].reg
    BY <2>a, <2>b DEF Rewritten
  <2>6. ~skill'.busy => skill'.list = {}
    BY <2>a, <2>b DEF Rewritten
  <2> QED BY <2>1, <2>2, <2>3, <2>4, <2>5, <2>6
<1>13. ASSUME NEW p \in Subs, SubCrashes(p) PROVE ProcessesOK'
  <2>a. UNCHANGED <<smain, skill>> /\ SubDies(p)
    BY <1>13 DEF SubCrashes
  <2>b. /\ sproc' = [sproc EXCEPT ![p] = [st |-> "gone", reg |-> FALSE]] /\ sproc[p].st \in Running
        /\ DOMAIN spids' = DOMAIN spids /\ spids'.file \subseteq spids.file /\ spids'.copy \subseteq Subs
        /\ sproc[p].st # "filtering" => spids' = spids
        /\ spids'.lock \in {spids.lock, NoSub}
        /\ ~spids'.torn /\ smain.plat = "linux" => ~spids.torn /\ spids'.file = spids.file
    BY <2>a, SubDiesEffect
  <2>1. (/\ DOMAIN sproc = Subs
         /\ \A q \in Subs : DOMAIN sproc[q] = {"st", "reg"} /\ sproc[q].st \in {"none", "gone"} \cup Running)'
    BY <2>a, <2>b
  <2>2. (/\ DOMAIN spids = {"file", "lock", "copy", "torn"} /\ DOMAIN skill = {"busy", "list"}
         /\ spids.lock \in {NoSub} \cup Subs
         /\ spids.file \subseteq Subs /\ spids.copy \subseteq Subs /\ skill.list \subseteq Subs)'
    BY <2>a, <2>b
  <2>3. RegisteredIsFindable'
    BY <2>a, <2>b DEF RegisteredIsFindable
  <2>4. \A q \in Subs : sproc'[q].st = "filtering" =>
          spids'.lock = q /\ \A r \in Subs : r # q /\ r \in spids'.file => r \in spids'.copy
    BY <2>a, <2>b
  <2>5. \A q \in Subs : sproc'[q].st \in {"none", "started"} => ~sproc'[q].reg
    BY <2>a, <2>b
  <2>6. ~skill'.busy => skill'.list = {}
    BY <2>a, <2>b
  <2> QED BY <2>1, <2>2, <2>3, <2>4, <2>5, <2>6
<1>14. ASSUME NEW p \in Subs, KillOne(p) PROVE ProcessesOK'
  <2>a. /\ UNCHANGED smain /\ skill' = [skill EXCEPT !.list = @ \ {p}] /\ skill.busy
        /\ SubDies(p) \/ UNCHANGED <<sproc, spids>>
        /\ smain.plat = "linux" /\ sproc[p].st \in Running => SubDies(p)
    BY <1>14 DEF KillOne, Alive
  <2>k. DOMAIN skill' = DOMAIN skill /\ skill'.busy /\ skill'.list = skill.list \ {p}
    BY <2>a
  <2>b. CASE SubDies(p)
    <3>a. /\ sproc' = [sproc EXCEPT ![p] = [st |-> "gone", reg |-> FALSE]] /\ sproc[p].st \in Running
          /\ DOMAIN spids' = DOMAIN spids /\ spids'.file \subseteq spids.file /\ spids'.copy \subseteq Subs
          /\ sproc[p].st # "filtering" => spids' = spids
          /\ spids'.lock \in {spids.lock, NoSub}
          /\ ~spids'.torn /\ smain.plat = "linux" => ~spids.torn /\ spids'.file = spids.file
      BY <2>b, SubDiesEffect
    <3>1. (/\ DOMAIN sproc = Subs
           /\ \A q \in Subs : DOMAIN sproc[q] = {"st", "reg"} /\ sproc[q].st \in {"none", "gone"} \cup Running)'
      BY <2>a, <2>k, <3>a
    <3>2. (/\ DOMAIN spids = {"file", "lock", "copy", "torn"} /\ DOMAIN skill = {"busy", "list"}
           /\ spids.lock \in {NoSub} \cup Subs
           /\ spids.file \subseteq Subs /\ spids.copy \subseteq Subs /\ skill.list \subseteq Subs)'
      BY <2>a, <2>k, <3>a
    <3>3. RegisteredIsFindable'
      BY <2>a, <2>k, <3>a DEF RegisteredIsFindable
    <3>4. \A q \in Subs : sproc'[q].st = "filtering" =>
            spids'.lock = q /\ \A r \in Subs : r # q /\ r \in spids'.file => r \in spids'.copy
      BY <2>a, <2>k, <3>a
    <3>5. \A q \in Subs : sproc'[q].st \in {"none", "started"} => ~sproc'[q].reg
      BY <2>a, <2>k, <3>a
    <3>6. ~skill'.busy => skill'.list = {}
      BY <2>a, <2>k, <3>a
    <3> QED BY <3>1, <3>2, <3>3, <3>4, <3>5, <3>6
  <2>c. CASE UNCHANGED <<sproc, spids>>
    <3>a. ~(smain.plat = "linux" /\ sproc[p].st \in Running)
      BY <2>a, <2>c DEF SubDies, Gone
    <3>1. (/\ DOMAIN sproc = Subs
           /\ \A q \in Subs : DOMAIN sproc[q] = {"st", "reg"} /\ sproc[q].st \in {"none", "gone"} \cup Running)'
      BY <2>a, <2>k, <2>c, <3>a
    <3>2. (/\ DOMAIN spids = {"file", "lock", "copy", "torn"} /\ DOMAIN skill = {"busy", "list"}
           /\ spids.lock \in {NoSub} \cup Subs
           /\ spids.file \subseteq Subs /\ spids.copy \subseteq Subs /\ skill.list \subseteq Subs)'
      BY <2>a, <2>k, <2>c, <3>a
    <3>3. RegisteredIsFindable'
      BY <2>a, <2>k, <2>c, <3>a DEF RegisteredIsFindable
    <3>4. \A q \in Subs : sproc'[q].st = "filtering" =>
            spids'.lock = q /\ \A r \in Subs : r # q /\ r \in spids'.file => r \in spids'.copy
      BY <2>a, <2>k, <2>c, <3>a
    <3>5. \A q \in Subs : sproc'[q].st \in {"none", "started"} => ~sproc'[q].reg
      BY <2>a, <2>k, <2>c, <3>a
    <3>6. ~skill'.busy => skill'.list = {}
      BY <2>a, <2>k, <2>c, <3>a
    <3> QED BY <3>1, <3>2, <3>3, <3>4, <3>5, <3>6
  <2> QED BY <2>a, <2>b, <2>c
<1>15. CASE UNCHANGED subVars
  <2>1. MainOK(smain') /\ Suspended(smain') /\ UNCHANGED <<sproc, spids, skill>>
    BY <1>15, MainIs DEF subVars
  <2> QED BY <2>1, MainKeeps
<1>16. ASSUME ProcessesOK', UNCHANGED smain PROVE SubserverInv'
  BY <1>16, ProcessKeeps
<1>17. CASE ReadAndClear \/ KillDone \/ KillerDies
  BY <1>1, <1>2, <1>3, <1>16, <1>17 DEF ReadAndClear, KillDone, KillerDies
<1>18. ASSUME NEW p \in Subs,
              \/ RegisterPid(p) \/ SubListens(p) \/ SubDetects(p) \/ SubConnects(p) \/ SubDisconnected(p)
              \/ ConnectTimer(p) \/ UnregisterReads(p) \/ UnregisterWrites(p) \/ SubCrashes(p) \/ KillOne(p)
       PROVE  SubserverInv'
  <2>1. UNCHANGED smain
    BY <1>18 DEF RegisterPid, SubListens, SubDetects, SubConnects, SubDisconnected, ConnectTimer, UnregisterReads,
                 UnregisterWrites, SubCrashes, KillOne
  <2>2. ProcessesOK'
    BY <1>5, <1>6, <1>7, <1>8, <1>9, <1>10, <1>11, <1>12, <1>13, <1>14, <1>18
  <2> QED BY <1>16, <2>1, <2>2
<1> QED BY <1>4, <1>15, <1>17, <1>18, MainStepInv DEF SubserverNext

\* SubserverSafe for any bound on the subservers, the timers and the readers: a device
\* that is handed over stays handed over until a timer gives it back, and a subserver
\* in the pid file is one that killall-sub can find.
THEOREM SubserversSafe == SubserverSpec => []SubserverSafe
<1>1. SubserverInv => SubserverSafe
  BY DEF SubserverInv, SubserverSafe, HandedOver
<1>2. QED
  BY <1>1, SubserverInitInv, SubserverStepInv, PTL DEF SubserverSpec
=============================================================================
