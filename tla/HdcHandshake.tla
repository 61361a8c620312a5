----------------------------- MODULE HdcHandshake -----------------------------
(***************************************************************************)
(* The handshake of a session: the server announces itself, the daemon     *)
(* asks for the public key of the host, looks it up or asks the user, has  *)
(* the host sign a token or run a TLS handshake with a pre-shared key, and *)
(* then lets commands through.  Either end reads any number of arrived     *)
(* messages at a time and decides once per read whether they are           *)
(* encrypted.  Keys and signatures are values; OpenSSL is not modelled.    *)
(***************************************************************************)
EXTENDS Naturals, Sequences, SequencesExt

CONSTANTS Keys,        \* key pairs
          MaxSessions, \* sessions the server makes, one after another
          MaxTasks     \* commands the server sends in a session

ASSUME HandshakeBounds == {MaxSessions, MaxTasks} \subseteq Nat

VARIABLES hcfg,   \* parameters and switches of both ends, and the keys of the host
          hsrv,   \* the session of the server, and its entry in the device list
          hdmn,   \* the session of the daemon and the progress of its handler
          hauth,  \* mapAuthStatus
          hknown, \* the file of known hosts
          hthr,   \* the detached thread that tells the host about the dialog
          hnet,   \* messages in flight: s2d and d2s
          hhist   \* what really happened, by session id

hsVars == <<hcfg, hsrv, hdmn, hauth, hknown, hthr, hnet, hhist>>

NoKey == "no key"
Ids == 1..MaxSessions
Controls == {"shell", "file", "fport"}
NoAuth == [type |-> "none", token |-> 0, key |-> NoKey]
NoBody == [key |-> NoKey, token |-> 0, scheme |-> "rsa", step |-> 0, unauth |-> FALSE, feature |-> {}]

\* GetAuthByPassValue: read once, when the daemon starts.
GetAuthByPassValue(p) ==
  \/ p.validation
  \/ p.secure = "unset"
  \/ p.secure = "1" /\ ~(p.oemmode = "rd" /\ p.bypass)

\* The parameters and switches: those of the daemon, its three controls, the
\* transport, the switch for encryption and the age and keys of the host.
Configs ==
  [validation : BOOLEAN, secure : {"0", "1"}, oemmode : {"user"}, bypass : {FALSE},
   denied : {{}, {"shell"}}, tcp : {TRUE}, encrypt : BOOLEAN, hostValidation : {FALSE, TRUE},
   host : {"low", "3.0", "new"}, pub : Keys, priv : Keys, valid : {{}, Keys}]

\* Only a new host takes part in connection validation or encryption.
RealConfig(p) ==
  /\ p.hostValidation \/ p.encrypt => p.host = "new"
  /\ p.hostValidation => p.validation
  /\ p.valid # {} => p.validation
  /\ p.denied # {} => p.secure = "0"

NewServerSession(i) == [sid |-> i, alive |-> i # 0, hs |-> FALSE, ssl |-> FALSE, tls |-> 0,
                        scheme |-> "rsa", io |-> <<>>, conn |-> "unknown", auth |-> "none", sent |-> 0]
NewDaemonSession(a) == [sid |-> 0, alive |-> a, hs |-> FALSE, ssl |-> FALSE, tls |-> 0, scheme |-> "rsa",
                        enc |-> FALSE, conval |-> FALSE, io |-> <<>>, pc |-> "idle", key |-> NoKey,
                        answer |-> "none"]

HandshakeInit ==
  /\ hcfg \in {p \in Configs : RealConfig(p)}
  /\ hsrv = NewServerSession(0) /\ hdmn = NewDaemonSession(FALSE)
  /\ hauth = [i \in Ids |-> NoAuth]
  /\ hknown \in SUBSET Keys
  /\ hthr = "none"
  /\ hnet = [s2d |-> <<>>, d2s |-> <<>>]
  /\ hhist = [allowed |-> {}, proved |-> {}, ran |-> {}, garbled |-> FALSE, lapses |-> {}]

authEnable == GetAuthByPassValue(hcfg)
-----------------------------------------------------------------------------
\* Send: encrypted as soon as the sender has its label (WriteUvSslFd), and
\* nowhere when the session is dead.
Message(auth, body, ssl) == [cmd |-> "handshake", auth |-> auth, body |-> body, enc |-> ssl]
ToDaemon(m) == [hnet EXCEPT !.s2d = Append(@, m)]
ToServer(m) == [hnet EXCEPT !.d2s = Append(@, m)]

\* FreeSession of either end; NotifyInstanceSessionFree: the device is offline.
ServerFree(s) == [s EXCEPT !.alive = FALSE, !.io = <<>>, !.conn = "offline"]
DaemonFree(d) == [d EXCEPT !.alive = FALSE, !.io = <<>>, !.pc = "idle"]

\* A session is made on both ends; WorkThreadInitSession and SetFeature: the
\* first message says what the host can do.
SetFeature == (IF hcfg.encrypt THEN {"encrypt"} ELSE {})
              \cup (IF hcfg.hostValidation THEN {"validation"} ELSE {})
WorkThreadInitSession ==
  /\ ~hsrv.alive /\ ~hdmn.alive /\ hthr = "none" /\ hsrv.sid < MaxSessions
  /\ hsrv' = NewServerSession(hsrv.sid + 1)
  /\ hdmn' = NewDaemonSession(TRUE)
  /\ hnet' = [s2d |-> <<Message("none",
                [NoBody EXCEPT !.feature = SetFeature,
                               !.scheme = IF hcfg.host = "new" THEN "sha512" ELSE "rsa"], FALSE)>>,
              d2s |-> <<>>]
  /\ UNCHANGED <<hcfg, hauth, hknown, hthr, hhist>>

\* FetchIOBuf: a read takes what has arrived, and what is decrypted is what
\* was read once sslHandshake was set; a mismatch cannot be parsed.
Decrypt(m, ssl) == m.enc = ssl
FetchIOBuf(ms, ssl) == [j \in 1..Len(ms) |-> [m |-> ms[j], good |-> Decrypt(ms[j], ssl)]]

ServerRead ==
  /\ hsrv.alive /\ hsrv.io = <<>>
  /\ \E n \in 1..Len(hnet.d2s) :
       /\ hsrv' = [hsrv EXCEPT !.io = FetchIOBuf(SubSeq(hnet.d2s, 1, n), hsrv.ssl)]
       /\ hnet' = [hnet EXCEPT !.d2s = SubSeq(@, n + 1, Len(@))]
  /\ UNCHANGED <<hcfg, hdmn, hauth, hknown, hthr, hhist>>

DaemonRead ==
  /\ hdmn.alive /\ hdmn.io = <<>> /\ hdmn.pc = "idle"
  /\ \E n \in 1..Len(hnet.s2d) :
       /\ hdmn' = [hdmn EXCEPT !.io = FetchIOBuf(SubSeq(hnet.s2d, 1, n), hdmn.ssl)]
       /\ hnet' = [hnet EXCEPT !.s2d = SubSeq(@, n + 1, Len(@))]
  /\ UNCHANGED <<hcfg, hsrv, hauth, hknown, hthr, hhist>>

\* The other end has closed the connection, or it is lost.
PeerClosed ==
  /\ \/ hsrv.alive /\ ~hdmn.alive /\ hnet.d2s = <<>> /\ hsrv.io = <<>>
        /\ hsrv' = ServerFree(hsrv) /\ UNCHANGED hdmn
     \/ hdmn.alive /\ ~hsrv.alive /\ hdmn.pc = "idle"
        /\ hdmn' = DaemonFree(hdmn) /\ UNCHANGED hsrv
  /\ UNCHANGED <<hcfg, hauth, hknown, hthr, hnet, hhist>>

ConnectionLost ==
  /\ hsrv.alive /\ hsrv' = ServerFree(hsrv)
  /\ UNCHANGED <<hcfg, hdmn, hauth, hknown, hthr, hnet, hhist>>
-----------------------------------------------------------------------------
(* The server *)

Next_io(s) == [s EXCEPT !.io = Tail(@)]

\* HandleAuthPubkeyMsg with GetDaemonAuthType: the scheme of the daemon, and
\* the public key of the host (or of its credential); it may not load.
HandleAuthPubkeyMsg(b) ==
  /\ hsrv' = [Next_io(hsrv) EXCEPT !.scheme = b.scheme]
  /\ hnet' = ToDaemon(Message("pubkey", [NoBody EXCEPT !.key = hcfg.pub], hsrv.ssl))

\* RsaSignAndBase64: a signature of the token, or the token encrypted with
\* the private key where the daemon is old.
SignsOldWay(token, scheme) == [NoBody EXCEPT !.key = hcfg.priv, !.token = token]
RsaSignAndBase64(token, scheme) ==
  [NoBody EXCEPT !.key = hcfg.priv, !.token = token, !.scheme = scheme]

HandleAuthSignatureMsg(b) ==
  /\ hsrv' = Next_io(hsrv)
  /\ hnet' = ToDaemon(Message("sign", RsaSignAndBase64(b.token, hsrv.scheme), hsrv.ssl))

\* RsaPrikeyDecryptPsk: only with the key the daemon has encrypted for.
RsaPrikeyDecryptPsk(b) == b.key = hcfg.priv
ServerSessionSSLInit(b) == hsrv.tls = 0 => RsaPrikeyDecryptPsk(b)

\* PerformHandshake makes the next flight; SetHandshakeLabel turns encryption on.
PerformHandshake(e) == [e EXCEPT !.tls = @ + 1]
SetHandshakeLabel(e) == [e EXCEPT !.ssl = TRUE]

\* ServerSSLHandshake: hello, finished, and at the message after that the
\* label; TLS is done with step 2, encryption starts with the label.
ServerSSLHandshake(b) ==
  IF hsrv.tls < 2
  THEN /\ hsrv' = PerformHandshake(Next_io(hsrv))
       /\ hnet' = ToDaemon(Message("psk", [NoBody EXCEPT !.step = hsrv.tls + 1], hsrv.ssl))
  ELSE hsrv' = SetHandshakeLabel(Next_io(hsrv)) /\ UNCHANGED hnet

HandServerAuth(m) ==
  \/ m.auth = "pubkey" /\ HandleAuthPubkeyMsg(m.body)
  \/ m.auth = "sign" /\ ~(hcfg.tcp /\ hcfg.encrypt) /\ HandleAuthSignatureMsg(m.body)
  \/ /\ m.auth = "psk" /\ ServerSessionSSLInit(m.body)
     /\ ServerSSLHandshake(m.body)

\* What ends the session: a plain signature where encryption is required, a
\* pre-shared key that cannot be read, a key file that cannot be loaded.
ServerAuthFails(m) ==
  \/ m.auth = "sign" /\ hcfg.tcp /\ hcfg.encrypt
  \/ m.auth = "psk" /\ ~ServerSessionSSLInit(m.body)
  \/ m.auth \in {"pubkey", "sign"}

EncryptionMissing(s) == hcfg.tcp /\ hcfg.encrypt /\ ~s.ssl

\* UpdateHdiInfo: connected, and authorised or not as the daemon says.
UpdateHdiInfo(s, b) == [s EXCEPT !.conn = "connected", !.auth = IF b.unauth THEN "unauth" ELSE "success"]

ServerSessionHandshake ==
  /\ hsrv.alive /\ hsrv.io # <<>>
  /\ LET r == Head(hsrv.io) IN
     \/ /\ ~r.good /\ hsrv' = ServerFree(hsrv) /\ hhist' = [hhist EXCEPT !.garbled = TRUE]
        /\ UNCHANGED hnet
     \/ /\ r.good /\ r.m.auth # "ok" /\ HandServerAuth(r.m) /\ UNCHANGED hhist
     \/ /\ r.good /\ r.m.auth # "ok" /\ ServerAuthFails(r.m)
        /\ hsrv' = ServerFree(hsrv) /\ UNCHANGED <<hnet, hhist>>
     \/ /\ r.good /\ r.m.auth = "ok"
        /\ hsrv' = IF EncryptionMissing(hsrv) THEN ServerFree(hsrv)
                   ELSE [UpdateHdiInfo(Next_io(hsrv), r.m.body) EXCEPT !.hs = TRUE]
        /\ UNCHANGED <<hnet, hhist>>
  /\ UNCHANGED <<hcfg, hdmn, hauth, hknown, hthr>>

\* A command of a client, once the server has finished its handshake.
ServerTask ==
  /\ hsrv.alive /\ hsrv.hs /\ hsrv.sent < MaxTasks
  /\ hsrv' = [hsrv EXCEPT !.sent = @ + 1]
  /\ \E c \in Controls : hnet' = ToDaemon([cmd |-> c, auth |-> "-", body |-> NoBody, enc |-> hsrv.ssl])
  /\ UNCHANGED <<hcfg, hdmn, hauth, hknown, hthr, hhist>>
-----------------------------------------------------------------------------
(* The daemon *)

GetSessionAuthStatus(i) == IF i \in Ids THEN hauth[i].type ELSE "none"
InitSessionAuthInfo(i) == [hauth EXCEPT ![i] = [NoAuth EXCEPT !.token = i]]
UpdateSessionAuthOk(i) == [hauth EXCEPT ![i] = [NoAuth EXCEPT !.type = "ok"]]
UpdateSessionAuthPubkey(i, k) == [hauth EXCEPT ![i] = [@ EXCEPT !.type = "pubkey", !.key = k]]
UpdateSessionAuthmsg(i) == [hauth EXCEPT ![i] = [@ EXCEPT !.type = "fail"]]

\* SendAuthOkMsg: also the bearer of a refusal; the daemon's own handshake is
\* over unless the host does not take part in a required validation.
SendAuthOkMsg(d, unauth) ==
  /\ hdmn' = [d EXCEPT !.hs = hcfg.host = "low" \/ ~hcfg.validation \/ d.conval]
  /\ hnet' = ToServer(Message("ok", [NoBody EXCEPT !.unauth = unauth], d.ssl))

\* HandleAuthFailed: the refusal is sent before the status is recorded.
HandleAuthFailed(d) ==
  /\ SendAuthOkMsg(d, TRUE)
  /\ hauth' = UpdateSessionAuthmsg(d.sid)

RsaPubkeyEncryptPsk(k) == [NoBody EXCEPT !.key = k]

Allow(i) == [hhist EXCEPT !.allowed = @ \cup {i}]
\* What the handshake does not guard against is remembered.
Lapse(h, what, happened) == IF happened THEN [h EXCEPT !.lapses = @ \cup {what}] ELSE h

\* SendAuthMsg to a host that is allowed: a token to sign (SendAuthSignMsg) or the
\* pre-shared key encrypted with the public key (SendAuthEncryptPsk), which returns
\* without a message, and without telling anybody, when it cannot be made.
SendAuthMsg(d, k) ==
  /\ hauth' = UpdateSessionAuthPubkey(d.sid, k)
  /\ hdmn' = d
  /\ \/ /\ hnet' = ToServer(IF hcfg.tcp /\ d.enc
                            THEN Message("psk", RsaPubkeyEncryptPsk(k), d.ssl)
                            ELSE Message("sign", [NoBody EXCEPT !.token = d.sid], d.ssl))
        /\ hhist' = Allow(d.sid)
     \/ /\ hcfg.tcp /\ d.enc /\ UNCHANGED hnet
        /\ hhist' = Lapse(Allow(d.sid), "silent", TRUE)

\* HandDaemonAuthInit: a new token, and the scheme the host has offered.
HandDaemonAuthInit(d) ==
  /\ hdmn' = d
  /\ hnet' = ToServer(Message("pubkey", [NoBody EXCEPT !.scheme = d.scheme], d.ssl))
  /\ hauth' = InitSessionAuthInfo(d.sid)

\* HandConnectValidationPubkey: only a key of the list; another one is told so
\* and loses the session.
HandConnectValidationPubkey(d, k) ==
  IF k \in hcfg.valid
  THEN SendAuthMsg(d, k)
  ELSE /\ hdmn' = DaemonFree(d) /\ UNCHANGED hhist
       /\ hnet' = ToServer(Message("ok", [NoBody EXCEPT !.unauth = TRUE], d.ssl))
       /\ hauth' = UpdateSessionAuthmsg(d.sid)

\* HandDaemonAuthPubkey: a known key, or the dialog, which blocks the worker
\* of the session while a detached thread tells the host of it.
AlreadyInKnownHosts(k) == k \in hknown
HandDaemonAuthPubkey(d, k) ==
  \/ hcfg.validation /\ HandConnectValidationPubkey(d, k) /\ UNCHANGED hthr
  \/ ~hcfg.validation /\ AlreadyInKnownHosts(k) /\ SendAuthMsg(d, k) /\ UNCHANGED hthr
  \/ ~hcfg.validation /\ ~AlreadyInKnownHosts(k) /\ hthr' = "send"
     /\ hdmn' = [d EXCEPT !.pc = "dialog", !.key = k] /\ UNCHANGED <<hauth, hnet, hhist>>

\* AuthVerify: the signature is of this session's token, made with the key
\* that was sent and in the scheme that was agreed.
AuthVerify(d, b) ==
  b.key = hauth[d.sid].key /\ b.token = hauth[d.sid].token /\ b.scheme = d.scheme

Prove(i) == [hhist EXCEPT !.proved = @ \cup {i}]

HandDaemonAuthSignature(d, b) ==
  IF AuthVerify(d, b)
  THEN /\ hauth' = UpdateSessionAuthOk(d.sid) /\ SendAuthOkMsg(d, FALSE)
       /\ hhist' = IF b.key = hauth[d.sid].key /\ b.scheme = d.scheme THEN Prove(d.sid) ELSE hhist
  ELSE HandleAuthFailed(d) /\ UNCHANGED hhist

\* Mutant: the label before the last flight, which is then sent encrypted.
LabelFirst(d) ==
  /\ hnet' = ToServer(Message("psk", [NoBody EXCEPT !.step = d.tls + 1], d.tls > 0))
  /\ hdmn' = IF d.tls = 0 THEN PerformHandshake(d)
             ELSE [SetHandshakeLabel(PerformHandshake(d)) EXCEPT !.pc = "ssl wait"]
  /\ UNCHANGED <<hauth, hhist>>
\* DaemonSSLHandshake: its finished message, and with the next one of the
\* host the last step, the label and the wait.
DaemonSSLHandshake(d) ==
  /\ hnet' = ToServer(Message("psk", [NoBody EXCEPT !.step = d.tls + 1], d.ssl))
  /\ hdmn' = IF d.tls = 0 THEN PerformHandshake(d)
             ELSE [SetHandshakeLabel(PerformHandshake(d)) EXCEPT !.pc = "ssl wait"]
  /\ UNCHANGED <<hauth, hhist>>

\* HandDaemonAuth: three kinds of hosts that need none or cannot have it, a session
\* that has it, and the messages in their order.
NoAuthNeeded == ~hcfg.validation /\ ~authEnable
HandDaemonAuth(d, m) ==
  CASE NoAuthNeeded ->
         /\ hauth' = UpdateSessionAuthOk(d.sid) /\ SendAuthOkMsg(d, FALSE) /\ UNCHANGED <<hthr, hhist>>
    [] ~NoAuthNeeded /\ (hcfg.host = "low" \/ (hcfg.validation /\ ~d.conval)) ->
         HandleAuthFailed(d) /\ UNCHANGED <<hthr, hhist>>
    [] ~NoAuthNeeded /\ ~(hcfg.host = "low" \/ (hcfg.validation /\ ~d.conval))
         /\ GetSessionAuthStatus(d.sid) = "ok" ->
         hdmn' = d /\ UNCHANGED <<hauth, hnet, hthr, hhist>>
    [] OTHER ->
         \/ m.auth = "none" /\ HandDaemonAuthInit(d) /\ UNCHANGED <<hthr, hhist>>
         \/ /\ m.auth = "pubkey" /\ GetSessionAuthStatus(d.sid) = "none" /\ hauth[d.sid].token # 0
            /\ HandDaemonAuthPubkey(d, m.body.key)
         \/ /\ m.auth = "sign" /\ GetSessionAuthStatus(d.sid) = "pubkey"
            /\ HandDaemonAuthSignature(d, m.body) /\ UNCHANGED hthr
         \/ /\ m.auth = "psk" /\ GetSessionAuthStatus(d.sid) = "pubkey"
            /\ DaemonSSLHandshake(d) /\ UNCHANGED hthr
         \/ /\ ~(m.auth = "none" \/ (m.auth = "pubkey" /\ GetSessionAuthStatus(d.sid) = "none"
                                           /\ hauth[d.sid].token # 0)
                 \/ (m.auth \in {"sign", "psk"} /\ GetSessionAuthStatus(d.sid) = "pubkey"))
            /\ hdmn' = DaemonFree(d) /\ UNCHANGED <<hauth, hnet, hthr, hhist>>

\* DaemonSessionHandshakeInit with GetServerCapability and
\* ParsePeerSupportFeatures: the id and the features of the host.
DaemonSessionHandshakeInit(d, b) ==
  [d EXCEPT !.sid = hsrv.sid, !.hs = FALSE, !.scheme = b.scheme,
            !.enc = "encrypt" \in b.feature, !.conval = hcfg.validation /\ "validation" \in b.feature]

DaemonSessionHandshake ==
  /\ hdmn.alive /\ hdmn.pc = "idle" /\ hdmn.io # <<>>
  /\ LET r == Head(hdmn.io)
         d == Next_io(hdmn)
     IN \/ /\ ~r.good /\ hdmn' = DaemonFree(d) /\ hhist' = [hhist EXCEPT !.garbled = TRUE]
           /\ UNCHANGED <<hauth, hthr, hnet>>
        \/ /\ r.good /\ r.m.cmd = "handshake"
           /\ r.m.auth = "none" => GetSessionAuthStatus(hsrv.sid) = "none"
           /\ HandDaemonAuth(IF r.m.auth = "none" THEN DaemonSessionHandshakeInit(d, r.m.body) ELSE d, r.m)
  /\ UNCHANGED <<hcfg, hsrv, hknown>>

\* FetchCommand for a task: CheckAuthStatus, then CheckControl; RedirectToTask
\* runs what passes both.
HandshakeIsEnough(i) == hdmn.hs
CheckAuthStatus(i) == authEnable => GetSessionAuthStatus(i) = "ok"
CheckControl(c) == c \notin hcfg.denied
FetchTask ==
  /\ hdmn.alive /\ hdmn.pc = "idle" /\ hdmn.io # <<>>
  /\ LET r == Head(hdmn.io) IN
     /\ r.good /\ r.m.cmd # "handshake"
     /\ hhist' = IF CheckAuthStatus(hdmn.sid) /\ CheckControl(r.m.cmd)
                 THEN [hhist EXCEPT !.ran = @ \cup {<<hdmn.sid, r.m.cmd>>}] ELSE hhist
  /\ hdmn' = Next_io(hdmn)
  /\ UNCHANGED <<hcfg, hsrv, hauth, hknown, hthr, hnet>>

UpdateKnownHosts(k) == hknown \cup {k}

\* PostUIConfirm and ShowPermitDialog: nothing makes the answer wait for the thread
\* that tells the host; a dialog that cannot be shown refuses.
DialogAnswer ==
  /\ hdmn.pc = "dialog"
  /\ \E a \in {"once", "forever", "refuse"} :
       /\ hdmn' = [hdmn EXCEPT !.pc = "answered", !.answer = a]
       /\ hknown' = IF a = "forever" THEN UpdateKnownHosts(hdmn.key) ELSE hknown
       /\ hhist' = Lapse(hhist, "dialog", a # "refuse" /\ hthr # "none")
  /\ UNCHANGED <<hcfg, hsrv, hauth, hthr, hnet>>

\* The rest of HandDaemonAuthPubkey, with the answer.
AfterDialog ==
  /\ hdmn.pc = "answered"
  /\ LET d == [hdmn EXCEPT !.pc = "idle"] IN
     IF hdmn.answer # "refuse" THEN SendAuthMsg(d, hdmn.key)
     ELSE HandleAuthFailed(d) /\ UNCHANGED hhist
  /\ UNCHANGED <<hcfg, hsrv, hknown, hthr>>

\* The thread: HandleAuthFailed, its message first, then the status.  It uses
\* the handshake object on the stack of the worker: once the handler has
\* returned this may still work, or end the daemon.
FrameIsGone == hdmn.pc \notin {"dialog", "answered"}
NotifyMsgSend ==
  /\ hthr = "send"
  /\ \/ /\ hthr' = "update" /\ UNCHANGED hauth
        /\ IF hdmn.alive THEN SendAuthOkMsg(hdmn, TRUE) ELSE UNCHANGED <<hdmn, hnet>>
     \/ /\ FrameIsGone /\ hthr' = "none" /\ hdmn' = DaemonFree(hdmn)
        /\ hauth' = [i \in Ids |-> NoAuth] /\ UNCHANGED hnet
  /\ UNCHANGED <<hcfg, hsrv, hknown, hhist>>
NotifyMsgUpdate ==
  /\ hthr = "update" /\ hthr' = "none"
  /\ hauth' = UpdateSessionAuthmsg(hdmn.sid)
  /\ UNCHANGED <<hcfg, hsrv, hdmn, hknown, hnet, hhist>>

\* SSL_HANDSHAKE_FINISHED_WAIT_TIME is a sleep: the host need not have taken the
\* last plain message out of the stream when it ends.
LastPlainTaken == (hnet.d2s = <<>> /\ hsrv.io = <<>>) \/ ~hsrv.alive
SslHandshakeDone ==
  /\ hdmn.pc = "ssl wait"
  /\ hauth' = UpdateSessionAuthOk(hdmn.sid)
  /\ SendAuthOkMsg([hdmn EXCEPT !.pc = "idle"], FALSE)
  /\ hhist' = Lapse(Prove(hdmn.sid), "wait", ~LastPlainTaken)
  /\ UNCHANGED <<hcfg, hsrv, hknown, hthr>>
-----------------------------------------------------------------------------
ServerSteps == ServerRead \/ ServerSessionHandshake
DaemonSteps == \/ DaemonRead \/ DaemonSessionHandshake \/ FetchTask \/ AfterDialog
               \/ NotifyMsgSend \/ NotifyMsgUpdate \/ SslHandshakeDone
HandshakeNext ==
  \/ WorkThreadInitSession \/ PeerClosed \/ ConnectionLost
  \/ ServerSteps \/ ServerTask \/ DaemonSteps \/ DialogAnswer

HandshakeSpec == HandshakeInit /\ [][HandshakeNext]_hsVars
-----------------------------------------------------------------------------
\* Every command the daemon has run was one its controls allow and, where
\* authentication is on, came from a host that was allowed (known, listed or
\* by the user) and has proved that it has the key, although the server takes
\* an unauthorised session for connected as well and sends commands on it.
TasksAuthorised ==
  \A t \in hhist.ran : /\ t[2] \notin hcfg.denied
                       /\ authEnable => t[1] \in hhist.allowed \cap hhist.proved

\* Where the code relies on time or says nothing, the two ends may part: the sleep
\* of DaemonSSLHandshake ends before the host has read the last plain message
\* (daemon.cpp:996), the user answers before the thread has told the host of the
\* dialog (daemon.cpp:617), or no pre-shared key can be made (daemon.cpp:1525).
NoLapse == hhist.lapses = {}

\* No message is decrypted that was sent plain, none parsed that was sent
\* encrypted, though each end changes over by itself, unless there was a lapse; and
\* the server, where encryption is required, never finishes a handshake without it,
\* lapse or not.
EncryptionAgreed ==
  /\ NoLapse => ~hhist.garbled
  /\ hcfg.tcp /\ hcfg.encrypt /\ hsrv.hs => hsrv.ssl

\* With nothing in flight and nobody asked, the device list of the server says
\* of the session what the daemon has recorded for it, unless there was a lapse.
Settled == /\ hsrv.alive /\ hdmn.alive /\ hsrv.io = <<>> /\ hdmn.io = <<>>
           /\ hnet = [s2d |-> <<>>, d2s |-> <<>>] /\ hdmn.pc = "idle" /\ hthr = "none"
ViewsAgree ==
  Settled /\ NoLapse => /\ hsrv.hs
                        /\ (hsrv.auth = "success") = (hauth[hsrv.sid].type = "ok")

\* A host with matching key files that is allowed is authorised, or its session
\* ends. After a lapse it need not be: without a pre-shared key nothing goes on, and
\* the late thread marks the session failed that the user has just allowed.
AllowedIsAuthorised ==
  []<>(hsrv.alive /\ hsrv.sid \in hhist.allowed /\ hcfg.pub = hcfg.priv /\ NoLapse => hsrv.auth = "success")

\* Both ends take a session for the same: encrypted or not, authorised or not
\* (ServerSessionHandshake, DaemonSessionHandshake, HandleAuth..).
HandshakeAgrees == EncryptionAgreed /\ ViewsAgree
-----------------------------------------------------------------------------
(* The inductive invariant of TasksAuthorised: what a recorded status means. *)

HandshakeShape ==
  /\ DOMAIN hauth = Ids /\ \A i \in Ids : DOMAIN hauth[i] = {"type", "token", "key"}
  /\ DOMAIN hdmn = {"sid", "alive", "hs", "ssl", "tls", "scheme", "enc", "conval", "io", "pc", "key",
                    "answer"}
  /\ DOMAIN hhist = {"allowed", "proved", "ran", "garbled", "lapses"}

\* A key is recorded for a host that was allowed, success for one that has also
\* proved its key, and the TLS handshake only ends for an allowed one.
StatusEarned ==
  authEnable =>
    /\ \A i \in Ids : /\ hauth[i].type = "pubkey" => i \in hhist.allowed
                      /\ hauth[i].type = "ok" => i \in hhist.allowed /\ i \in hhist.proved
    /\ hdmn.pc = "ssl wait" => hdmn.sid \in hhist.allowed

AuthInv == HandshakeShape /\ StatusEarned /\ TasksAuthorised
-----------------------------------------------------------------------------
(* The inductive invariant of HandshakeAgrees: the two ends take turns.    *)

\* What one end has not handled yet: what it has read, then what is under way.
QueueOf(io, net) ==
  [j \in 1..(Len(io) + Len(net)) |-> IF j <= Len(io) THEN io[j].m ELSE net[j - Len(io)]]
ToD == QueueOf(hdmn.io, hnet.s2d)
ToS == QueueOf(hsrv.io, hnet.d2s)

\* A message that the other end has to answer.
Turn(m) == m.auth \in {"none", "pubkey", "sign", "psk"}
HasTurn(q) == \E j \in DOMAIN q : Turn(q[j])
Asked == hdmn.pc \in {"dialog", "answered"} \/ hthr # "none"

IsQueue(q) == Len(q) \in Nat /\ q = [j \in 1..Len(q) |-> q[j]]
AgreeShape ==
  /\ DOMAIN hcfg = {"validation", "secure", "oemmode", "bypass", "denied", "tcp", "encrypt", "hostValidation",
                    "host", "pub", "priv", "valid"}
  /\ hcfg.tcp = TRUE /\ hcfg.encrypt \in BOOLEAN
  /\ DOMAIN hsrv = {"sid", "alive", "hs", "ssl", "tls", "scheme", "io", "conn", "auth", "sent"}
  /\ hsrv.sid \in 0..MaxSessions /\ (hsrv.alive \/ hdmn.alive => hsrv.sid # 0)
  /\ hsrv.ssl \in BOOLEAN /\ hsrv.alive \in BOOLEAN /\ hdmn.ssl \in BOOLEAN /\ hdmn.alive \in BOOLEAN
  /\ DOMAIN hnet = {"s2d", "d2s"}
  /\ IsQueue(hnet.s2d) /\ IsQueue(hnet.d2s) /\ IsQueue(hsrv.io) /\ IsQueue(hdmn.io)
  /\ hdmn.pc \in {"idle", "dialog", "answered", "ssl wait"} /\ (hdmn.alive \/ hdmn.pc = "idle")
  /\ hthr \in {"none", "send", "update"}
  /\ hsrv.tls \in 0..2 /\ hdmn.tls \in 0..2

\* Which end has finished TLS, and what the handler of the daemon may be at then.
TlsPhases ==
  /\ hdmn.ssl <=> hdmn.tls = 2
  /\ hsrv.ssl => hsrv.tls = 2 /\ hdmn.tls = 2
  /\ ~hcfg.encrypt => hsrv.tls = 0 /\ hdmn.tls = 0
  /\ hdmn.alive /\ hdmn.enc => hcfg.encrypt
  /\ hdmn.alive /\ Asked => hsrv.tls = 0 /\ hdmn.tls = 0
  /\ hdmn.alive /\ hdmn.pc = "ssl wait" => hdmn.tls = 2 /\ hthr = "none"
  /\ hdmn.tls = 2 /\ hsrv.alive /\ ~hsrv.ssl => HasTurn(ToS) /\ (hdmn.alive => hdmn.pc = "ssl wait")

\* What waits for the daemon: one message at most that it has to answer, all of
\* it readable, and nothing else before both ends encrypt where they have to.
DaemonQueue ==
  hdmn.alive =>
    /\ \A j \in DOMAIN hdmn.io : hdmn.io[j].good
    /\ \A j \in DOMAIN ToD : ToD[j].enc = hdmn.ssl
    /\ \A i, j \in DOMAIN ToD : Turn(ToD[i]) /\ Turn(ToD[j]) => i = j
    /\ \A j \in DOMAIN ToD :
         Turn(ToD[j]) => /\ hdmn.pc = "idle" /\ hthr = "none" /\ ToD[j].cmd = "handshake"
                         /\ ToD[j].auth = "psk" => hcfg.encrypt /\ hsrv.tls = hdmn.tls + 1
                         /\ ToD[j].auth # "psk" => hsrv.tls = 0 /\ hdmn.tls = 0
                         /\ "encrypt" \in ToD[j].body.feature => hcfg.encrypt
    /\ \A j \in DOMAIN ToD : ~Turn(ToD[j]) => ToD[j].cmd # "handshake"
    /\ hcfg.encrypt /\ ~hsrv.ssl => \A j \in DOMAIN ToD : Turn(ToD[j])
    /\ hdmn.sid = hsrv.sid \/ \E j \in DOMAIN ToD : ToD[j].auth = "none"

\* What waits for the server: answers, and behind them one message at most that
\* it has to answer.
ServerQueue ==
  hsrv.alive =>
    /\ \A j \in DOMAIN hsrv.io : hsrv.io[j].good
    /\ \A j \in DOMAIN ToS : ToS[j].enc = hsrv.ssl
    /\ \A j \in DOMAIN ToS :
         IF Turn(ToS[j])
         THEN /\ j = Len(ToS) /\ ~hsrv.ssl
              /\ ToS[j].auth = "psk" => hcfg.encrypt /\ hsrv.tls = hdmn.tls
              /\ ToS[j].auth # "psk" => hsrv.tls = 0 /\ hdmn.tls = 0
              /\ hdmn.alive => ~Asked /\ ~HasTurn(ToD)
         ELSE ToS[j].auth = "ok"

\* Nothing is recorded as ok while somebody has a turn; with nobody's turn left, the
\* last answer under way, or the list if there is none, says what the daemon has recorded.
TurnLeft == HasTurn(ToD) \/ (hsrv.alive /\ HasTurn(ToS))
ViewFollows ==
  /\ hdmn.alive /\ (hthr # "none" \/ TurnLeft) => GetSessionAuthStatus(hdmn.sid) # "ok"
  /\ hdmn.alive /\ hdmn.pc = "answered" /\ hdmn.answer # "refuse" => hthr = "none"
  /\ hsrv.alive /\ hdmn.alive /\ ~HasTurn(ToD) /\ ~HasTurn(ToS) /\ hdmn.pc = "idle" =>
       IF Len(ToS) > 0 THEN ToS[Len(ToS)].body.unauth = (GetSessionAuthStatus(hsrv.sid) # "ok")
       ELSE hsrv.hs /\ (hsrv.auth = "success") = (GetSessionAuthStatus(hsrv.sid) = "ok")

AgreeCore ==
  /\ AgreeShape /\ TlsPhases /\ DaemonQueue /\ ServerQueue /\ ViewFollows
  /\ ~hhist.garbled /\ (hcfg.encrypt /\ hsrv.hs => hsrv.ssl)

\* A lapse is remembered; the server asks for the encryption it requires before its
\* handshake ends.
AgreeInv ==
  /\ NoLapse => AgreeCore
  /\ DOMAIN hsrv = {"sid", "alive", "hs", "ssl", "tls", "scheme", "io", "conn", "auth", "sent"}
  /\ hcfg.tcp /\ hcfg.encrypt /\ hsrv.hs => hsrv.ssl
=============================================================================
