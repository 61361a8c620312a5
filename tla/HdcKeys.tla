------------------------------ MODULE HdcKeys ------------------------------
(***************************************************************************)
(* The key files of the host (auth.cpp): hdckey, hdckey.pub and, in builds *)
(* that encrypt the private key, hdckey.key with its password. The workers *)
(* of all sessions make and read them without a lock                       *)
(* (TryLoadPublicKey, RsaSignAndBase64), the server checks them when it    *)
(* starts (CheckPrivateKeyFile), "hdc keygen" may write them from another  *)
(* process, and a process may end between any two calls on a file.         *)
(***************************************************************************)
EXTENDS Integers, FiniteSets

CONSTANTS KeyWorkers,    \* session workers of the server
          MaxAuths,      \* times a worker authenticates
          MaxKeyFaults   \* calls that fail, processes that end

ASSUME KeyBounds == {MaxAuths, MaxKeyFaults} \subseteq Nat
ASSUME KeyNames == {"main", "keygen", "none"} \cap KeyWorkers = {}

VARIABLES kcfg,    \* encrypt: HDC_SUPPORT_ENCRYPT_PRIVATE_KEY
          kfile,   \* the three files
          kact,    \* who works on them: the workers, "main", "keygen"
          khist    \* what happened

keyVars == <<kcfg, kfile, kact, khist>>

KeyActors == KeyWorkers \cup {"main", "keygen"}
KeyGenerating == {"pub", "pubw", "priv", "privw", "pwd"}
NoFile == [is |-> "none", key |-> 0]
KeyFile(is, key) == [is |-> is, key |-> key]
KeyIdle(pc) == [pc |-> pc, key |-> 0, sent |-> 0, signed |-> 0, auths |-> 0]

\* No keys yet, those of a build without encryption, or those of this build.
KeyInit ==
  \E encrypt \in BOOLEAN, is \in {"none", "plain", "enc"} :
    /\ is = "enc" => encrypt
    /\ kcfg = [encrypt |-> encrypt]
    /\ kfile = IF is = "none" THEN [pub |-> NoFile, priv |-> NoFile, pwd |-> NoFile]
               ELSE [pub |-> KeyFile("pem", 1), priv |-> KeyFile(is, 1),
                     pwd |-> IF is = "enc" THEN KeyFile("pwd", 1) ELSE NoFile]
    /\ kact = [a \in KeyActors |-> KeyIdle(CASE a = "main" -> "start" [] a = "keygen" -> "ask" [] OTHER -> "stat")]
    /\ khist = [faults |-> 0, keys |-> 1, overlapped |-> FALSE, torn |-> FALSE,
                reencrypted |-> FALSE, keygen |-> FALSE]

KeyAt(a, pc) == kact[a].pc = pc /\ (a \in KeyWorkers => kact["main"].pc = "up")
KeyFault == khist.faults < MaxKeyFaults
\* GenerateNewKey: RSA_generate_key_ex never gives the same key twice.
GenerateNewKey == khist.keys + 1
Others(a) == \E b \in KeyActors \ {a} : kact[b].pc \in KeyGenerating

-----------------------------------------------------------------------------
(* GenerateKeyPair writes the public key first: the private file, which
   TryLoadPublicKey looks for, appears only when the other is complete.
   "hdc keygen" (GenerateKey) writes the private file first. *)

\* Mutant: the private key first.
PrivateFirst(a, stage) ==
  CASE stage = "begin" -> "priv"
    [] stage = "private" -> IF a = "main" THEN "up" ELSE "pub"
    [] OTHER -> IF a = "keygen" THEN "done" ELSE "load"
GenerateKeyPair(a, stage) ==
  CASE stage = "begin" -> IF a = "keygen" THEN "priv" ELSE "pub"
    [] stage = "private" -> CASE a = "keygen" -> "pub" [] a = "main" -> "up" [] OTHER -> "load"
    [] OTHER -> IF a = "keygen" THEN "done" ELSE "priv"

\* An actor gives up: keygen ends, a start fails (the server exits and is pulled
\* up again), a worker's session is not authenticated.
KeyGivesUp(a) == CASE a = "keygen" -> "done" [] a = "main" -> "start" [] OTHER -> "failed"

\* A call that fails and whose result is looked at.
KeyCallFails(a) ==
  /\ KeyFault /\ \E pc \in KeyGenerating : KeyAt(a, pc)
  /\ kact' = [kact EXCEPT ![a].pc = KeyGivesUp(a)]
  /\ khist' = [khist EXCEPT !.faults = @ + 1, !.torn = @ \/ kact[a].pc \in {"privw", "pwd"}]
  /\ UNCHANGED <<kcfg, kfile>>

\* fopen(.., "w") leaves an empty file until the key is written.
OpenPublicFile(a) ==
  /\ KeyAt(a, "pub")
  /\ kfile' = [kfile EXCEPT !.pub = KeyFile("empty", 0)]
  /\ kact' = [kact EXCEPT ![a].pc = "pubw"]
  /\ UNCHANGED <<kcfg, khist>>

\* WritePublicKeyfile of keygen writes a format of its own, not PEM.
WritePublicFile(a) ==
  /\ KeyAt(a, "pubw")
  /\ kfile' = [kfile EXCEPT !.pub = KeyFile(IF a = "keygen" THEN "base64" ELSE "pem", kact[a].key)]
  /\ kact' = [kact EXCEPT ![a].pc = GenerateKeyPair(a, "public")]
  /\ UNCHANGED <<kcfg, khist>>

OpenPrivateFile(a) ==
  /\ KeyAt(a, "priv")
  /\ kfile' = [kfile EXCEPT !.priv = KeyFile("empty", 0)]
  /\ kact' = [kact EXCEPT ![a].pc = "privw"]
  /\ UNCHANGED <<kcfg, khist>>

\* WritePrivateFile: the password of an encrypted key goes to its file last.
AfterPrivate(a) == IF kcfg.encrypt THEN "pwd" ELSE GenerateKeyPair(a, "private")
WritePrivateFile(a) ==
  /\ KeyAt(a, "privw")
  /\ kfile' = [kfile EXCEPT !.priv = KeyFile(IF kcfg.encrypt THEN "enc" ELSE "plain", kact[a].key)]
  /\ kact' = [kact EXCEPT ![a].pc = AfterPrivate(a)]
  /\ UNCHANGED <<kcfg, khist>>

WritePrivatePwdFile(a) ==
  /\ KeyAt(a, "pwd")
  /\ kfile' = [kfile EXCEPT !.pwd = KeyFile("pwd", kact[a].key)]
  /\ kact' = [kact EXCEPT ![a].pc = GenerateKeyPair(a, "private")]
  /\ UNCHANGED <<kcfg, khist>>

\* What was written to the stream fails to reach the file when it is closed, and
\* nobody looks at what fclose (or the flush of the password file) returns: the
\* generation goes on, over a file without its content.
KeyWriteLost(a) ==
  /\ KeyFault
  /\ \/ /\ KeyAt(a, "pubw")
        /\ kact' = [kact EXCEPT ![a].pc = GenerateKeyPair(a, "public")] /\ UNCHANGED kfile
     \/ /\ KeyAt(a, "privw")
        /\ kact' = [kact EXCEPT ![a].pc = AfterPrivate(a)] /\ UNCHANGED kfile
     \/ /\ KeyAt(a, "pwd")
        /\ kact' = [kact EXCEPT ![a].pc = GenerateKeyPair(a, "private")]
        /\ kfile' = [kfile EXCEPT !.pwd = KeyFile("empty", 0)]
  /\ khist' = [khist EXCEPT !.faults = @ + 1, !.torn = TRUE]
  /\ UNCHANGED kcfg

-----------------------------------------------------------------------------
(* The server starts; keygen. *)

\* A file that is not there or empty counts as encrypted.
IsEncryptedPEM == kfile.priv.is # "plain"

\* An unencrypted private key is replaced by a new one; its public key stays.
CheckPrivateKeyFile ==
  /\ KeyAt("main", "start")
  /\ IF ~kcfg.encrypt \/ IsEncryptedPEM
     THEN kact' = [kact EXCEPT !["main"].pc = "up"] /\ UNCHANGED khist
     ELSE /\ kact' = [kact EXCEPT !["main"].pc = "priv", !["main"].key = GenerateNewKey]
          /\ khist' = [khist EXCEPT !.keys = @ + 1, !.reencrypted = TRUE]
  /\ UNCHANGED <<kcfg, kfile>>

\* GenerateKey, given the path of the user's key; not in builds that encrypt.
KeygenStarts ==
  /\ KeyAt("keygen", "ask") /\ ~kcfg.encrypt
  /\ kact' = [kact EXCEPT !["keygen"].pc = GenerateKeyPair("keygen", "begin"), !["keygen"].key = GenerateNewKey]
  /\ khist' = [khist EXCEPT !.keys = @ + 1, !.keygen = TRUE]
  /\ UNCHANGED <<kcfg, kfile>>

-----------------------------------------------------------------------------
(* A session worker: AUTH_PUBLICKEY, then AUTH_SIGNATURE. *)

TryLoadPublicKey(w) ==
  /\ KeyAt(w, "stat")
  /\ IF kfile.priv.is = "none"
     THEN /\ kact' = [kact EXCEPT ![w].pc = GenerateKeyPair(w, "begin"), ![w].key = GenerateNewKey]
          /\ khist' = [khist EXCEPT !.keys = @ + 1, !.overlapped = @ \/ Others(w)]
     ELSE kact' = [kact EXCEPT ![w].pc = "load"] /\ UNCHANGED khist
  /\ UNCHANGED <<kcfg, kfile>>

LoadPublicKey(w) ==
  /\ KeyAt(w, "load")
  /\ kact' = IF kfile.pub.is = "pem"
             THEN [kact EXCEPT ![w].sent = kfile.pub.key, ![w].pc = "sign"]
             ELSE [kact EXCEPT ![w].pc = "failed"]
  /\ UNCHANGED <<kcfg, kfile, khist>>

\* The password file holds the password of this key.
DecryptPwd(key) == kfile.pwd.is = "pwd" /\ kfile.pwd.key = key

\* GetPlainPwd, and the PEM file it opens.
PrivateReadable ==
  /\ kcfg.encrypt => kfile.pwd.is = "pwd"
  /\ kfile.priv.is = "plain" \/ (kfile.priv.is = "enc" /\ DecryptPwd(kfile.priv.key))

LoadPrivateKey(w) ==
  /\ KeyAt(w, "sign")
  /\ kact' = IF PrivateReadable
             THEN [kact EXCEPT ![w].signed = kfile.priv.key, ![w].pc = "authed"]
             ELSE [kact EXCEPT ![w].pc = "failed"]
  /\ UNCHANGED <<kcfg, kfile, khist>>

\* The next session of the target.
AuthAgain(w) ==
  /\ KeyAt(w, "authed") \/ KeyAt(w, "failed")
  /\ kact[w].auths < MaxAuths
  /\ kact' = [kact EXCEPT ![w] = [KeyIdle("stat") EXCEPT !.auths = kact[w].auths + 1]]
  /\ UNCHANGED <<kcfg, kfile, khist>>

\* The server ends with all its workers and is started again.
KeyServerDies ==
  /\ KeyFault
  /\ khist' = [khist EXCEPT !.faults = @ + 1,
                   !.torn = @ \/ \E a \in KeyActors \ {"keygen"} : kact[a].pc \in {"privw", "pwd"}]
  /\ kact' = [a \in KeyActors |->
       CASE a = "keygen" -> kact[a] [] a = "main" -> KeyIdle("start")
         [] OTHER -> [KeyIdle("stat") EXCEPT !.auths = kact[a].auths]]
  /\ UNCHANGED <<kcfg, kfile>>

-----------------------------------------------------------------------------
KeyNext ==
  \/ CheckPrivateKeyFile \/ KeygenStarts \/ KeyServerDies
  \/ \E a \in KeyActors : \/ KeyCallFails(a) \/ KeyWriteLost(a) \/ OpenPublicFile(a) \/ WritePublicFile(a)
                          \/ OpenPrivateFile(a) \/ WritePrivateFile(a) \/ WritePrivatePwdFile(a)
  \/ \E w \in KeyWorkers : TryLoadPublicKey(w) \/ LoadPublicKey(w) \/ LoadPrivateKey(w) \/ AuthAgain(w)

KeySpec == KeyInit /\ [][KeyNext]_keyVars

-----------------------------------------------------------------------------
KeyContent(kinds) == [is : {"none", "empty"} \cup kinds, key : Nat]
KeyTypeOK ==
  /\ DOMAIN kcfg = {"encrypt"} /\ DOMAIN kact = KeyActors
  /\ kfile \in [pub : KeyContent({"pem", "base64"}), priv : KeyContent({"plain", "enc"}),
                pwd : KeyContent({"pwd"})]
  /\ \A a \in KeyActors :
       /\ DOMAIN kact[a] = {"pc", "key", "sent", "signed", "auths"}
       /\ kact[a].pc \in KeyGenerating \cup {"start", "up", "ask", "done", "stat", "load", "sign",
                                             "authed", "failed"}
       /\ {kact[a].key, kact[a].sent, kact[a].signed} \subseteq Nat /\ kact[a].auths \in 0 .. MaxAuths
  /\ DOMAIN khist = {"faults", "keys", "overlapped", "torn", "reencrypted", "keygen"}
  /\ khist.faults \in 0 .. MaxKeyFaults /\ khist.keys \in Nat

\* What a session sends as its public key belongs to the private key it signs
\* with (GetPublicKeyinfo, RsaSignAndBase64), also when the server ends while a key
\* is written or a write is lost: then nothing is signed. Not so: when two workers
\* both saw no private key, when the server replaced an unencrypted private key, and
\* after keygen on the user's own key. And the files fit together whenever nobody is
\* writing them, even when a generation broke off after the public key
\* (GenerateKeyPair, TryLoadPublicKey), unless a private key was being written as
\* its writer ended or a write was lost when its file was closed: a private file,
\* with or without its key, is never written again (auth.cpp:704).
KeysOrdered == ~(khist.overlapped \/ khist.reencrypted \/ khist.keygen)
KeyPairMatches ==
  KeysOrdered =>
    /\ \A w \in KeyWorkers : kact[w].signed # 0 => kact[w].signed = kact[w].sent
    /\ (kfile.priv.is # "none" /\ ~Others("none") /\ ~khist.torn) =>
         /\ kfile.pub.is = "pem" /\ kfile.pub.key = kfile.priv.key
         /\ kact["main"].pc = "up" => PrivateReadable

\* The key files and their users are in states the code knows, and keys match.
KeySafe == KeyTypeOK /\ KeyPairMatches

-----------------------------------------------------------------------------
(* The inductive invariant: what one generation has written at each of its
   steps, and that nothing generates once a private key is there. *)

\* Only workers generate, one at a time.
KeyOneWriter ==
  /\ kact["keygen"].pc = "ask" /\ kact["main"].pc \in {"start", "up"}
  /\ \A v, w \in KeyWorkers :
       kact[v].pc \in KeyGenerating /\ kact[w].pc \in KeyGenerating => v = w

\* What the files are while worker w generates; a write may have been lost.
KeyHalfWritten(w) ==
  /\ kact[w].pc \in {"pub", "pubw", "priv"} => kfile.priv.is = "none"
  /\ kact[w].pc = "pubw" => kfile.pub.is = "empty"
  /\ kact[w].pc \in {"priv", "privw", "pwd"} =>
       kfile.pub = KeyFile("pem", kact[w].key) \/ (khist.torn /\ kfile.pub.is = "empty")
  /\ kact[w].pc = "privw" => kfile.priv.is = "empty"
  /\ kact[w].pc = "pwd" =>
       kcfg.encrypt /\ (kfile.priv = KeyFile("enc", kact[w].key) \/ (khist.torn /\ kfile.priv.is = "empty"))

\* What the files are as soon as there is a private key.
KeyFilesFit ==
  kfile.priv.is # "none" =>
    /\ kfile.pub.is = "pem" \/ (khist.torn /\ kfile.pub.is = "empty")
    /\ kfile.priv.is # "empty" /\ kfile.pub.is = "pem" => kfile.pub.key = kfile.priv.key
    /\ (~khist.torn /\ \A w \in KeyWorkers : kact[w].pc \notin KeyGenerating) =>
         /\ kfile.priv.is # "empty"
         /\ kfile.priv.is = "plain" /\ kcfg.encrypt => kact["main"].pc = "start"
         /\ kfile.priv.is = "enc" => kcfg.encrypt /\ DecryptPwd(kfile.priv.key)

\* A worker that goes on has seen a private key, and what it sent is its pair.
KeyWorkerSent(w) ==
  /\ kact[w].pc \in {"load", "sign", "authed"} => kfile.priv.is # "none"
  /\ kact[w].pc = "sign" => kfile.pub.is = "pem" /\ kact[w].sent = kfile.pub.key
  /\ kact[w].signed # 0 => kact[w].signed = kact[w].sent /\ kact[w].pc = "authed"

KeyInv ==
  /\ KeyTypeOK
  /\ KeysOrdered =>
       KeyOneWriter /\ KeyFilesFit /\ \A w \in KeyWorkers : KeyHalfWritten(w) /\ KeyWorkerSent(w)
=============================================================================
