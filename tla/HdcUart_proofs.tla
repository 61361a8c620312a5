--------------------------- MODULE HdcUart_proofs ---------------------------
(***************************************************************************)
(* Proofs about a serial line, for any number of payloads and of retries.  *)
(* UartInv, at the end of HdcUart, is the inductive invariant of the       *)
(* queues of packages, OrderInv that of the order of the payloads and      *)
(* NumberInv that of the numbers of the packages, from which follows that  *)
(* nothing is left out while the threads of an end send one after the      *)
(* other (OneInside).  All hold for any number of threads that send.       *)
(***************************************************************************)
EXTENDS HdcUart, FiniteSetTheorems, TLAPS

-----------------------------------------------------------------------------
(* Queues                                                                  *)

\* Nth counts the elements of a finite set of numbers upwards, without a gap.
LEMMA NthCounts ==
  ASSUME NEW n \in Nat, NEW I \in SUBSET (1 .. n)
  PROVE  /\ Cardinality(I) \in Nat
         /\ \A k \in 1 .. Cardinality(I) :
              Nth(I, k) \in I /\ Cardinality({j \in I : j <= Nth(I, k)}) = k
         /\ \A i \in I : \E k \in 1 .. Cardinality(I) : Nth(I, k) = i
         /\ \A k, m \in 1 .. Cardinality(I) : k < m => Nth(I, k) < Nth(I, m)
<1> DEFINE Upto(i) == {j \in I : j <= i}
           f == [i \in I |-> Cardinality(Upto(i))]
           N == Cardinality(I)
<1>1. IsFiniteSet(I) /\ N \in Nat /\ I \subseteq Nat
  <2>1. IsFiniteSet(1 .. n)
    BY FS_Interval
  <2>2. IsFiniteSet(I)
    BY <2>1, FS_Subset
  <2> QED BY <2>2, FS_CardinalityType
<1>2. \A i \in I : /\ Upto(i) \subseteq I /\ IsFiniteSet(Upto(i)) /\ Cardinality(Upto(i)) \in 1 .. N
  <2> TAKE i \in I
  <2>1. Upto(i) \subseteq I /\ i \in Upto(i)
    BY <1>1
  <2>2. IsFiniteSet(Upto(i)) /\ Cardinality(Upto(i)) <= N
    BY <1>1, <2>1, FS_Subset
  <2>3. Cardinality(Upto(i)) \in Nat /\ Cardinality(Upto(i)) # 0
    BY <2>1, <2>2, FS_CardinalityType, FS_EmptySet
  <2> QED BY <1>1, <2>1, <2>2, <2>3
<1>3. ASSUME NEW i \in I, NEW j \in I, i < j PROVE f[i] < f[j]
  <2>0. i \in Nat /\ j \in Nat /\ \A k \in I : k \in Nat /\ (k <= i => k <= j)
    BY <1>1, <1>3
  <2>1. Upto(i) \subseteq Upto(j) /\ j \in Upto(j) /\ j \notin Upto(i)
    <3>1. j <= j /\ ~(j <= i)
      BY <1>3, <2>0
    <3> QED BY <2>0, <3>1, Zenon
  <2>2. Cardinality(Upto(i)) <= Cardinality(Upto(j)) /\ Cardinality(Upto(i)) # Cardinality(Upto(j))
    BY <1>2, <2>1, FS_Subset
  <2> QED BY <1>2, <2>2
<1>4. f \in Injection(I, 1 .. N)
  <2>1. f \in [I -> 1 .. N]
    BY <1>2
  <2>2. \A i, j \in I : f[i] = f[j] => i = j
    <3> TAKE i, j \in I
    <3>1. f[i] \in Nat /\ f[j] \in Nat /\ i \in Nat /\ j \in Nat
      BY <1>1, <2>1
    <3> QED BY <1>3, <3>1
  <2> HIDE DEF f
  <2> QED BY <2>1, <2>2 DEF Injection, IsInjective
<1>5. f \in Surjection(I, 1 .. N)
  <2>1. IsFiniteSet(1 .. N) /\ Cardinality(1 .. N) = N
    BY <1>1, FS_Interval
  <2> HIDE DEF f, N
  <2>2. N = Cardinality(1 .. N) <=> f \in Surjection(I, 1 .. N)
    BY <1>4, <2>1, FS_Injection DEF N
  <2> QED BY <2>1, <2>2
<1>6. \A k \in 1 .. N : \E i \in I : Cardinality(Upto(i)) = k
  BY <1>5 DEF Surjection
<1>7. \A k \in 1 .. N : Nth(I, k) \in I /\ Cardinality(Upto(Nth(I, k))) = k
  BY <1>6 DEF Nth
<1>8. \A i \in I : \E k \in 1 .. N : Nth(I, k) = i
  <2> TAKE i \in I
  <2>1. f[i] \in 1 .. N
    BY <1>2
  <2>2. Nth(I, f[i]) \in I /\ f[Nth(I, f[i])] = f[i]
    BY <1>7, <2>1
  <2>3. Nth(I, f[i]) = i
    BY <1>4, <2>2 DEF Injection, IsInjective
  <2> QED BY <2>1, <2>3
<1>9. \A k, m \in 1 .. N : k < m => Nth(I, k) < Nth(I, m)
  <2> TAKE k, m \in 1 .. N
  <2> HAVE k < m
  <2>1. Nth(I, k) \in I /\ Nth(I, m) \in I /\ f[Nth(I, k)] = k /\ f[Nth(I, m)] = m
    BY <1>7
  <2>2. Nth(I, k) \in Nat /\ Nth(I, m) \in Nat
    BY <1>1, <2>1
  <2>3. CASE Nth(I, m) < Nth(I, k)
    <3>1. m < k
      BY <1>3, <2>1, <2>3
    <3> QED BY <3>1
  <2>4. Nth(I, k) # Nth(I, m)
    BY <2>1
  <2> QED BY <2>2, <2>3, <2>4
<1> QED BY <1>1, <1>7, <1>8, <1>9

\* The first of a set of positions is one of them.
LEMMA MinIsIn ==
  ASSUME NEW n \in Nat, NEW I \in SUBSET (1 .. n), I # {}
  PROVE  Min(I) \in I /\ \A j \in I : Min(I) <= j
<1>0. I \subseteq Nat
  OBVIOUS
<1>1. IsFiniteSet(I) /\ Cardinality(I) \in Nat
  <2>1. IsFiniteSet(1 .. n)
    BY FS_Interval
  <2>2. IsFiniteSet(I)
    BY <2>1, FS_Subset
  <2> QED BY <2>2, FS_CardinalityType
<1>2. 1 \in 1 .. Cardinality(I)
  BY <1>1, FS_EmptySet
<1>3. Nth(I, 1) \in I
  BY <1>2, NthCounts
<1>4. \A j \in I : Nth(I, 1) <= j
  <2> TAKE j \in I
  <2>1. PICK k \in 1 .. Cardinality(I) : Nth(I, k) = j
    BY NthCounts
  <2>2. CASE k = 1
    BY <1>3, <2>1, <2>2
  <2>3. CASE 1 < k
    <3>1. Nth(I, 1) < Nth(I, k)
      BY <1>2, <2>3, NthCounts
    <3>2. Nth(I, 1) \in Nat /\ j \in Nat
      BY <1>0, <1>3, Zenon
    <3> QED BY <2>1, <3>1, <3>2
  <2> QED BY <1>1, <2>2, <2>3
<1> QED BY <1>3, <1>4 DEF Min

\* Pick takes each of the positions, once and in their order.
LEMMA PickTakes ==
  ASSUME NEW T, NEW q \in Seq(T), NEW I \in SUBSET (DOMAIN q)
  PROVE  /\ Pick(q, I) \in Seq(T)
         /\ \A k \in DOMAIN Pick(q, I) : Nth(I, k) \in I /\ Pick(q, I)[k] = q[Nth(I, k)]
         /\ \A i \in I : \E k \in DOMAIN Pick(q, I) : Nth(I, k) = i /\ Pick(q, I)[k] = q[i]
         /\ \A k, m \in DOMAIN Pick(q, I) : k < m => Nth(I, k) < Nth(I, m)
<1>1. Len(q) \in Nat /\ I \in SUBSET (1 .. Len(q))
  OBVIOUS
<1>2. /\ Cardinality(I) \in Nat
      /\ \A k \in 1 .. Cardinality(I) : Nth(I, k) \in I
      /\ \A i \in I : \E k \in 1 .. Cardinality(I) : Nth(I, k) = i
      /\ \A k, m \in 1 .. Cardinality(I) : k < m => Nth(I, k) < Nth(I, m)
  BY <1>1, NthCounts
<1>3. DOMAIN Pick(q, I) = 1 .. Cardinality(I) /\ \A k \in 1 .. Cardinality(I) : Pick(q, I)[k] = q[Nth(I, k)]
  BY DEF Pick
<1>4. Pick(q, I) \in Seq(T)
  <2>1. \A k \in 1 .. Cardinality(I) : q[Nth(I, k)] \in T
    BY <1>1, <1>2
  <2>2. Pick(q, I) = [k \in 1 .. Cardinality(I) |-> q[Nth(I, k)]]
    BY DEF Pick
  <2>3. Pick(q, I) \in [1 .. Cardinality(I) -> T]
    BY <2>1, <2>2
  <2> QED BY <1>2, <2>3
<1> QED BY <1>2, <1>3, <1>4

-----------------------------------------------------------------------------
(* What the invariant says of one queue: q of the end e, with the sessions *)
(* ss and the time limit t                                                 *)

Entries == [pkg : Package, st : {"send", "response"}, retry : 0 .. Retry]
Found(ss, e, s) == ss[e][s] \in {"live", "dead", "shut"}
PkgFits(ss, e, p) ==
  /\ ss["host"][p.id] # "none"
  /\ Found(ss, e, p.id) \/ (e = "daemon" /\ IsResponse(p))
EntryFits(ss, t, e, q, i) ==
  /\ PkgFits(ss, e, q[i].pkg)
  /\ q[i].st = "response" => ~IsResponse(q[i].pkg) /\ ~Blocked(q, i) /\ t
QueueFits(ss, t, e, q) == \A i \in DOMAIN q : EntryFits(ss, t, e, q, i)
LinesFit ==
  /\ \A s \in Session : sess["daemon"][s] # "none" => Used(s)
  /\ \A e \in End : /\ \A i \in DOMAIN line[e] : Used(line[e][i].id)
                    /\ rd[e] # NoPkg => Used(rd[e].id)
Awake(e) == outPkgs[e] # <<>> => requested[e] \/ timeout[e]

\* UartInv by its parts.
LEMMA UartParts ==
  ASSUME UartInv
  PROVE  /\ TypeOK /\ OneUsed /\ LinesFit /\ InUse
         /\ \A e \in End : /\ QueueFits(sess, timeout[e], e, outPkgs[e]) /\ Awake(e)
                           /\ outPkgs[e] \in Seq(Entries) /\ line[e] \in Seq(Package)
<1>1. TypeOK /\ OneUsed /\ OnlyUsed /\ InUse /\ FirstWaits /\ NoStrayPackage /\ AwakeWithWork
  BY DEF UartInv
<1>2. LinesFit
  BY <1>1 DEF OnlyUsed, LinesFit
<1>3. ASSUME NEW e \in End PROVE QueueFits(sess, timeout[e], e, outPkgs[e])
  BY <1>1 DEF QueueFits, EntryFits, PkgFits, Found, OnlyUsed, Used, FirstWaits, NoStrayPackage, InMap, Waiting
<1>4. \A e \in End : Awake(e)
  BY <1>1 DEF AwakeWithWork, Awake
<1>5. \A e \in End : outPkgs[e] \in Seq(Entries) /\ line[e] \in Seq(Package)
  BY <1>1 DEF TypeOK, Entries
<1> QED BY <1>1, <1>2, <1>3, <1>4, <1>5

\* The parts make it up, after a step.
LEMMA UartJoin ==
  ASSUME TypeOK', OneUsed', LinesFit', InUse',
         \A e \in End : QueueFits(sess', timeout'[e], e, outPkgs'[e]) /\ Awake(e)'
  PROVE  UartInv'
<1>1. OnlyUsed'
  BY DEF OnlyUsed, LinesFit, QueueFits, EntryFits, PkgFits, Used
<1>2. FirstWaits'
  BY DEF FirstWaits, QueueFits, EntryFits, Waiting
<1>3. NoStrayPackage'
  BY DEF NoStrayPackage, QueueFits, EntryFits, PkgFits, Found, InMap
<1>4. AwakeWithWork'
  BY DEF AwakeWithWork, Awake
<1> QED BY <1>1, <1>2, <1>3, <1>4 DEF UartInv

\* The entries of a queue are of sessions.
LEMMA EntryIds ==
  ASSUME NEW q \in Seq(Entries)
  PROVE  \A i \in DOMAIN q : q[i] \in Entries /\ q[i].pkg \in Package /\ q[i].pkg.id \in Session
<1>1. \A i \in DOMAIN q : q[i] \in Entries
  OBVIOUS
<1> QED BY <1>1 DEF Entries, Package

\* A queue stays as it is, and its sessions stay in the map.
LEMMA FitsStill ==
  ASSUME NEW ss, NEW ss2, NEW t, NEW e, NEW q \in Seq(Entries), QueueFits(ss, t, e, q),
         \A s \in Session : /\ ss["host"][s] # "none" => ss2["host"][s] # "none"
                            /\ Found(ss, e, s) => Found(ss2, e, s)
  PROVE  QueueFits(ss2, t, e, q)
<1>1. \A i \in DOMAIN q : q[i].pkg.id \in Session
  BY EntryIds
<1> QED BY <1>1 DEF QueueFits, EntryFits, PkgFits

\* What is picked of a queue fits if each of it does.
LEMMA FitsPick ==
  ASSUME NEW ss, NEW t, NEW e, NEW q \in Seq(Entries), NEW I \in SUBSET (DOMAIN q),
         \A i \in I : EntryFits(ss, t, e, q, i)
  PROVE  Pick(q, I) \in Seq(Entries) /\ QueueFits(ss, t, e, Pick(q, I))
<1> DEFINE r == Pick(q, I)
<1>1. /\ r \in Seq(Entries)
      /\ \A k \in DOMAIN r : Nth(I, k) \in I /\ r[k] = q[Nth(I, k)]
      /\ \A k, m \in DOMAIN r : k < m => Nth(I, k) < Nth(I, m)
  BY PickTakes
<1> HIDE DEF r
<1>2. ASSUME NEW k \in DOMAIN r, Blocked(r, k) PROVE Blocked(q, Nth(I, k))
  <2>1. PICK m \in 1 .. k - 1 : r[m].pkg.id = r[k].pkg.id /\ ~IsResponse(r[m].pkg)
    BY <1>2 DEF Blocked
  <2>2. m \in DOMAIN r /\ m < k
    BY <1>1
  <2>3. Nth(I, m) \in 1 .. Nth(I, k) - 1
    BY <1>1, <2>2
  <2> QED BY <1>1, <2>1, <2>2, <2>3 DEF Blocked
<1>3. QueueFits(ss, t, e, r)
  BY <1>1, <1>2 DEF QueueFits, EntryFits
<1> QED BY <1>1, <1>3 DEF r

\* RequestSendPackage puts a package behind the others, to be sent.
LEMMA FitsAdd ==
  ASSUME NEW ss, NEW t, NEW e, NEW q \in Seq(Entries), QueueFits(ss, t, e, q),
         NEW p \in Package, PkgFits(ss, e, p)
  PROVE  LET r == RequestSendPackage(q, p) IN r \in Seq(Entries) /\ QueueFits(ss, t, e, r)
<1>1. CASE Queued(q, p)
  BY <1>1 DEF RequestSendPackage
<1>2. CASE ~Queued(q, p)
  <2> DEFINE r == Append(q, Entry(p))
  <2>1. Entry(p) \in Entries /\ Entry(p).st = "send" /\ Entry(p).pkg = p
    BY UartAssumption DEF Entry, Entries
  <2>2. /\ r \in Seq(Entries) /\ Len(r) = Len(q) + 1 /\ r[Len(r)] = Entry(p)
        /\ \A i \in 1 .. Len(q) : r[i] = q[i]
    BY <2>1
  <2> HIDE DEF r
  <2>3. ASSUME NEW i \in DOMAIN r PROVE EntryFits(ss, t, e, r, i)
    <3>1. CASE i = Len(r)
      BY <2>1, <2>2, <3>1 DEF EntryFits
    <3>2. CASE i \in 1 .. Len(q)
      <4>1. r[i] = q[i] /\ (Blocked(r, i) => Blocked(q, i)) /\ i \in DOMAIN q
        BY <2>2, <3>2 DEF Blocked
      <4> QED BY <4>1 DEF EntryFits, QueueFits
    <3> QED BY <2>2, <3>1, <3>2
  <2>4. r = RequestSendPackage(q, p)
    BY <1>2 DEF RequestSendPackage, r
  <2> QED BY <2>2, <2>3, <2>4 DEF QueueFits
<1> QED BY <1>1, <1>2

\* A queue without its first.
LEMMA TailAt ==
  ASSUME NEW T, NEW q \in Seq(T), q # <<>>
  PROVE  /\ Tail(q) \in Seq(T) /\ Head(q) = q[1] /\ 1 \in DOMAIN q
         /\ \A i \in DOMAIN Tail(q) : i + 1 \in DOMAIN q /\ Tail(q)[i] = q[i + 1]
OBVIOUS

\* The packages on the line and in the hands of a read thread.
LEMMA PkgIds ==
  ASSUME TypeOK, NEW e \in End
  PROVE  /\ line[e] \in Seq(Package) /\ \A i \in DOMAIN line[e] : line[e][i].id \in Session
         /\ rd[e] # NoPkg => rd[e] \in Package /\ rd[e].id \in Session
<1>1. line[e] \in Seq(Package) /\ rd[e] \in Package \cup {NoPkg}
  BY DEF TypeOK
<1>2. \A i \in DOMAIN line[e] : line[e][i] \in Package
  BY <1>1
<1> QED BY <1>1, <1>2 DEF Package

\* Where a caller is.
LEMMA CallerAt ==
  ASSUME TypeOK, NEW c \in Caller
  PROVE  pc[c].n \in Nat /\ pc[c].n + 1 \in Nat
<1>1. pc[c] \in [at : {"idle", "count", "wait"}, s : Session \cup {NoSession}, n : Nat]
  BY DEF TypeOK
<1> QED BY <1>1

\* A caller moves within SendUARTData.
LEMMA CallerTypes ==
  ASSUME TypeOK, NEW c \in Caller, NEW at \in {"idle", "count", "wait"}, NEW s \in Session \cup {NoSession},
         NEW n \in Nat
  PROVE  [pc EXCEPT ![c] = [at |-> at, s |-> s, n |-> n]]
           \in [Caller -> [at : {"idle", "count", "wait"}, s : Session \cup {NoSession}, n : Nat]]
<1>1. pc \in [Caller -> [at : {"idle", "count", "wait"}, s : Session \cup {NoSession}, n : Nat]]
  BY DEF TypeOK
<1> QED BY <1>1

\* A step at one end leaves the queue of the other as it fits.
LEMMA OneEnd ==
  ASSUME UartInv, TypeOK', OneUsed', LinesFit', InUse', NEW e \in End,
         \A s \in Session : /\ sess["host"][s] # "none" => sess'["host"][s] # "none"
                            /\ \A d \in End \ {e} : Found(sess, d, s) => Found(sess', d, s),
         \A d \in End \ {e} : /\ outPkgs'[d] = outPkgs[d] /\ requested'[d] = requested[d]
                              /\ timeout'[d] = timeout[d],
         QueueFits(sess', timeout'[e], e, outPkgs'[e]), Awake(e)'
  PROVE  UartInv'
<1>1. ASSUME NEW d \in End \ {e} PROVE QueueFits(sess', timeout'[d], d, outPkgs'[d]) /\ Awake(d)'
  <2>1. outPkgs[d] \in Seq(Entries) /\ QueueFits(sess, timeout[d], d, outPkgs[d]) /\ Awake(d)
    BY UartParts
  <2>2. QueueFits(sess', timeout[d], d, outPkgs[d])
    BY <2>1, FitsStill
  <2> QED BY <2>1, <2>2 DEF Awake
<1> QED BY <1>1, UartJoin

\* A step that leaves the queues alone.
LEMMA Quiet ==
  ASSUME UartInv, TypeOK', OneUsed', LinesFit', InUse', UNCHANGED <<outPkgs, requested, timeout>>,
         \A s \in Session : /\ sess["host"][s] # "none" => sess'["host"][s] # "none"
                            /\ \A d \in End : Found(sess, d, s) => Found(sess', d, s)
  PROVE  UartInv'
<1>1. ASSUME NEW d \in End PROVE QueueFits(sess', timeout'[d], d, outPkgs'[d]) /\ Awake(d)'
  <2>1. outPkgs[d] \in Seq(Entries) /\ QueueFits(sess, timeout[d], d, outPkgs[d]) /\ Awake(d)
    BY UartParts
  <2>2. QueueFits(sess', timeout[d], d, outPkgs[d])
    BY <2>1, FitsStill
  <2> QED BY <2>1, <2>2 DEF Awake
<1> QED BY <1>1, UartJoin

-----------------------------------------------------------------------------
(* One lemma per action                                                    *)

\* The host connects, with no other session.
LEMMA UartConnects ==
  ASSUME UartInv, NEW s \in Session, ConnectDaemon(s)
  PROVE  UartInv'
<1>1. /\ TypeOK /\ OneUsed /\ LinesFit /\ InUse
      /\ \A x \in Session : sess["host"][x] = "none"
      /\ cur = NoSession /\ cur' = s /\ sess' = [sess EXCEPT !["host"][s] = "live"]
      /\ UNCHANGED <<resetIO, dispatchedPackageIndex, packageIndex, pc, slots, outPkgs,
                     requested, timeout, line, rd, sent, got, broken, again, raced>>
  BY UartParts DEF ConnectDaemon, NewSession, sendVars, histVars
<1>2. TypeOK'
  BY <1>1 DEF TypeOK, End
<1>3. /\ sess'["daemon"] = sess["daemon"] /\ sess'["host"][s] = "live"
      /\ \A x \in Session : x # s => sess'["host"][x] = sess["host"][x]
  BY <1>1 DEF TypeOK, End
<1>4. OneUsed' /\ LinesFit'
  BY <1>1, <1>3 DEF OneUsed, Used, LinesFit
<1>5. InUse'
  BY <1>1, <1>3 DEF InUse, InMap, EndOf
<1> QED BY <1>1, <1>2, <1>3, <1>4, <1>5, Quiet DEF Found, End

\* The session layer marks a session dead; it stays in the map.
LEMMA UartFrees ==
  ASSUME UartInv, NEW e \in End, NEW s \in Session, FreeSession(e, s)
  PROVE  UartInv'
<1>1. /\ TypeOK /\ OneUsed /\ LinesFit /\ InUse
      /\ sess[e][s] = "live" /\ sess' = [sess EXCEPT ![e][s] = "dead"]
      /\ UNCHANGED <<cur, resetIO, dispatchedPackageIndex, packageIndex, pc, slots, outPkgs,
                     requested, timeout, line, rd, sent, got, broken, again, raced>>
  BY UartParts DEF FreeSession, sendVars, histVars
<1>2. TypeOK'
  BY <1>1 DEF TypeOK
<1>3. /\ sess'[e][s] = "dead"
      /\ \A d \in End, x \in Session : <<d, x>> # <<e, s>> => sess'[d][x] = sess[d][x]
  BY <1>1 DEF TypeOK
<1>4. \A d \in End, x \in Session : /\ sess[d][x] # "none" <=> sess'[d][x] # "none"
                                    /\ Found(sess, d, x) => Found(sess', d, x)
  BY <1>1, <1>3 DEF Found
<1>5. OneUsed' /\ LinesFit'
  <2>1. "host" \in End /\ "daemon" \in End
    BY DEF End
  <2> QED BY <1>1, <1>4, <2>1, PkgIds DEF OneUsed, Used, LinesFit
<1>6. InUse'
  <2>1. cur # NoSession => cur \in Session
    BY <1>1 DEF TypeOK
  <2> QED BY <1>1, <1>4, <2>1 DEF InUse, InMap, EndOf, Found, End
<1> QED BY <1>1, <1>2, <1>4, <1>5, <1>6, Quiet DEF End

\* A thread begins to send, and numbers its package.
LEMMA UartNumbers ==
  ASSUME UartInv, NEW c \in Caller, (\E s \in Session : SendUARTData(c, s)) \/ NumberPackage(c)
  PROVE  UartInv'
<1>1. /\ TypeOK /\ OneUsed /\ LinesFit /\ InUse /\ EndOf(c) \in End
      /\ UNCHANGED <<sess, cur, resetIO, dispatchedPackageIndex, slots, outPkgs,
                     requested, timeout, line, rd, sent, got, broken, again>>
  BY UartParts DEF SendUARTData, NumberPackage, histVars, EndOf, End
<1>2. PICK s \in Session, n \in Nat, at \in {"count", "wait"} :
        pc' = [pc EXCEPT ![c] = [at |-> at, s |-> s, n |-> n]] /\ InMap(EndOf(c), s)
  <2>1. CASE \E s \in Session : SendUARTData(c, s)
    <3>1. PICK s \in Session : SendUARTData(c, s)
      BY <2>1
    <3>2. packageIndex[EndOf(c)][s] \in Nat
      BY <1>1 DEF TypeOK
    <3> QED BY <3>1, <3>2 DEF SendUARTData, InMap
  <2>2. CASE NumberPackage(c)
    <3>1. pc[c].s \in Session /\ InMap(EndOf(c), pc[c].s) /\ pc[c].n + 1 \in Nat
      BY <1>1, <2>2, CallerAt DEF NumberPackage, InUse
    <3>2. pc' = [pc EXCEPT ![c] = [at |-> "wait", s |-> pc[c].s, n |-> pc[c].n + 1]]
      BY <2>2 DEF NumberPackage
    <3> QED BY <3>1, <3>2
  <2> QED BY <2>1, <2>2
<1>3. TypeOK'
  <2>1. pc' \in [Caller -> [at : {"idle", "count", "wait"}, s : Session \cup {NoSession}, n : Nat]]
    BY <1>1, <1>2, CallerTypes
  <2>2. packageIndex' \in [End -> [Session -> Nat]]
    <3>1. CASE NumberPackage(c)
      <4>1. pc[c].n + 1 \in Nat
        BY <1>1, CallerAt
      <4> QED BY <1>1, <3>1, <4>1 DEF TypeOK, NumberPackage
    <3> QED BY <1>1, <3>1 DEF TypeOK, SendUARTData
  <2>3. raced' \in [End -> SUBSET Session]
    <3>1. CASE \E y \in Session : SendUARTData(c, y)
      <4>1. PICK y \in Session : raced' = IF Inside(EndOf(c), y, c)
                                         THEN [raced EXCEPT ![EndOf(c)] = @ \cup {y}] ELSE raced
        BY <3>1 DEF SendUARTData
      <4> QED BY <1>1, <4>1 DEF TypeOK
    <3>2. CASE NumberPackage(c)
      BY <1>1, <3>2 DEF TypeOK, NumberPackage, histVars
    <3> QED BY <3>1, <3>2
  <2> QED BY <1>1, <2>1, <2>2, <2>3 DEF TypeOK
<1>4. OneUsed' /\ LinesFit'
  BY <1>1 DEF OneUsed, Used, LinesFit
<1>5. InUse'
  <2>1. \A x \in Caller : pc'[x] = IF x = c THEN [at |-> at, s |-> s, n |-> n] ELSE pc[x]
    BY <1>1, <1>2 DEF TypeOK
  <2> QED BY <1>1, <1>2, <2>1 DEF InUse, InMap
<1> QED BY <1>1, <1>3, <1>4, <1>5, Quiet

\* A package is lost.
LEMMA UartLoses ==
  ASSUME UartInv, NEW e \in End, Lose(e)
  PROVE  UartInv'
<1>1. /\ TypeOK /\ OneUsed /\ LinesFit /\ InUse
      /\ line[e] # <<>> /\ line' = [line EXCEPT ![e] = Tail(@)]
      /\ UNCHANGED <<sess, cur, resetIO, dispatchedPackageIndex, packageIndex, pc, slots, outPkgs,
                     requested, timeout, rd, sent, got, broken, again, raced>>
  BY UartParts DEF Lose, sendVars, histVars
<1>2. TypeOK'
  <2>1. Tail(line[e]) \in Seq(Package)
    BY <1>1, PkgIds
  <2>2. line' \in [End -> Seq(Package)]
    BY <1>1, <2>1 DEF TypeOK
  <2> QED BY <1>1, <2>2 DEF TypeOK
<1>3. \A i \in DOMAIN line'[e] : i + 1 \in DOMAIN line[e] /\ line'[e][i] = line[e][i + 1]
  <2>1. line[e] \in Seq(Package)
    BY <1>1, PkgIds
  <2>2. line'[e] = Tail(line[e])
    BY <1>1 DEF TypeOK
  <2> QED BY <1>1, <2>1, <2>2, TailAt
<1>4. \A d \in End : d # e => line'[d] = line[d]
  BY <1>1 DEF TypeOK
<1>5. OneUsed' /\ LinesFit' /\ InUse'
  BY <1>1, <1>3, <1>4 DEF OneUsed, Used, LinesFit, InUse, InMap
<1> QED BY <1>1, <1>2, <1>5, Quiet

\* A duplicate is dropped.
LEMMA UartDuplicate ==
  ASSUME UartInv, NEW e \in End, DispatchDuplicate(e)
  PROVE  UartInv'
<1>1. /\ TypeOK /\ OneUsed /\ LinesFit /\ InUse
      /\ rd' = [rd EXCEPT ![e] = NoPkg]
      /\ UNCHANGED <<sess, cur, resetIO, dispatchedPackageIndex, packageIndex, pc, slots, outPkgs,
                     requested, timeout, line, sent, got, broken, again, raced>>
  BY UartParts DEF DispatchDuplicate, sendVars, histVars
<1>2. TypeOK'
  BY <1>1 DEF TypeOK
<1>3. \A d \in End : rd'[d] # NoPkg => rd'[d] = rd[d]
  BY <1>1 DEF TypeOK
<1>4. OneUsed' /\ LinesFit' /\ InUse'
  BY <1>1, <1>3 DEF OneUsed, Used, LinesFit, InUse, InMap, End
<1> QED BY <1>1, <1>2, <1>4, Quiet

\* What a step does to the sessions, when it takes none out of the map and
\* connects no other.
Kept(ss, ss2) ==
  \A d \in End, x \in Session : /\ ss2[d][x] # "none" <=> ss[d][x] # "none"
                                /\ Found(ss, d, x) => Found(ss2, d, x)

\* OnTransferErrorRaw leaves the session in the map.
LEMMA ErrorKeeps ==
  ASSUME TypeOK, NEW e \in End, NEW s \in Session, InMap(e, s), TransferError(e, s)
  PROVE  /\ Kept(sess, sess') /\ slots' \in [End -> SUBSET Session]
         /\ sess' \in [End -> [Session -> {"none", "live", "dead", "shut", "gone"}]]
<1>1. /\ sess \in [End -> [Session -> {"none", "live", "dead", "shut", "gone"}]]
      /\ slots \in [End -> SUBSET Session] /\ SlotsCleared(e, s) \subseteq slots[e]
  BY DEF TypeOK, SlotsCleared
<1>2. PICK v \in {"shut", "dead"} : sess' = [sess EXCEPT ![e][s] = v]
  BY DEF TransferError
<1>3. sess' \in [End -> [Session -> {"none", "live", "dead", "shut", "gone"}]]
  BY <1>1, <1>2
<1>4. \A d \in End, x \in Session : sess'[d][x] = IF d = e /\ x = s THEN v ELSE sess[d][x]
  BY <1>1, <1>2
<1>5. Kept(sess, sess')
  BY <1>4 DEF Kept, Found, InMap
<1>6. slots' \in [End -> SUBSET Session]
  BY <1>1 DEF TransferError
<1> QED BY <1>3, <1>5, <1>6

\* The parts of the invariant about sessions survive that.
LEMMA KeptFits ==
  ASSUME UartInv, Kept(sess, sess'), TypeOK'
  PROVE  /\ OneUsed'
         /\ UNCHANGED <<line, rd>> => LinesFit'
         /\ UNCHANGED <<cur, rd, pc>> => InUse'
         /\ \A s \in Session : Used(s)' <=> Used(s)
<1>1. "host" \in End /\ "daemon" \in End /\ TypeOK /\ OneUsed /\ LinesFit /\ InUse
  BY UartParts DEF End
<1>2. \A s \in Session : Used(s)' <=> Used(s)
  BY <1>1 DEF Kept, Used
<1>3. OneUsed'
  BY <1>1, <1>2 DEF OneUsed
<1>4. ASSUME UNCHANGED <<line, rd>> PROVE LinesFit'
  BY <1>1, <1>2, <1>4, PkgIds DEF LinesFit, Kept
<1>5. ASSUME UNCHANGED <<cur, rd, pc>> PROVE InUse'
  <2>1. cur # NoSession => cur \in Session
    BY <1>1 DEF TypeOK
  <2> QED BY <1>1, <1>5, <2>1 DEF InUse, InMap, EndOf, Found, Kept, End
<1> QED BY <1>2, <1>3, <1>4, <1>5

\* ClearUARTOutMap leaves a part of the queue.
LEMMA OtherFits ==
  ASSUME NEW ss, NEW t, NEW e, NEW q \in Seq(Entries), QueueFits(ss, t, e, q), NEW s
  PROVE  /\ Other(q, s) \in Seq(Entries) /\ QueueFits(ss, t, e, Other(q, s))
         /\ \A k \in DOMAIN Other(q, s) :
              Other(q, s)[k].pkg.id # s /\ \E i \in DOMAIN q : Other(q, s)[k] = q[i]
<1> DEFINE I == {i \in DOMAIN q : q[i].pkg.id # s}
<1>1. I \in SUBSET (DOMAIN q) /\ \A i \in I : EntryFits(ss, t, e, q, i)
  BY DEF QueueFits
<1>2. Other(q, s) = Pick(q, I)
  BY DEF Other
<1>3. \A i \in I : i \in DOMAIN q /\ q[i].pkg.id # s
  OBVIOUS
<1> HIDE DEF I
<1>4. Pick(q, I) \in Seq(Entries) /\ QueueFits(ss, t, e, Pick(q, I))
  BY <1>1, FitsPick
<1>5. \A k \in DOMAIN Pick(q, I) : Nth(I, k) \in I /\ Pick(q, I)[k] = q[Nth(I, k)]
  BY <1>1, PickTakes
<1> QED BY <1>2, <1>3, <1>4, <1>5

\* StopSession clears the session's packages as it leaves the map.
LEMMA UartStops ==
  ASSUME UartInv, NEW e \in End, NEW s \in Session, StopSession(e, s)
  PROVE  UartInv'
<1>1. /\ TypeOK /\ OneUsed /\ LinesFit /\ InUse
      /\ outPkgs[e] \in Seq(Entries) /\ QueueFits(sess, timeout[e], e, outPkgs[e])
  BY UartParts
<1>2. /\ sess[e][s] \in {"dead", "shut"}
      /\ \A c \in Caller : EndOf(c) = e => pc[c].s # s
      /\ e = "host" => rd[e] = NoPkg
      /\ sess' = [sess EXCEPT ![e][s] = "gone"]
      /\ cur' = IF e = "host" /\ cur = s THEN NoSession ELSE cur
      /\ outPkgs' = [outPkgs EXCEPT ![e] = Other(outPkgs[e], s)]
      /\ slots' = [slots EXCEPT ![e] = SlotsCleared(e, s)]
      /\ requested' = [requested EXCEPT ![e] = TRUE]
      /\ UNCHANGED <<resetIO, dispatchedPackageIndex, packageIndex, pc, timeout,
                     line, rd, sent, got, broken, again, raced>>
  BY DEF StopSession, histVars
<1>3. /\ Other(outPkgs[e], s) \in Seq(Entries)
      /\ QueueFits(sess, timeout[e], e, Other(outPkgs[e], s))
      /\ \A k \in DOMAIN Other(outPkgs[e], s) : Other(outPkgs[e], s)[k].pkg.id # s
  BY <1>1, OtherFits
<1>4. TypeOK'
  <2>1. SlotsCleared(e, s) \subseteq slots[e]
    BY DEF SlotsCleared
  <2>2. outPkgs' \in [End -> Seq(Entries)]
    BY <1>1, <1>2, <1>3 DEF TypeOK, Entries
  <2>3. slots' \in [End -> SUBSET Session] /\ cur' \in Session \cup {NoSession}
    BY <1>1, <1>2, <2>1 DEF TypeOK
  <2>4. requested' \in [End -> BOOLEAN] /\ sess' \in [End -> [Session -> {"none", "live", "dead", "shut", "gone"}]]
    BY <1>1, <1>2 DEF TypeOK
  <2> QED BY <1>1, <1>2, <2>2, <2>3, <2>4 DEF TypeOK, Entries
<1>5. \A d \in End, x \in Session : sess'[d][x] = IF d = e /\ x = s THEN "gone" ELSE sess[d][x]
  BY <1>1, <1>2 DEF TypeOK
<1>6. OneUsed' /\ LinesFit'
  <2>1. "host" \in End /\ "daemon" \in End
    BY DEF End
  <2>2. \A d \in End, x \in Session : sess'[d][x] # "none" <=> sess[d][x] # "none"
    BY <1>2, <1>5
  <2> QED BY <1>1, <1>2, <2>1, <2>2, PkgIds DEF OneUsed, Used, LinesFit
<1>7. InUse'
  <2>1. "host" \in End /\ \A c \in Caller : EndOf(c) \in End
    BY DEF End, EndOf
  <2>2. cur # NoSession => cur \in Session
    BY <1>1 DEF TypeOK
  <2>3. (\A c \in Caller : pc[c].at # "idle" => pc[c].s \in Session /\ InMap(EndOf(c), pc[c].s))'
    BY <1>1, <1>2, <1>5, <2>1 DEF InUse, InMap
  <2>4. cur' # NoSession => InMap("host", cur)'
    BY <1>1, <1>2, <1>5, <2>1, <2>2 DEF InUse, InMap
  <2>5. rd'["host"] # NoPkg => cur' # NoSession
    BY <1>1, <1>2 DEF InUse
  <2> QED BY <2>3, <2>4, <2>5 DEF InUse
<1>8. QueueFits(sess', timeout'[e], e, outPkgs'[e]) /\ Awake(e)'
  <2>1. outPkgs'[e] = Other(outPkgs[e], s) /\ requested'[e] = TRUE /\ timeout'[e] = timeout[e]
    BY <1>1, <1>2 DEF TypeOK
  <2>2. \A x \in Session : x # s => /\ sess["host"][x] # "none" => sess'["host"][x] # "none"
                                    /\ Found(sess, e, x) => Found(sess', e, x)
    BY <1>5 DEF Found, End
  <2>3. \A k \in DOMAIN Other(outPkgs[e], s) : Other(outPkgs[e], s)[k].pkg.id \in Session
    BY <1>3, EntryIds
  <2>4. QueueFits(sess', timeout[e], e, Other(outPkgs[e], s))
    BY <1>3, <2>2, <2>3 DEF QueueFits, EntryFits, PkgFits
  <2> QED BY <2>1, <2>4 DEF Awake
<1>9. \A d \in End \ {e} : /\ outPkgs'[d] = outPkgs[d] /\ requested'[d] = requested[d]
                           /\ timeout'[d] = timeout[d]
                           /\ \A x \in Session : Found(sess, d, x) => Found(sess', d, x)
  BY <1>1, <1>2, <1>5 DEF TypeOK, Found
<1>10. \A x \in Session : sess["host"][x] # "none" => sess'["host"][x] # "none"
  BY <1>5 DEF End
<1> QED BY <1>4, <1>6, <1>7, <1>8, <1>9, <1>10, OneEnd

\* A package is added to the queue of one end, or to a part of it.
LEMMA Adds ==
  ASSUME UartInv, TypeOK', Kept(sess, sess'), OneUsed', LinesFit', InUse', NEW e \in End,
         NEW q \in Seq(Entries), QueueFits(sess, timeout[e], e, q), NEW p \in Package, PkgFits(sess, e, p),
         outPkgs' = [outPkgs EXCEPT ![e] = RequestSendPackage(q, p)],
         requested' = [requested EXCEPT ![e] = TRUE], UNCHANGED timeout
  PROVE  UartInv'
<1> DEFINE r == RequestSendPackage(q, p)
<1>1. r \in Seq(Entries) /\ QueueFits(sess, timeout[e], e, r)
  BY FitsAdd
<1>2. "host" \in End /\ TypeOK
  BY UartParts DEF End
<1>3. \A x \in Session : /\ sess["host"][x] # "none" => sess'["host"][x] # "none"
                         /\ \A d \in End : Found(sess, d, x) => Found(sess', d, x)
  BY <1>2 DEF Kept
<1>4. QueueFits(sess', timeout[e], e, r)
  BY <1>1, <1>3, FitsStill
<1>5. /\ outPkgs'[e] = r /\ requested'[e] = TRUE
      /\ \A d \in End \ {e} : outPkgs'[d] = outPkgs[d] /\ requested'[d] = requested[d] /\ timeout'[d] = timeout[d]
  BY <1>2 DEF TypeOK
<1>6. QueueFits(sess', timeout'[e], e, outPkgs'[e]) /\ Awake(e)'
  BY <1>4, <1>5 DEF Awake
<1> QED BY <1>3, <1>5, <1>6, OneEnd

\* What Adds needs to know of the types.
LEMMA AddsTypes ==
  ASSUME TypeOK, NEW e \in End, NEW q \in Seq(Entries), NEW p \in Package
  PROVE  /\ [outPkgs EXCEPT ![e] = RequestSendPackage(q, p)] \in [End -> Seq(Entries)]
         /\ [outPkgs EXCEPT ![e] = q] \in [End -> Seq(Entries)]
         /\ [requested EXCEPT ![e] = TRUE] \in [End -> BOOLEAN]
<1>1. Entry(p) \in Entries
  BY UartAssumption DEF Entry, Entries
<1>2. RequestSendPackage(q, p) \in Seq(Entries)
  BY <1>1 DEF RequestSendPackage
<1>3. outPkgs \in [End -> Seq(Entries)] /\ requested \in [End -> BOOLEAN]
  BY DEF TypeOK, Entries
<1> QED BY <1>2, <1>3

\* RequestSendPackage of a caller whose session is in the map.
LEMMA UartAdds ==
  ASSUME UartInv, NEW c \in Caller, NEW more \in BOOLEAN, AddPackage(c, more)
  PROVE  UartInv'
<1> DEFINE e == EndOf(c)
           s == pc[c].s
           p == Pkg("data", s, pc[c].n, sent[e][s] + 1)
<1>1. /\ TypeOK /\ OneUsed /\ LinesFit /\ InUse /\ e \in End
      /\ outPkgs[e] \in Seq(Entries) /\ QueueFits(sess, timeout[e], e, outPkgs[e])
  BY UartParts DEF EndOf, End
<1>2. /\ pc[c].at = "wait"
      /\ slots' = [slots EXCEPT ![e] = slots[e] \cup {s}]
      /\ outPkgs' = [outPkgs EXCEPT ![e] = RequestSendPackage(outPkgs[e], p)]
      /\ requested' = [requested EXCEPT ![e] = TRUE]
      /\ sent' = [sent EXCEPT ![e][s] = sent[e][s] + 1]
      /\ pc' = [pc EXCEPT ![c] = IF more THEN [at |-> "count", s |-> s, n |-> packageIndex[e][s]] ELSE Idle]
      /\ UNCHANGED <<sess, cur, resetIO, dispatchedPackageIndex, packageIndex, timeout, line, rd,
                     got, broken, again, raced>>
  BY DEF AddPackage
<1>3. s \in Session /\ InMap(e, s)
  BY <1>1, <1>2 DEF InUse
<1>4. sent[e][s] + 1 \in Nat /\ packageIndex[e][s] \in Nat /\ pc[c].n \in Nat
  BY <1>1, <1>3, CallerAt DEF TypeOK
<1>5. p \in Package /\ p.id = s
  BY <1>3, <1>4 DEF Pkg, Package
<1>6. PkgFits(sess, e, p)
  <2>1. sess[e][s] # "none" /\ Found(sess, e, s)
    BY <1>3 DEF InMap, Found
  <2>2. sess["host"][s] # "none"
    BY <1>1, <1>3, <2>1 DEF LinesFit, Used, End
  <2> QED BY <1>5, <2>1, <2>2 DEF PkgFits
<1> HIDE DEF e, s, p
<1>7. TypeOK'
  <2>1. outPkgs' \in [End -> Seq(Entries)] /\ requested' \in [End -> BOOLEAN]
    BY <1>1, <1>2, <1>5, AddsTypes
  <2>2. slots' \in [End -> SUBSET Session] /\ sent' \in [End -> [Session -> Nat]]
    BY <1>1, <1>2, <1>3, <1>4 DEF TypeOK
  <2>3. pc' \in [Caller -> [at : {"idle", "count", "wait"}, s : Session \cup {NoSession}, n : Nat]]
    BY <1>1, <1>2, <1>3, <1>4 DEF TypeOK, Idle
  <2> QED BY <1>1, <1>2, <2>1, <2>2, <2>3 DEF TypeOK, Entries
<1>8. Kept(sess, sess')
  BY <1>2 DEF Kept
<1>9. OneUsed' /\ LinesFit'
  BY <1>2, <1>7, <1>8, KeptFits
<1>10. InUse'
  <2>1. \A x \in Caller : pc'[x] = IF x # c THEN pc[x] ELSE
                            IF more THEN [at |-> "count", s |-> s, n |-> packageIndex[e][s]] ELSE Idle
    BY <1>1, <1>2 DEF TypeOK
  <2>2. pc'[c].at # "idle" => pc'[c].s \in Session /\ InMap(EndOf(c), pc'[c].s)
    BY <1>3, <2>1 DEF Idle, e
  <2> QED BY <1>1, <1>2, <2>1, <2>2 DEF InUse, InMap
<1> QED BY <1>1, <1>2, <1>5, <1>6, <1>7, <1>8, <1>9, <1>10, Adds

\* FreePkg asks the other side to free a session that is in the map.
LEMMA UartAsksFree ==
  ASSUME UartInv, NEW e \in End, NEW s \in Session, InMap(e, s), Kept(sess, sess'),
         packageIndex' = [packageIndex EXCEPT ![e][s] = @ + 1],
         outPkgs' = [outPkgs EXCEPT ![e] = RequestSendPackage(@, FreePkg(s, packageIndex[e][s]))],
         requested' = [requested EXCEPT ![e] = TRUE],
         sess' \in [End -> [Session -> {"none", "live", "dead", "shut", "gone"}]],
         rd' \in [End -> Package \cup {NoPkg}], \A d \in End : rd'[d] # NoPkg => rd'[d] = rd[d],
         dispatchedPackageIndex' \in [End -> [Session -> Nat]], broken' \in [End -> SUBSET Session],
         UNCHANGED <<cur, resetIO, pc, slots, timeout, line, sent, got, again, raced>>
  PROVE  UartInv'
<1>1. /\ TypeOK /\ OneUsed /\ LinesFit /\ InUse
      /\ outPkgs[e] \in Seq(Entries) /\ QueueFits(sess, timeout[e], e, outPkgs[e])
  BY UartParts
<1> DEFINE p == FreePkg(s, packageIndex[e][s])
<1>2. packageIndex[e][s] \in Nat
  BY <1>1 DEF TypeOK
<1>3. p \in Package /\ p.id = s
  BY <1>2 DEF FreePkg, Pkg, Package
<1>4. PkgFits(sess, e, p)
  <2>1. sess[e][s] # "none" /\ Found(sess, e, s)
    BY DEF InMap, Found
  <2>2. sess["host"][s] # "none"
    BY <1>1, <2>1 DEF LinesFit, Used, End
  <2> QED BY <1>3, <2>1, <2>2 DEF PkgFits
<1>5. outPkgs' = [outPkgs EXCEPT ![e] = RequestSendPackage(outPkgs[e], p)]
  OBVIOUS
<1> HIDE DEF p
<1>6. TypeOK'
  <2>1. outPkgs' \in [End -> Seq(Entries)] /\ requested' \in [End -> BOOLEAN]
    BY <1>1, <1>3, <1>5, AddsTypes
  <2>2. packageIndex' \in [End -> [Session -> Nat]]
    BY <1>1, <1>2 DEF TypeOK
  <2> QED BY <1>1, <2>1, <2>2 DEF TypeOK, Entries
<1>7. OneUsed' /\ \A x \in Session : Used(x)' <=> Used(x)
  BY <1>6, KeptFits
<1>8. LinesFit'
  BY <1>1, <1>7, PkgIds DEF LinesFit, Kept, End
<1>9. InUse'
  <2>1. cur # NoSession => cur \in Session
    BY <1>1 DEF TypeOK
  <2> QED BY <1>1, <2>1 DEF InUse, InMap, EndOf, Found, Kept, End
<1> QED BY <1>1, <1>3, <1>4, <1>5, <1>6, <1>7, <1>8, <1>9, Adds

\* A worker that refuses what came.
LEMMA UartRefuses ==
  ASSUME UartInv, NEW e \in End, NEW s \in Session, WorkerRefuses(e, s)
  PROVE  UartInv'
<1>1. TypeOK /\ UNCHANGED <<cur, resetIO, dispatchedPackageIndex, pc, slots, timeout, line, rd, sent, got, broken, again, raced>>
  BY UartParts DEF WorkerRefuses, histVars
<1>2. sess[e][s] = "live" /\ sess' = [sess EXCEPT ![e][s] = "dead"] /\ InMap(e, s)
  BY DEF WorkerRefuses, InMap
<1>3. sess' \in [End -> [Session -> {"none", "live", "dead", "shut", "gone"}]]
  BY <1>1, <1>2 DEF TypeOK
<1>4. Kept(sess, sess')
  <2>1. \A d \in End, x \in Session : sess'[d][x] = IF d = e /\ x = s THEN "dead" ELSE sess[d][x]
    BY <1>1, <1>2 DEF TypeOK
  <2> QED BY <1>2, <2>1 DEF Kept, Found
<1>5. /\ rd' \in [End -> Package \cup {NoPkg}] /\ \A d \in End : rd'[d] # NoPkg => rd'[d] = rd[d]
      /\ dispatchedPackageIndex' \in [End -> [Session -> Nat]] /\ broken' \in [End -> SUBSET Session]
  BY <1>1 DEF TypeOK
<1> QED BY <1>1, <1>2, <1>3, <1>4, <1>5, UartAsksFree DEF WorkerRefuses

\* A package whose session is found cannot be dispatched.
LEMMA UartFails ==
  ASSUME UartInv, NEW e \in End, DispatchFail(e)
  PROVE  UartInv'
<1> DEFINE s == Target(e)
<1>1. /\ TypeOK /\ InUse /\ rd[e] # NoPkg /\ ~IsNew(e) /\ rd[e].id = s
      /\ UNCHANGED <<sess, cur, resetIO, pc, slots, timeout, line, sent, got, again, raced>>
  BY UartParts DEF DispatchFail
<1>2. rd[e] \in Package /\ s \in Session /\ rd[e].idx \in Nat
  <2>1. rd[e] \in Package /\ rd[e].id \in Session
    BY <1>1, PkgIds
  <2> QED BY <1>1, <2>1 DEF Package
<1>3. InMap(e, s)
  <2>1. CASE e = "daemon"
    BY <1>1, <2>1 DEF IsNew
  <2>2. CASE e = "host"
    BY <1>1, <2>2 DEF InUse, Target
  <2> QED BY <2>1, <2>2 DEF End
<1>4. /\ rd' = [rd EXCEPT ![e] = NoPkg]
      /\ dispatchedPackageIndex' = [dispatchedPackageIndex EXCEPT ![e][s] = rd[e].idx]
      /\ packageIndex' = [packageIndex EXCEPT ![e][s] = @ + 1]
      /\ outPkgs' = [outPkgs EXCEPT ![e] = RequestSendPackage(@, FreePkg(s, packageIndex[e][s]))]
      /\ requested' = [requested EXCEPT ![e] = TRUE]
      /\ broken' = [broken EXCEPT ![e] = broken[e] \cup {s}]
  BY DEF DispatchFail
<1> HIDE DEF s
<1>5. /\ rd' \in [End -> Package \cup {NoPkg}] /\ \A d \in End : rd'[d] # NoPkg => rd'[d] = rd[d]
      /\ dispatchedPackageIndex' \in [End -> [Session -> Nat]] /\ broken' \in [End -> SUBSET Session]
  BY <1>1, <1>2, <1>4 DEF TypeOK
<1>6. sess' \in [End -> [Session -> {"none", "live", "dead", "shut", "gone"}]] /\ Kept(sess, sess')
  BY <1>1 DEF TypeOK, Kept
<1> QED BY <1>1, <1>2, <1>3, <1>4, <1>5, <1>6, UartAsksFree

\* A package reaches the worker; the daemon makes a session for a new id.
LEMMA UartDispatches ==
  ASSUME UartInv, NEW e \in End, DispatchPackageData(e)
  PROVE  UartInv'
<1> DEFINE s == Target(e)
<1>1. /\ TypeOK /\ OneUsed /\ LinesFit /\ InUse /\ rd[e] # NoPkg /\ rd[e].id = s
      /\ rd' = [rd EXCEPT ![e] = NoPkg]
      /\ dispatchedPackageIndex' = [dispatchedPackageIndex EXCEPT ![e][s] = rd[e].idx]
      /\ got' = [got EXCEPT ![e][s] = Append(IF IsNew(e) THEN <<>> ELSE got[e][s], rd[e].val)]
      /\ sess' = [sess EXCEPT ![e][s] = IF IsNew(e) THEN "live" ELSE sess[e][s]]
      /\ packageIndex' = [packageIndex EXCEPT ![e][s] = IF IsNew(e) THEN 0 ELSE packageIndex[e][s]]
      /\ again' = again \cup IF IsNew(e) /\ sess[e][s] = "gone" THEN {s} ELSE {}
      /\ UNCHANGED <<cur, resetIO, pc, slots, outPkgs, requested, timeout, line, sent, broken, raced>>
  BY UartParts DEF DispatchPackageData
<1>2. s \in Session /\ rd[e].idx \in Nat /\ rd[e].val \in Nat
  <2>1. rd[e] \in Package /\ rd[e].id \in Session
    BY <1>1, PkgIds
  <2> QED BY <1>1, <2>1 DEF Package
<1>3. IsNew(e) => e = "daemon"
  BY DEF IsNew
<1> HIDE DEF s
<1>4. TypeOK'
  <2>1. Append(IF IsNew(e) THEN <<>> ELSE got[e][s], rd[e].val) \in Seq(Nat)
    BY <1>1, <1>2 DEF TypeOK
  <2>2. got' \in [End -> [Session -> Seq(Nat)]]
    BY <1>1, <1>2, <2>1 DEF TypeOK
  <2>3. /\ rd' \in [End -> Package \cup {NoPkg}]
        /\ dispatchedPackageIndex' \in [End -> [Session -> Nat]] /\ packageIndex' \in [End -> [Session -> Nat]]
        /\ sess' \in [End -> [Session -> {"none", "live", "dead", "shut", "gone"}]] /\ again' \subseteq Session
    BY <1>1, <1>2 DEF TypeOK
  <2> QED BY <1>1, <2>2, <2>3 DEF TypeOK
<1>5. /\ \A d \in End, x \in Session :
           sess'[d][x] = IF d = e /\ x = s /\ IsNew(e) THEN "live" ELSE sess[d][x]
      /\ \A d \in End : rd'[d] # NoPkg => rd'[d] = rd[d]
  BY <1>1, <1>2 DEF TypeOK
<1>6. \A x \in Session : Used(x)' <=> Used(x)
  BY <1>3, <1>5 DEF Used, End
<1>7. \A d \in End, x \in Session : Found(sess, d, x) => Found(sess', d, x)
  BY <1>5 DEF Found
<1>8. OneUsed'
  BY <1>1, <1>6 DEF OneUsed
<1>9. LinesFit'
  <2>1. Used(s)
    BY <1>1 DEF LinesFit
  <2> QED BY <1>1, <1>5, <1>6, <2>1, PkgIds DEF LinesFit, End
<1>10. InUse'
  <2>1. cur # NoSession => cur \in Session
    BY <1>1 DEF TypeOK
  <2> QED BY <1>1, <1>5, <1>7, <2>1 DEF InUse, InMap, EndOf, Found, End
<1>11. \A x \in Session : sess["host"][x] # "none" => sess'["host"][x] # "none"
  BY <1>6 DEF Used
<1> QED BY <1>1, <1>4, <1>7, <1>8, <1>9, <1>10, <1>11, Quiet

\* ClearUARTOutMap after an error of the session.
LEMMA UartError ==
  ASSUME UartInv, NEW e \in End, NEW s \in Session, InMap(e, s), TransferError(e, s),
         outPkgs' = [outPkgs EXCEPT ![e] = Other(@, s)],
         requested' = [requested EXCEPT ![e] = TRUE],
         line' \in [End -> Seq(Package)], LinesFit', UNCHANGED rd,
         UNCHANGED <<cur, resetIO, dispatchedPackageIndex, packageIndex, pc, timeout,
                     sent, got, broken, again, raced>>
  PROVE  UartInv'
<1>1. /\ TypeOK /\ outPkgs[e] \in Seq(Entries) /\ QueueFits(sess, timeout[e], e, outPkgs[e])
  BY UartParts
<1>2. /\ Kept(sess, sess') /\ slots' \in [End -> SUBSET Session]
      /\ sess' \in [End -> [Session -> {"none", "live", "dead", "shut", "gone"}]]
  BY <1>1, ErrorKeeps
<1>3. Other(outPkgs[e], s) \in Seq(Entries) /\ QueueFits(sess, timeout[e], e, Other(outPkgs[e], s))
  BY <1>1, OtherFits
<1>4. TypeOK'
  <2>1. outPkgs' \in [End -> Seq(Entries)] /\ requested' \in [End -> BOOLEAN]
    BY <1>1, <1>3 DEF TypeOK, Entries
  <2> QED BY <1>1, <1>2, <2>1 DEF TypeOK, Entries
<1>5. OneUsed' /\ InUse'
  BY <1>2, <1>4, KeptFits
<1>6. \A x \in Session : /\ sess["host"][x] # "none" => sess'["host"][x] # "none"
                         /\ \A d \in End : Found(sess, d, x) => Found(sess', d, x)
  BY <1>2 DEF Kept, End
<1>7. QueueFits(sess', timeout[e], e, Other(outPkgs[e], s))
  BY <1>3, <1>6, FitsStill
<1>8. /\ outPkgs'[e] = Other(outPkgs[e], s) /\ requested'[e] = TRUE
      /\ \A d \in End \ {e} : outPkgs'[d] = outPkgs[d] /\ requested'[d] = requested[d] /\ timeout'[d] = timeout[d]
  BY <1>1 DEF TypeOK
<1>9. QueueFits(sess', timeout'[e], e, outPkgs'[e]) /\ Awake(e)'
  BY <1>7, <1>8 DEF Awake
<1> QED BY <1>4, <1>5, <1>6, <1>8, <1>9, OneEnd

\* ReadUartDev fails.
LEMMA UartReadFails ==
  ASSUME UartInv, ReadFails
  PROVE  UartInv'
<1>1. TypeOK /\ InUse /\ LinesFit /\ "host" \in End
  BY UartParts DEF End
<1>2. cur \in Session /\ InMap("host", cur)
  BY <1>1 DEF ReadFails, TypeOK, InUse
<1>3. /\ TransferError("host", cur) /\ outPkgs' = [outPkgs EXCEPT !["host"] = Other(@, cur)]
      /\ requested' = [requested EXCEPT !["host"] = TRUE]
      /\ UNCHANGED <<cur, resetIO, dispatchedPackageIndex, packageIndex, pc, timeout, line, rd, sent, got,
                     broken, again, raced>>
  BY DEF ReadFails, histVars
<1>4. Kept(sess, sess')
  BY <1>1, <1>2, <1>3, ErrorKeeps
<1>5. LinesFit'
  BY <1>1, <1>3, <1>4, PkgIds DEF LinesFit, Kept, Used, End
<1>6. line' \in [End -> Seq(Package)]
  BY <1>1, <1>3 DEF TypeOK
<1> QED BY <1>1, <1>2, <1>3, <1>5, <1>6, UartError

\* ProcessResponsePackage takes a part of the queue away.
LEMMA AckedFits ==
  ASSUME NEW ss, NEW t, NEW e, NEW q \in Seq(Entries), QueueFits(ss, t, e, q), NEW a
  PROVE  Acked(q, a) \in Seq(Entries) /\ QueueFits(ss, t, e, Acked(q, a))
<1> DEFINE I == {i \in DOMAIN q : IsResponse(q[i].pkg) \/ q[i].pkg.id # a.id \/ q[i].pkg.idx # a.idx}
<1>1. I \in SUBSET (DOMAIN q) /\ \A i \in I : EntryFits(ss, t, e, q, i)
  BY DEF QueueFits
<1>2. Acked(q, a) = Pick(q, I)
  BY DEF Acked
<1> HIDE DEF I
<1> QED BY <1>1, <1>2, FitsPick

\* ValidateUartPacket: an answer, a reset, a request to free, or data.
LEMMA UartValidates ==
  ASSUME UartInv, NEW e \in End, ValidateUartPacket(e)
  PROVE  UartInv'
<1> DEFINE p == Head(line[Peer(e)])
<1>1. /\ TypeOK /\ OneUsed /\ LinesFit /\ InUse
      /\ outPkgs[e] \in Seq(Entries) /\ QueueFits(sess, timeout[e], e, outPkgs[e])
  BY UartParts
<1>2. Peer(e) \in End /\ "host" \in End
  BY DEF Peer, End
<1>3. /\ Reads(e) /\ rd[e] = NoPkg /\ line[Peer(e)] # <<>>
      /\ line' = [line EXCEPT ![Peer(e)] = Tail(line[Peer(e)])]
      /\ requested' = [requested EXCEPT ![e] = requested[e] \/ (p.kind = "reset" => e = "daemon" /\ InMap(e, p.id))]
      /\ rd' = [rd EXCEPT ![e] = IF p.kind = "data" THEN p ELSE NoPkg]
      /\ UNCHANGED <<cur, resetIO, dispatchedPackageIndex, packageIndex, pc, timeout, sent, got, broken, again, raced>>
  BY DEF ValidateUartPacket, histVars
<1>4. /\ CASE p.kind = "ack"   -> ProcessResponsePackage(e, p)
           [] p.kind = "reset" -> ResetOldSession(e, p.id)
           [] p.kind = "free"  -> Restartession(e, p)
           [] p.kind = "data"  -> /\ outPkgs' = [outPkgs EXCEPT ![e] = RequestSendPackage(@, Ack(p))]
                                  /\ UNCHANGED <<sess, slots>>
  BY DEF ValidateUartPacket
<1>5. /\ line[Peer(e)] \in Seq(Package) /\ Tail(line[Peer(e)]) \in Seq(Package)
      /\ p = line[Peer(e)][1] /\ 1 \in DOMAIN line[Peer(e)]
      /\ \A i \in DOMAIN Tail(line[Peer(e)]) :
           i + 1 \in DOMAIN line[Peer(e)] /\ Tail(line[Peer(e)])[i] = line[Peer(e)][i + 1]
  <2>1. line[Peer(e)] \in Seq(Package)
    BY <1>1, <1>2, PkgIds
  <2> QED BY <1>3, <2>1, TailAt
<1>6. p \in Package /\ p.id \in Session /\ p.idx \in Nat /\ p.kind \in {"data", "ack", "free", "reset"}
  <2>1. p \in Package
    BY <1>5
  <2> QED BY <2>1 DEF Package
<1>7. Used(p.id)
  BY <1>1, <1>2, <1>5 DEF LinesFit
<1>8. Ack(p) \in Package /\ Ack(p).id = p.id /\ IsResponse(Ack(p))
  BY <1>6 DEF Ack, Pkg, Package, IsResponse
<1> HIDE DEF p
<1>9. PkgFits(sess, e, Ack(p))
  <2>1. CASE e = "daemon"
    BY <1>7, <1>8, <2>1 DEF PkgFits, Used
  <2>2. CASE e = "host"
    <3>1. cur # NoSession /\ cur \in Session /\ InMap("host", cur)
      BY <1>1, <1>3, <2>2 DEF Reads, InUse, TypeOK
    <3>2. Used(cur)
      BY <3>1 DEF InMap, Used
    <3>3. p.id = cur
      BY <1>1, <1>6, <1>7, <3>1, <3>2 DEF OneUsed
    <3> QED BY <1>7, <1>8, <2>2, <3>1, <3>3 DEF PkgFits, Used, Found, InMap
  <2> QED BY <2>1, <2>2 DEF End
<1>10. line' \in [End -> Seq(Package)] /\ rd' \in [End -> Package \cup {NoPkg}]
  BY <1>1, <1>2, <1>3, <1>5, <1>6 DEF TypeOK
<1>11. /\ \A d \in End : \A i \in DOMAIN line'[d] : line'[d][i].id \in Session /\ Used(line'[d][i].id)
       /\ \A d \in End : rd'[d] # NoPkg => rd'[d].id \in Session /\ Used(rd'[d].id)
  <2>1. line'[Peer(e)] = Tail(line[Peer(e)]) /\ \A d \in End : d # Peer(e) => line'[d] = line[d]
    BY <1>1, <1>2, <1>3 DEF TypeOK
  <2>2. \A d \in End : rd'[d] # NoPkg => rd'[d] = rd[d] \/ rd'[d] = p
    BY <1>1, <1>3 DEF TypeOK
  <2>3. ASSUME NEW d \in End PROVE \A i \in DOMAIN line'[d] : line'[d][i].id \in Session /\ Used(line'[d][i].id)
    <3>1. \A i \in DOMAIN line[d] : line[d][i].id \in Session /\ Used(line[d][i].id)
      BY <1>1, PkgIds DEF LinesFit
    <3>2. CASE d = Peer(e)
      BY <1>5, <2>1, <3>1, <3>2
    <3>3. CASE d # Peer(e)
      BY <2>1, <3>1, <3>3
    <3> QED BY <3>2, <3>3
  <2>4. ASSUME NEW d \in End, rd'[d] # NoPkg PROVE rd'[d].id \in Session /\ Used(rd'[d].id)
    <3>1. rd[d] # NoPkg => rd[d].id \in Session /\ Used(rd[d].id)
      BY <1>1, PkgIds DEF LinesFit
    <3> QED BY <1>6, <1>7, <2>2, <2>4, <3>1
  <2> QED BY <2>3, <2>4
<1>12. ASSUME Kept(sess, sess') PROVE LinesFit' /\ OneUsed' /\ InUse'
  <2>1. \A s \in Session : Used(s)' <=> Used(s)
    BY <1>2, <1>12 DEF Kept, Used
  <2>2. LinesFit'
    BY <1>1, <1>11, <1>12, <2>1 DEF LinesFit, Kept, End
  <2>3. OneUsed'
    BY <1>1, <2>1 DEF OneUsed
  <2>4. (cur # NoSession => cur \in Session) /\ \A c \in Caller : EndOf(c) \in End
    BY <1>1 DEF TypeOK, EndOf, End
  <2>5. rd'["host"] # NoPkg => cur # NoSession
    <3>1. CASE e = "host"
      BY <1>3, <3>1 DEF Reads
    <3>2. CASE e # "host"
      <4>1. rd'["host"] = rd["host"]
        BY <1>1, <1>2, <1>3, <3>2 DEF TypeOK
      <4> QED BY <1>1, <4>1 DEF InUse
    <3> QED BY <3>1, <3>2
  <2>6. InUse'
    BY <1>1, <1>2, <1>3, <1>12, <2>4, <2>5 DEF InUse, InMap, Found, Kept
  <2> QED BY <2>2, <2>3, <2>6
<1>13. ASSUME p.kind # "reset" PROVE requested' = [requested EXCEPT ![e] = TRUE]
  BY <1>3, <1>13
<1>14. ASSUME Kept(sess, sess'), sess' \in [End -> [Session -> {"none", "live", "dead", "shut", "gone"}]],
              slots' \in [End -> SUBSET Session], NEW q \in Seq(Entries), QueueFits(sess, timeout[e], e, q),
              outPkgs' = [outPkgs EXCEPT ![e] = RequestSendPackage(q, Ack(p))], p.kind # "reset"
       PROVE  UartInv'
  <2>1. outPkgs' \in [End -> Seq(Entries)] /\ requested' \in [End -> BOOLEAN]
    BY <1>1, <1>8, <1>13, <1>14, AddsTypes
  <2>2. TypeOK'
    BY <1>1, <1>3, <1>10, <1>14, <2>1 DEF TypeOK, Entries
  <2> QED BY <1>3, <1>8, <1>9, <1>12, <1>13, <1>14, <2>2, Adds
<1>15. CASE p.kind = "data"
  <2>1. outPkgs' = [outPkgs EXCEPT ![e] = RequestSendPackage(outPkgs[e], Ack(p))] /\ UNCHANGED <<sess, slots>>
    BY <1>4, <1>15
  <2>2. /\ Kept(sess, sess') /\ slots' \in [End -> SUBSET Session]
        /\ sess' \in [End -> [Session -> {"none", "live", "dead", "shut", "gone"}]]
    BY <1>1, <2>1 DEF Kept, TypeOK
  <2> QED BY <1>1, <1>14, <1>15, <2>1, <2>2
<1>16. CASE p.kind = "free"
  <2>0. Restartession(e, p)
    BY <1>4, <1>16
  <2>1. CASE InMap(e, p.id)
    <3>1. /\ TransferError(e, p.id)
          /\ outPkgs' = [outPkgs EXCEPT ![e] = RequestSendPackage(Other(outPkgs[e], p.id), Ack(p))]
      BY <2>0, <2>1 DEF Restartession
    <3>2. /\ Kept(sess, sess') /\ slots' \in [End -> SUBSET Session]
          /\ sess' \in [End -> [Session -> {"none", "live", "dead", "shut", "gone"}]]
      BY <1>1, <1>6, <2>1, <3>1, ErrorKeeps
    <3>3. Other(outPkgs[e], p.id) \in Seq(Entries) /\ QueueFits(sess, timeout[e], e, Other(outPkgs[e], p.id))
      BY <1>1, OtherFits
    <3> QED BY <1>14, <1>16, <3>1, <3>2, <3>3
  <2>2. CASE ~InMap(e, p.id)
    <3>1. /\ outPkgs' = [outPkgs EXCEPT ![e] = RequestSendPackage(outPkgs[e], Ack(p))] /\ UNCHANGED <<sess, slots>>
      BY <2>0, <2>2 DEF Restartession
    <3>2. /\ Kept(sess, sess') /\ slots' \in [End -> SUBSET Session]
          /\ sess' \in [End -> [Session -> {"none", "live", "dead", "shut", "gone"}]]
      BY <1>1, <3>1 DEF Kept, TypeOK
    <3> QED BY <1>1, <1>14, <1>16, <3>1, <3>2
  <2> QED BY <2>1, <2>2
<1>17. CASE p.kind = "ack"
  <2>1. /\ outPkgs' = [outPkgs EXCEPT ![e] = Acked(outPkgs[e], p)] /\ UNCHANGED sess
        /\ slots' = [slots EXCEPT ![e] = SlotsAcked(e, p)]
    BY <1>4, <1>17 DEF ProcessResponsePackage
  <2>2. Acked(outPkgs[e], p) \in Seq(Entries) /\ QueueFits(sess, timeout[e], e, Acked(outPkgs[e], p))
    BY <1>1, AckedFits
  <2>3. Kept(sess, sess')
    BY <2>1 DEF Kept
  <2>4. TypeOK'
    <3>1. SlotsAcked(e, p) \subseteq slots[e]
      BY DEF SlotsAcked
    <3>2. slots' \in [End -> SUBSET Session] /\ requested' \in [End -> BOOLEAN]
      BY <1>1, <1>13, <1>17, <2>1, <3>1 DEF TypeOK
    <3>3. outPkgs' \in [End -> Seq(Entries)]
      BY <1>1, <2>1, <2>2 DEF TypeOK, Entries
    <3> QED BY <1>1, <1>3, <1>10, <2>1, <3>2, <3>3 DEF TypeOK, Entries
  <2>5. /\ outPkgs'[e] = Acked(outPkgs[e], p) /\ requested'[e] = TRUE
        /\ \A d \in End \ {e} : outPkgs'[d] = outPkgs[d] /\ requested'[d] = requested[d] /\ timeout'[d] = timeout[d]
    BY <1>1, <1>3, <1>13, <1>17, <2>1 DEF TypeOK
  <2>6. QueueFits(sess', timeout'[e], e, outPkgs'[e]) /\ Awake(e)'
    BY <1>3, <2>1, <2>2, <2>5 DEF Awake
  <2> QED BY <1>12, <2>1, <2>3, <2>4, <2>5, <2>6, OneEnd
<1>18. CASE p.kind = "reset"
  <2>1. rd' = rd
    BY <1>1, <1>3, <1>18 DEF TypeOK
  <2>2. CASE e = "daemon" /\ InMap(e, p.id)
    <3>1. TransferError(e, p.id) /\ outPkgs' = [outPkgs EXCEPT ![e] = Other(@, p.id)]
      BY <1>4, <1>18, <2>2 DEF ResetOldSession
    <3>2. requested' = [requested EXCEPT ![e] = TRUE]
      BY <1>3, <2>2
    <3>3. LinesFit'
      BY <1>1, <1>6, <1>12, <2>2, <3>1, ErrorKeeps
    <3> QED BY <1>3, <1>6, <1>10, <2>1, <2>2, <3>1, <3>2, <3>3, UartError
  <2>3. CASE ~(e = "daemon" /\ InMap(e, p.id))
    <3>1. UNCHANGED <<sess, slots, outPkgs>>
      BY <1>4, <1>18, <2>3 DEF ResetOldSession
    <3>2. requested' = requested
      <4>1. requested \in [End -> BOOLEAN]
        BY <1>1 DEF TypeOK
      <4>2. requested' = [requested EXCEPT ![e] = requested[e]]
        BY <1>3, <1>18, <2>3, <4>1
      <4> QED BY <4>1, <4>2
    <3>3. Kept(sess, sess')
      BY <3>1 DEF Kept
    <3>4. TypeOK'
      BY <1>1, <1>3, <1>10, <3>1, <3>2 DEF TypeOK
    <3> QED BY <1>3, <1>12, <3>1, <3>2, <3>3, <3>4, Quiet
  <2> QED BY <2>2, <2>3
<1> QED BY <1>6, <1>15, <1>16, <1>17, <1>18

-----------------------------------------------------------------------------
(* The write thread's pass                                                 *)

\* The pass ends behind the queue, or at a package that is late or cannot be sent.
LEMMA PassStops ==
  ASSUME NEW e \in End, outPkgs[e] \in Seq(Entries), NEW late, NEW bad
  PROVE  LET q == outPkgs[e]
             b == Stop(e, late, bad)
         IN  /\ b \in 1 .. Len(q) + 1
             /\ b <= Len(q) => b \in late \/ (ToSend(q, b) /\ (b \in bad \/ ~CanSend(e, q[b].pkg)))
             /\ b > Len(q) => \A i \in DOMAIN q : i \notin late
<1> DEFINE q == outPkgs[e]
           B == {i \in DOMAIN q : \/ i \in late
                                  \/ ToSend(q, i) /\ (i \in bad \/ ~CanSend(e, q[i].pkg))}
           b == Stop(e, late, bad)
<1>1. b = IF B = {} THEN Len(q) + 1 ELSE Min(B)
  BY DEF Stop
<1>2. Len(q) \in Nat /\ DOMAIN q = 1 .. Len(q) /\ B \in SUBSET (1 .. Len(q))
  OBVIOUS
<1>3. \A i \in B : i \in DOMAIN q /\ (i \in late \/ (ToSend(q, i) /\ (i \in bad \/ ~CanSend(e, q[i].pkg))))
  OBVIOUS
<1>4. \A i \in DOMAIN q : i \in late => i \in B
  OBVIOUS
<1> HIDE DEF B, b, q
<1>5. CASE B = {}
  <2>1. b = Len(q) + 1
    BY <1>1, <1>5
  <2> QED BY <1>2, <1>4, <1>5, <2>1 DEF b, q
<1>6. CASE B # {}
  <2>1. b \in B
    BY <1>1, <1>2, <1>6, MinIsIn
  <2>2. b \in 1 .. Len(q) /\ ~(b > Len(q))
    BY <1>2, <2>1
  <2> QED BY <1>2, <1>3, <2>1, <2>2 DEF b, q
<1> QED BY <1>5, <1>6

\* What the pass has made of the queue before it drops the responses it has sent.
Seen(e, b) ==
  [i \in DOMAIN outPkgs[e] |-> IF i < b /\ ToSend(outPkgs[e], i)
                               THEN [outPkgs[e][i] EXCEPT !.st = "response"] ELSE outPkgs[e][i]]
Remaining(e, b) ==
  {i \in DOMAIN Seen(e, b) : ~(IsResponse(Seen(e, b)[i].pkg) /\ Seen(e, b)[i].st = "response")}

\* Of each package it changes the status only, and only if it is sent.
LEMMA SeenFits ==
  ASSUME NEW e \in End, outPkgs[e] \in Seq(Entries), NEW b \in Nat
  PROVE  /\ Seen(e, b) \in Seq(Entries) /\ DOMAIN Seen(e, b) = DOMAIN outPkgs[e]
         /\ Passed(e, b) = Pick(Seen(e, b), Remaining(e, b)) /\ Remaining(e, b) \in SUBSET (DOMAIN Seen(e, b))
         /\ \A i \in DOMAIN outPkgs[e] :
              /\ Seen(e, b)[i].pkg = outPkgs[e][i].pkg /\ Seen(e, b)[i].retry = outPkgs[e][i].retry
              /\ ~(i < b /\ ToSend(outPkgs[e], i)) => Seen(e, b)[i] = outPkgs[e][i]
              /\ i < b /\ ToSend(outPkgs[e], i) => Seen(e, b)[i].st = "response"
              /\ Blocked(Seen(e, b), i) <=> Blocked(outPkgs[e], i)
<1> DEFINE q == outPkgs[e]
           r == Seen(e, b)
<1>1. Len(q) \in Nat /\ DOMAIN q = 1 .. Len(q) /\ \A i \in DOMAIN q : q[i] \in Entries
  OBVIOUS
<1>2. DOMAIN r = DOMAIN q
  BY DEF Seen
<1>3. ASSUME NEW i \in DOMAIN q
      PROVE  /\ r[i] \in Entries /\ r[i].pkg = q[i].pkg /\ r[i].retry = q[i].retry
             /\ ~(i < b /\ ToSend(q, i)) => r[i] = q[i]
             /\ i < b /\ ToSend(q, i) => r[i].st = "response"
  <2>1. r[i] = IF i < b /\ ToSend(q, i) THEN [q[i] EXCEPT !.st = "response"] ELSE q[i]
    BY DEF Seen
  <2>2. q[i] \in Entries
    BY <1>1
  <2> HIDE DEF q, r
  <2> QED BY <2>1, <2>2 DEF Entries
<1>4. r \in Seq(Entries)
  <2>1. r \in [1 .. Len(q) -> Entries]
    <3>1. r = [i \in DOMAIN q |-> r[i]]
      BY DEF Seen
    <3> HIDE DEF r, q
    <3> QED BY <1>1, <1>3, <3>1
  <2> QED BY <1>1, <2>1
<1>5. \A i \in DOMAIN q : Blocked(r, i) <=> Blocked(q, i)
  <2> TAKE i \in DOMAIN q
  <2>1. \A j \in 1 .. i - 1 : j \in DOMAIN q
    BY <1>1
  <2> HIDE DEF q, r
  <2> QED BY <1>3, <2>1 DEF Blocked
<1>6. Passed(e, b) = Pick(r, Remaining(e, b)) /\ Remaining(e, b) \in SUBSET (DOMAIN r)
  BY DEF Passed, Seen, Remaining
<1> QED BY <1>2, <1>3, <1>4, <1>5, <1>6

\* What the pass sends are packages of the queue.
LEMMA PassSends ==
  ASSUME UartInv, NEW e \in End, NEW b \in 1 .. Len(outPkgs[e]) + 1,
         line' = [line EXCEPT ![e] = line[e] \o SentBefore(e, b)]
  PROVE  /\ line' \in [End -> Seq(Package)]
         /\ \A d \in End : \A i \in DOMAIN line'[d] : line'[d][i].id \in Session /\ Used(line'[d][i].id)
<1>1. /\ TypeOK /\ LinesFit
      /\ outPkgs[e] \in Seq(Entries) /\ QueueFits(sess, timeout[e], e, outPkgs[e]) /\ line[e] \in Seq(Package)
  BY UartParts
<1> DEFINE q == outPkgs[e]
           I == {i \in 1 .. b - 1 : ToSend(q, i)}
           go == Pick(q, I)
           m == SentBefore(e, b)
<1>2. I \in SUBSET (DOMAIN q) /\ m = [k \in DOMAIN go |-> go[k].pkg]
  BY <1>1 DEF SentBefore
<1> HIDE DEF I, m
<1>3. /\ go \in Seq(Entries) /\ \A k \in DOMAIN go : Nth(I, k) \in DOMAIN q /\ go[k] = q[Nth(I, k)]
  BY <1>1, <1>2, PickTakes
<1>4. \A k \in DOMAIN go : go[k].pkg \in Package /\ go[k].pkg.id \in Session /\ Used(go[k].pkg.id)
  BY <1>1, <1>3, EntryIds DEF QueueFits, EntryFits, PkgFits, Used
<1> HIDE DEF go, q
<1>5. m \in Seq(Package) /\ \A k \in DOMAIN m : m[k].id \in Session /\ Used(m[k].id)
  <2>1. DOMAIN go = 1 .. Len(go) /\ Len(go) \in Nat
    BY <1>3
  <2>2. m \in [1 .. Len(go) -> Package]
    BY <1>2, <1>4, <2>1
  <2> QED BY <1>2, <1>4, <2>1, <2>2
<1>6. line[e] \o m \in Seq(Package)
  BY <1>1, <1>5
<1>7. line' \in [End -> Seq(Package)] /\ line'[e] = line[e] \o m /\ \A d \in End : d # e => line'[d] = line[d]
  BY <1>1, <1>6 DEF TypeOK, m
<1>8. \A d \in End : \A i \in DOMAIN line[d] : line[d][i].id \in Session /\ Used(line[d][i].id)
  BY <1>1, PkgIds DEF LinesFit
<1>9. \A i \in DOMAIN (line[e] \o m) : \/ i \in DOMAIN line[e] /\ (line[e] \o m)[i] = line[e][i]
                                       \/ \E k \in DOMAIN m : (line[e] \o m)[i] = m[k]
  <2> TAKE i \in DOMAIN (line[e] \o m)
  <2>1. i \in 1 .. Len(line[e]) + Len(m) /\ Len(line[e]) \in Nat /\ Len(m) \in Nat
    BY <1>1, <1>5
  <2>2. CASE i <= Len(line[e])
    BY <1>1, <1>5, <2>1, <2>2
  <2>3. CASE i > Len(line[e])
    <3>1. i - Len(line[e]) \in DOMAIN m /\ (line[e] \o m)[i] = m[i - Len(line[e])]
      BY <1>1, <1>5, <2>1, <2>3
    <3> QED BY <3>1
  <2> QED BY <2>1, <2>2, <2>3
<1>10. ASSUME NEW d \in End, NEW i \in DOMAIN line'[d] PROVE line'[d][i].id \in Session /\ Used(line'[d][i].id)
  <2>1. CASE d = e
    BY <1>5, <1>7, <1>8, <1>9, <1>10, <2>1
  <2>2. CASE d # e
    BY <1>7, <1>8, <1>10, <2>2
  <2> QED BY <2>1, <2>2
<1> QED BY <1>7, <1>10

\* A pass that stops early sends the package again or gives up the session, which
\* is in the map; one that comes through leaves a time limit behind for what waits.
LEMMA UartPass ==
  ASSUME UartInv, NEW e \in End, NEW late \in SUBSET Waiting(e), NEW bad \in Unwritten(e), NEW woken \in BOOLEAN,
         ~woken => late = Waiting(e), SendPkgInUARTOutMap(e, late, bad, woken)
  PROVE  UartInv'
<1> DEFINE q == outPkgs[e]
           b == Stop(e, late, bad)
           s == q[b].pkg.id
           w == Seen(e, b)
           I == Remaining(e, b)
           rest == Passed(e, b)
           retry == b <= Len(q) /\ b \in late /\ CanRetry(q[b])
           error == b <= Len(q) /\ ~retry /\ InMap(e, s)
<1>1. /\ TypeOK /\ OneUsed /\ LinesFit /\ InUse
      /\ q \in Seq(Entries) /\ QueueFits(sess, timeout[e], e, q)
  BY UartParts
<1>2. /\ line' = [line EXCEPT ![e] = line[e] \o SentBefore(e, b)]
      /\ timeout' = [timeout EXCEPT ![e] = Sent(e, b) \/ (woken /\ timeout[e])]
      /\ requested' = [requested EXCEPT ![e] = retry \/ error]
      /\ outPkgs' = [outPkgs EXCEPT ![e] = IF retry THEN Retried(rest, s)
                                           ELSE IF error THEN Other(rest, s) ELSE rest]
      /\ IF error THEN TransferError(e, s) ELSE UNCHANGED <<sess, slots>>
      /\ UNCHANGED <<cur, resetIO, dispatchedPackageIndex, packageIndex, pc, rd, sent, got, broken, again, raced>>
  BY DEF SendPkgInUARTOutMap, histVars
<1>3. /\ Len(q) \in Nat /\ DOMAIN q = 1 .. Len(q) /\ b \in 1 .. Len(q) + 1 /\ b \in Nat
      /\ b <= Len(q) => b \in late \/ (ToSend(q, b) /\ (b \in bad \/ ~CanSend(e, q[b].pkg)))
      /\ b > Len(q) => \A i \in DOMAIN q : i \notin late
  BY <1>1, PassStops
<1>4. /\ w \in Seq(Entries) /\ DOMAIN w = DOMAIN q /\ rest = Pick(w, I) /\ I \in SUBSET (DOMAIN w)
      /\ \A i \in DOMAIN q : /\ w[i].pkg = q[i].pkg /\ w[i].retry = q[i].retry
                             /\ ~(i < b /\ ToSend(q, i)) => w[i] = q[i]
                             /\ i < b /\ ToSend(q, i) => w[i].st = "response"
                             /\ Blocked(w, i) <=> Blocked(q, i)
  BY <1>1, <1>3, SeenFits
<1>5. \A i \in DOMAIN q : i \in I <=> ~(IsResponse(w[i].pkg) /\ w[i].st = "response")
  BY <1>4 DEF Remaining
<1>6. /\ \A i \in DOMAIN q : /\ q[i] \in Entries /\ q[i].pkg.id \in Session /\ Used(q[i].pkg.id)
                             /\ PkgFits(sess, e, q[i].pkg)
                             /\ q[i].st = "response" => ~IsResponse(q[i].pkg) /\ ~Blocked(q, i) /\ timeout[e]
      /\ \A i, j \in DOMAIN q : q[i].pkg.id = q[j].pkg.id
  <2>1. \A i \in DOMAIN q : /\ q[i] \in Entries /\ q[i].pkg.id \in Session /\ Used(q[i].pkg.id)
                            /\ PkgFits(sess, e, q[i].pkg)
                            /\ q[i].st = "response" => ~IsResponse(q[i].pkg) /\ ~Blocked(q, i) /\ timeout[e]
    BY <1>1, EntryIds DEF QueueFits, EntryFits, PkgFits, Used
  <2> HIDE DEF q
  <2> QED BY <1>1, <2>1 DEF OneUsed
<1>7. Waiting(e) = {i \in DOMAIN q : q[i].st = "response"}
  BY DEF Waiting
<1> HIDE DEF q, b, s, w, I, rest, retry, error
<1>8. \A i, j \in DOMAIN q :
        (~IsResponse(q[i].pkg) /\ ~Blocked(q, i) /\ ~IsResponse(q[j].pkg) /\ ~Blocked(q, j)) => i = j
  <2>1. ASSUME NEW i \in DOMAIN q, NEW j \in DOMAIN q, i < j, ~IsResponse(q[i].pkg) PROVE Blocked(q, j)
    <3>1. i \in 1 .. j - 1
      BY <1>3, <2>1
    <3> QED BY <1>6, <2>1, <3>1 DEF Blocked
  <2> TAKE i, j \in DOMAIN q
  <2>2. i = j \/ i < j \/ j < i
    BY <1>3
  <2>3. CASE i < j
    BY <2>1, <2>3
  <2>4. CASE j < i
    BY <2>1, <2>4
  <2> QED BY <2>2, <2>3, <2>4
<1>9. \A i \in I : /\ i \in DOMAIN q
                   /\ w[i].st = "response" => /\ ~IsResponse(q[i].pkg) /\ ~Blocked(q, i)
                                              /\ q[i].st = "response" \/ (i < b /\ ToSend(q, i))
  BY <1>4, <1>5, <1>6 DEF ToSend
<1>10. /\ rest \in Seq(Entries)
       /\ \A k \in DOMAIN rest : Nth(I, k) \in I /\ rest[k] = w[Nth(I, k)]
       /\ \A i \in I : \E k \in DOMAIN rest : Nth(I, k) = i /\ rest[k] = w[i]
       /\ \A k, m \in DOMAIN rest : k < m => Nth(I, k) < Nth(I, m)
  BY <1>4, PickTakes
<1>11. /\ line' \in [End -> Seq(Package)]
       /\ \A d \in End : \A i \in DOMAIN line'[d] : line'[d][i].id \in Session /\ Used(line'[d][i].id)
  BY <1>2, <1>3, PassSends DEF q
<1>12. /\ timeout' \in [End -> BOOLEAN] /\ requested' \in [End -> BOOLEAN]
       /\ timeout'[e] = (Sent(e, b) \/ (woken /\ timeout[e])) /\ requested'[e] = (retry \/ error)
       /\ \A d \in End \ {e} : timeout'[d] = timeout[d] /\ requested'[d] = requested[d] /\ outPkgs'[d] = outPkgs[d]
  <2>1. (Sent(e, b) \/ (woken /\ timeout[e])) \in BOOLEAN /\ (retry \/ error) \in BOOLEAN
    OBVIOUS
  <2> QED BY <1>1, <1>2, <2>1 DEF TypeOK
<1>13. Kept(sess, sess') /\ slots' \in [End -> SUBSET Session]
       /\ sess' \in [End -> [Session -> {"none", "live", "dead", "shut", "gone"}]]
  <2>1. CASE error
    <3>1. b \in DOMAIN q
      BY <1>3, <2>1 DEF error
    <3>2. s \in Session /\ InMap(e, s) /\ TransferError(e, s)
      BY <1>2, <1>6, <2>1, <3>1 DEF error, s
    <3> QED BY <1>1, <3>2, ErrorKeeps
  <2>2. CASE ~error
    BY <1>1, <1>2, <2>2 DEF Kept, TypeOK
  <2> QED BY <2>1, <2>2
<1>14. \A x \in Session : /\ sess["host"][x] # "none" => sess'["host"][x] # "none"
                          /\ \A d \in End : Found(sess, d, x) => Found(sess', d, x)
  BY <1>13 DEF Kept, End
\* It remains to see what becomes of the queue.
<1>15. SUFFICES /\ outPkgs'[e] \in Seq(Entries)
                /\ QueueFits(sess, timeout'[e], e, outPkgs'[e])
                /\ outPkgs'[e] # <<>> => requested'[e] \/ timeout'[e]
  <2>1. outPkgs' \in [End -> Seq(Entries)]
    BY <1>1, <1>2, <1>15 DEF TypeOK, Entries
  <2>2. TypeOK'
    BY <1>1, <1>2, <1>11, <1>12, <1>13, <2>1 DEF TypeOK, Entries
  <2>3. OneUsed' /\ InUse' /\ \A x \in Session : Used(x)' <=> Used(x)
    BY <1>2, <1>13, <2>2, KeptFits
  <2>4. LinesFit'
    BY <1>1, <1>2, <1>11, <1>13, <2>3, PkgIds DEF LinesFit, Kept, End
  <2>5. QueueFits(sess', timeout'[e], e, outPkgs'[e]) /\ Awake(e)'
    BY <1>14, <1>15, FitsStill DEF Awake
  <2> QED BY <1>12, <1>14, <2>2, <2>3, <2>4, <2>5, OneEnd
<1>16. outPkgs'[e] = IF retry THEN Retried(rest, s) ELSE IF error THEN Other(rest, s) ELSE rest
  BY <1>1, <1>2 DEF TypeOK
<1>17. \A k \in DOMAIN rest : /\ PkgFits(sess, e, rest[k].pkg)
                              /\ rest[k].st = "response" => ~IsResponse(rest[k].pkg) /\ ~Blocked(rest, k)
  <2> TAKE k \in DOMAIN rest
  <2>1. Nth(I, k) \in I /\ rest[k] = w[Nth(I, k)] /\ Nth(I, k) \in DOMAIN q /\ w[Nth(I, k)].pkg = q[Nth(I, k)].pkg
    BY <1>4, <1>9, <1>10
  <2>2. Blocked(rest, k) => Blocked(w, Nth(I, k))
    <3> SUFFICES ASSUME Blocked(rest, k) PROVE Blocked(w, Nth(I, k))
      OBVIOUS
    <3>1. PICK m \in 1 .. k - 1 : rest[m].pkg.id = rest[k].pkg.id /\ ~IsResponse(rest[m].pkg)
      BY DEF Blocked
    <3>2. m \in DOMAIN rest /\ m < k
      BY <1>10
    <3>3. Nth(I, m) < Nth(I, k) /\ Nth(I, m) \in I /\ rest[m] = w[Nth(I, m)] /\ Nth(I, m) \in DOMAIN q
      BY <1>9, <1>10, <3>2
    <3>4. Nth(I, m) \in 1 .. Nth(I, k) - 1
      BY <1>3, <2>1, <3>3
    <3> QED BY <2>1, <3>1, <3>3, <3>4 DEF Blocked
  <2> QED BY <1>4, <1>6, <1>9, <2>1, <2>2
<1>18. CASE retry
  <2>1. b \in DOMAIN q /\ b \in late /\ CanRetry(q[b]) /\ q[b].st = "response"
    BY <1>3, <1>7, <1>18 DEF retry
  <2>2. ~IsResponse(q[b].pkg) /\ ~Blocked(q, b) /\ w[b] = q[b] /\ b \in I
    BY <1>3, <1>4, <1>5, <1>6, <2>1
  <2>3. \A k \in DOMAIN rest : rest[k].st = "response" => rest[k] = q[b] /\ Nth(I, k) = b
    BY <1>8, <1>9, <1>10, <2>1, <2>2
  <2> DEFINE J == {j \in DOMAIN rest : rest[j].pkg.id = s /\ rest[j].st = "response"}
             i == Min(J)
             r == Retried(rest, s)
  <2>4. i \in DOMAIN rest /\ rest[i] = q[b]
    <3>1. Len(rest) \in Nat /\ J \in SUBSET (1 .. Len(rest))
      BY <1>10
    <3>2. PICK k \in DOMAIN rest : Nth(I, k) = b /\ rest[k] = w[b]
      BY <1>10, <2>2
    <3>3. k \in J
      BY <2>1, <2>2, <3>2 DEF s
    <3>4. i \in J
      BY <3>1, <3>3, MinIsIn
    <3> QED BY <2>3, <3>4
  <2>5. r = [rest EXCEPT ![i] = [[rest[i] EXCEPT !.st = "send"] EXCEPT !.retry = rest[i].retry - 1]]
    BY <1>10, <2>4 DEF Retried
  <2> HIDE DEF i, J, r
  <2>6. DOMAIN r = DOMAIN rest /\ \A k \in DOMAIN rest : k # i => r[k] = rest[k]
    BY <1>10, <2>4, <2>5
  <2>7. r[i] \in Entries /\ r[i].pkg = rest[i].pkg /\ r[i].st = "send"
    <3>1. rest[i].retry \in 0 .. Retry /\ rest[i].retry > 0 /\ rest[i].pkg \in Package /\ rest[i] \in Entries
      BY <1>6, <2>1, <2>4 DEF Entries, CanRetry
    <3>2. r[i] = [[rest[i] EXCEPT !.st = "send"] EXCEPT !.retry = rest[i].retry - 1]
      BY <1>10, <2>4, <2>5
    <3>3. rest[i].retry - 1 \in 0 .. Retry
      BY <3>1, UartAssumption
    <3> QED BY <3>1, <3>2, <3>3 DEF Entries
  <2>8. r \in Seq(Entries)
    <3>1. Len(rest) \in Nat /\ DOMAIN rest = 1 .. Len(rest) /\ \A k \in DOMAIN rest : rest[k] \in Entries
      BY <1>10
    <3>2. r = [k \in DOMAIN rest |-> r[k]] /\ \A k \in DOMAIN rest : r[k] \in Entries
      BY <2>5, <2>6, <2>7, <3>1
    <3>3. r \in [1 .. Len(rest) -> Entries]
      BY <3>1, <3>2
    <3> QED BY <3>1, <3>3
  <2>9. QueueFits(sess, timeout'[e], e, r)
    <3> SUFFICES ASSUME NEW k \in DOMAIN r PROVE PkgFits(sess, e, r[k].pkg) /\ r[k].st # "response"
      BY DEF QueueFits, EntryFits
    <3>1. CASE k = i
      BY <1>17, <2>4, <2>7, <3>1
    <3>2. CASE k # i
      <4>1. k \in DOMAIN rest /\ r[k] = rest[k]
        BY <2>6, <3>2
      <4>2. rest[k].st = "response" => Nth(I, k) = b /\ Nth(I, i) = b
        BY <2>1, <2>3, <2>4, <4>1
      <4>3. Nth(I, k) # Nth(I, i)
        <5>1. k \in Nat /\ i \in Nat /\ Nth(I, k) \in Nat /\ Nth(I, i) \in Nat
          BY <1>3, <1>9, <1>10, <2>4, <4>1
        <5>2. k < i \/ i < k
          BY <3>2, <5>1
        <5>3. Nth(I, k) < Nth(I, i) \/ Nth(I, i) < Nth(I, k)
          BY <1>10, <2>4, <4>1, <5>2
        <5> QED BY <5>1, <5>3
      <4> QED BY <1>17, <4>1, <4>2, <4>3
    <3> QED BY <3>1, <3>2
  <2> QED BY <1>12, <1>16, <1>18, <2>8, <2>9 DEF r
<1>19. CASE error
  <2>1. b \in DOMAIN q /\ ~retry
    BY <1>3, <1>19 DEF error
  <2> DEFINE r == Other(rest, s)
             K == {i \in DOMAIN rest : rest[i].pkg.id # s}
  <2>2. K = {}
    BY <1>4, <1>6, <1>9, <1>10, <2>1 DEF s
  <2>3. r = Pick(rest, {})
    BY <2>2 DEF Other
  <2>4. r \in Seq(Entries) /\ \A k \in DOMAIN r : Nth({}, k) \in {}
    BY <1>10, <2>3, PickTakes
  <2> HIDE DEF r
  <2>5. QueueFits(sess, timeout'[e], e, r)
    BY <2>4 DEF QueueFits
  <2> QED BY <1>12, <1>16, <1>19, <2>1, <2>4, <2>5 DEF r
<1>20. CASE ~retry /\ ~error
  <2>1. b = Len(q) + 1
    <3> SUFFICES ASSUME b <= Len(q) PROVE FALSE
      BY <1>3
    <3>1. b \in DOMAIN q /\ ~InMap(e, q[b].pkg.id)
      BY <1>3, <1>20 DEF error, s
    <3>2. e = "daemon" /\ IsResponse(q[b].pkg)
      BY <1>6, <3>1 DEF PkgFits, Found, InMap
    <3>3. b \notin late
      BY <1>6, <1>7, <3>1, <3>2
    <3>4. b \in bad \/ ~CanSend(e, q[b].pkg)
      BY <1>3, <3>3
    <3>5. CanSend(e, q[b].pkg)
      BY <3>2 DEF CanSend
    <3>6. bad = {}
      BY <3>2 DEF Unwritten
    <3> QED BY <3>4, <3>5, <3>6
  <2>2. late = {}
    BY <1>3, <1>7, <2>1
  <2>3. ~woken => \A i \in DOMAIN q : q[i].st # "response"
    BY <1>7, <2>2
  <2>4. \A i \in DOMAIN q : ToSend(q, i) /\ ~IsResponse(q[i].pkg) => Sent(e, b)
    <3>1. \A i \in DOMAIN q : i \in 1 .. b - 1
      BY <1>3, <2>1
    <3> QED BY <3>1 DEF Sent, q
  <2>5. \A i \in DOMAIN q : ~IsResponse(q[i].pkg) /\ (q[i].st = "response" \/ ToSend(q, i)) => timeout'[e]
    <3> SUFFICES ASSUME NEW i \in DOMAIN q, ~IsResponse(q[i].pkg), q[i].st = "response" \/ ToSend(q, i)
                 PROVE  timeout'[e]
      OBVIOUS
    <3>1. CASE ToSend(q, i)
      BY <1>12, <2>4, <3>1
    <3>2. CASE q[i].st = "response"
      BY <1>6, <1>12, <2>3, <3>2
    <3> QED BY <3>1, <3>2
  <2>6. QueueFits(sess, timeout'[e], e, rest)
    <3> SUFFICES ASSUME NEW k \in DOMAIN rest, rest[k].st = "response" PROVE timeout'[e]
      BY <1>17 DEF QueueFits, EntryFits
    <3>1. /\ Nth(I, k) \in DOMAIN q /\ ~IsResponse(q[Nth(I, k)].pkg)
          /\ q[Nth(I, k)].st = "response" \/ ToSend(q, Nth(I, k))
      BY <1>9, <1>10
    <3> QED BY <2>5, <3>1
  <2>7. ASSUME rest # <<>> PROVE timeout'[e]
    <3> DEFINE F == {j \in DOMAIN q : ~IsResponse(q[j].pkg)}
               i == Min(F)
    <3>1. 1 \in DOMAIN rest
      BY <1>10, <2>7
    <3>2. Nth(I, 1) \in I /\ Nth(I, 1) \in DOMAIN q
      BY <1>9, <1>10, <3>1
    <3>3. ~IsResponse(q[Nth(I, 1)].pkg)
      <4> DEFINE j == Nth(I, 1)
      <4> SUFFICES ASSUME IsResponse(q[j].pkg) PROVE FALSE
        OBVIOUS
      <4>1. j < b
        BY <1>3, <2>1, <3>2
      <4>2. q[j].st = "send"
        BY <1>6, <3>2 DEF Entries
      <4>3. ToSend(q, j)
        BY <4>2 DEF ToSend
      <4> QED BY <1>4, <1>5, <3>2, <4>1, <4>3
    <3>4. F \in SUBSET (1 .. Len(q)) /\ F # {}
      BY <1>3, <3>2, <3>3
    <3>5. i \in F /\ \A j \in F : i <= j
      BY <1>3, <3>4, MinIsIn
    <3>6. i \in DOMAIN q /\ ~IsResponse(q[i].pkg)
      BY <3>5
    <3>7. ~Blocked(q, i)
      <4> SUFFICES ASSUME NEW j \in 1 .. i - 1, ~IsResponse(q[j].pkg) PROVE FALSE
        BY DEF Blocked
      <4>1. j \in DOMAIN q /\ ~(i <= j)
        BY <1>3, <3>6
      <4> QED BY <3>5, <4>1
    <3>8. q[i].st = "response" \/ ToSend(q, i)
      BY <1>6, <3>6, <3>7 DEF ToSend, Entries
    <3> QED BY <2>5, <3>6, <3>8
  <2> QED BY <1>10, <1>16, <1>20, <2>6, <2>7
<1> QED BY <1>18, <1>19, <1>20

-----------------------------------------------------------------------------
(* The theorem                                                             *)

\* Nothing is connected at first.
LEMMA UartFirst == Init => UartInv
<1> SUFFICES ASSUME Init PROVE UartInv
  OBVIOUS
<1>1. TypeOK
  <2>1. <<>> \in Seq([pkg : Package, st : {"send", "response"}, retry : 0 .. Retry])
        /\ <<>> \in Seq(Package) /\ <<>> \in Seq(Nat)
    OBVIOUS
  <2>2. pc \in [Caller -> [at : {"idle", "count", "wait"}, s : Session \cup {NoSession}, n : Nat]]
    BY DEF Init, Idle
  <2> QED BY <2>1, <2>2 DEF Init, TypeOK, All
<1>2. \A e \in End : outPkgs[e] = <<>> /\ line[e] = <<>> /\ rd[e] = NoPkg /\ \A s \in Session : sess[e][s] = "none"
  BY DEF Init, All
<1>3. OneUsed /\ OnlyUsed
  BY <1>2 DEF OneUsed, OnlyUsed, Used, End
<1>4. InUse
  BY <1>2 DEF InUse, Init, Idle, End
<1>5. FirstWaits /\ NoStrayPackage /\ AwakeWithWork
  BY <1>2 DEF FirstWaits, NoStrayPackage, AwakeWithWork, Waiting
<1> QED BY <1>1, <1>3, <1>4, <1>5 DEF UartInv

\* Every step keeps the inductive invariant.
LEMMA UartStep == UartInv /\ [Next]_vars => UartInv'
<1> SUFFICES ASSUME UartInv, [Next]_vars PROVE UartInv'
  OBVIOUS
<1>1. CASE UNCHANGED vars
  <2>1. /\ UNCHANGED <<sess, cur, resetIO, dispatchedPackageIndex, packageIndex, pc, slots, outPkgs>>
        /\ UNCHANGED <<requested, timeout, line, rd, sent, got, broken, again, raced>>
    BY <1>1 DEF vars, sendVars, histVars
  <2>2. TypeOK' /\ Kept(sess, sess')
    BY <2>1, UartParts DEF TypeOK, Kept
  <2>3. OneUsed' /\ LinesFit' /\ InUse'
    BY <2>1, <2>2, KeptFits
  <2> QED BY <2>1, <2>2, <2>3, Quiet DEF Kept
<1>2. ASSUME NEW c \in Caller, CallerStep(c) PROVE UartInv'
  BY <1>2, UartNumbers, UartAdds DEF CallerStep
<1>3. ASSUME NEW e \in End, WriteStep(e) PROVE UartInv'
  <2>1. PICK bad \in Unwritten(e) : \/ \E late \in SUBSET Waiting(e) : WriteRequested(e, late, bad)
                                   \/ WriteTimeout(e, bad)
    BY <1>3 DEF WriteStep
  <2>2. ASSUME NEW late \in SUBSET Waiting(e), WriteRequested(e, late, bad) PROVE UartInv'
    <3>1. SendPkgInUARTOutMap(e, late, bad, TRUE)
      BY <2>2 DEF WriteRequested
    <3> QED BY <2>2, <3>1, UartPass
  <2>3. CASE WriteTimeout(e, bad)
    <3>1. SendPkgInUARTOutMap(e, Waiting(e), bad, FALSE)
      BY <2>3 DEF WriteTimeout, AllLate
    <3> QED BY <3>1, UartPass
  <2> QED BY <2>1, <2>2, <2>3
<1>4. ASSUME NEW e \in End, ReadStep(e) PROVE UartInv'
  BY <1>4, UartValidates, UartDuplicate, UartDispatches, UartFails DEF ReadStep
<1>5. ASSUME NEW e \in End, Lose(e) PROVE UartInv'
  BY <1>5, UartLoses
<1>6. ASSUME NEW e \in End, NEW s \in Session, SessionStep(e, s) PROVE UartInv'
  BY <1>6, UartFrees, UartStops, UartRefuses DEF SessionStep
<1>7. ASSUME NEW s \in Session, ConnectDaemon(s) PROVE UartInv'
  BY <1>7, UartConnects
<1>8. CASE ReadFails
  BY <1>8, UartReadFails
<1> QED BY <1>1, <1>2, <1>3, <1>4, <1>5, <1>6, <1>7, <1>8 DEF Next

\* For any number of threads that send, payloads, retries and failures of the port, the
\* pipes and the workers: at most one package of a session waits for its answer, the
\* write thread never sleeps without a time limit while there is something in its queue,
\* and no package that it would look a session up for outlives the session.
THEOREM UartQueuesSafe == Spec => []UartQueues
<1>1. ASSUME UartInv PROVE UartQueues
  <2>1. TypeOK /\ FirstWaits /\ NoStrayPackage /\ AwakeWithWork
    BY <1>1 DEF UartInv
  <2>2. OneInFlight
    <3> SUFFICES ASSUME NEW e \in End, NEW i \in Waiting(e), NEW j \in Waiting(e),
                        outPkgs[e][i].pkg.id = outPkgs[e][j].pkg.id, i < j
                 PROVE  FALSE
      <4>1. \A e \in End : Waiting(e) \subseteq Nat
        BY <2>1 DEF TypeOK, Waiting
      <4>2. \A e \in End : \A i, j \in Waiting(e) : i = j \/ i < j \/ j < i
        BY <4>1
      <4> QED BY <4>2 DEF OneInFlight
    <3>1. i \in 1 .. j - 1
      BY <2>1 DEF TypeOK, Waiting
    <3> QED BY <2>1, <3>1 DEF FirstWaits, Blocked
  <2> QED BY <2>1, <2>2 DEF UartQueues
<1> QED BY <1>1, UartFirst, UartStep, PTL DEF Spec



-----------------------------------------------------------------------------
(* The order of packages                                                   *)

\* The data of P2 is data of P, in the same order.
Thin(P2, P) ==
  /\ \A i \in DOMAIN P2 : Data(P2[i]) => \E a \in DOMAIN P : P[a] = P2[i]
  /\ \A i, j \in DOMAIN P2 : i < j /\ Data(P2[i]) /\ Data(P2[j]) =>
       \E a, b \in DOMAIN P : a < b /\ P[a] = P2[i] /\ P[b] = P2[j]

LEMMA ThinSame == \A P : Thin(P, P) /\ Thin(<<>>, P)
<1> TAKE P
<1>1. Thin(P, P)
  BY DEF Thin
<1>2. DOMAIN <<>> = {}
  OBVIOUS
<1> QED BY <1>1, <1>2 DEF Thin

LEMMA ThinTwice ==
  ASSUME NEW P, NEW P2, NEW P3, Thin(P2, P), Thin(P3, P2)
  PROVE  Thin(P3, P)
<1>1. ASSUME NEW i \in DOMAIN P3, Data(P3[i]) PROVE \E a \in DOMAIN P : P[a] = P3[i]
  BY <1>1 DEF Thin
<1>2. ASSUME NEW i \in DOMAIN P3, NEW j \in DOMAIN P3, i < j, Data(P3[i]), Data(P3[j])
      PROVE  \E a, b \in DOMAIN P : a < b /\ P[a] = P3[i] /\ P[b] = P3[j]
  <2>1. PICK a \in DOMAIN P2, b \in DOMAIN P2 : a < b /\ P2[a] = P3[i] /\ P2[b] = P3[j]
    BY <1>2 DEF Thin
  <2>2. Data(P2[a]) /\ Data(P2[b])
    BY <1>2, <2>1
  <2>3. PICK x \in DOMAIN P, y \in DOMAIN P : x < y /\ P[x] = P2[a] /\ P[y] = P2[b]
    BY <2>1, <2>2 DEF Thin
  <2> QED BY <2>1, <2>3
<1> QED BY <1>1, <1>2 DEF Thin

LEMMA ThinTail ==
  ASSUME NEW T, NEW P \in Seq(T), P # <<>>
  PROVE  Thin(Tail(P), P)
<1>1. \A i \in DOMAIN Tail(P) : i + 1 \in DOMAIN P /\ Tail(P)[i] = P[i + 1] /\ i \in Nat
  BY TailAt
<1>2. \A i, j \in DOMAIN Tail(P) : i < j => i + 1 < j + 1
  BY <1>1
<1> QED BY <1>1, <1>2 DEF Thin

\* What is picked of a queue.
LEMMA ThinPick ==
  ASSUME NEW q \in Seq(Entries), NEW I \in SUBSET (DOMAIN q)
  PROVE  /\ Thin(PkgsOf(Pick(q, I)), PkgsOf(q))
         /\ \A k \in DOMAIN Pick(q, I) : Nth(I, k) \in I /\ Pick(q, I)[k] = q[Nth(I, k)]
         /\ \A i \in I : \E k \in DOMAIN Pick(q, I) : Nth(I, k) = i /\ Pick(q, I)[k] = q[i]
<1> DEFINE r == Pick(q, I)
<1>1. /\ \A k \in DOMAIN r : Nth(I, k) \in I /\ r[k] = q[Nth(I, k)]
      /\ \A k, m \in DOMAIN r : k < m => Nth(I, k) < Nth(I, m)
      /\ \A i \in I : \E k \in DOMAIN r : Nth(I, k) = i /\ r[k] = q[i]
  BY PickTakes
<1> HIDE DEF r
<1>2. /\ DOMAIN PkgsOf(r) = DOMAIN r /\ DOMAIN PkgsOf(q) = DOMAIN q
      /\ \A k \in DOMAIN r : PkgsOf(r)[k] = r[k].pkg
      /\ \A i \in DOMAIN q : PkgsOf(q)[i] = q[i].pkg
  BY DEF PkgsOf
<1>3. \A k \in DOMAIN r : Nth(I, k) \in DOMAIN q /\ PkgsOf(q)[Nth(I, k)] = PkgsOf(r)[k]
  BY <1>1, <1>2
<1>4. Thin(PkgsOf(r), PkgsOf(q))
  BY <1>1, <1>2, <1>3 DEF Thin
<1> QED BY <1>1, <1>4 DEF r

\* The packages of a queue.
LEMMA PkgsAt ==
  ASSUME NEW q \in Seq(Entries)
  PROVE  /\ PkgsOf(q) \in Seq(Package) /\ DOMAIN PkgsOf(q) = DOMAIN q /\ Len(PkgsOf(q)) = Len(q)
         /\ \A i \in DOMAIN q : PkgsOf(q)[i] = q[i].pkg /\ q[i].pkg \in Package
<1>1. DOMAIN q = 1 .. Len(q) /\ Len(q) \in Nat /\ \A i \in DOMAIN q : q[i].pkg \in Package
  BY EntryIds
<1>2. PkgsOf(q) = [i \in 1 .. Len(q) |-> q[i].pkg]
  BY <1>1 DEF PkgsOf
<1>3. PkgsOf(q) \in [1 .. Len(q) -> Package]
  BY <1>1, <1>2
<1> HIDE DEF PkgsOf
<1>4. PkgsOf(q) \in Seq(Package) /\ Len(PkgsOf(q)) = Len(q)
  BY <1>1, <1>3
<1> QED BY <1>1, <1>2, <1>4

\* RequestSendPackage leaves the queue or puts the package behind it.
LEMMA PkgsAdd ==
  ASSUME NEW q \in Seq(Entries), NEW p \in Package
  PROVE  /\ Queued(q, p) => RequestSendPackage(q, p) = q
         /\ ~Queued(q, p) => PkgsOf(RequestSendPackage(q, p)) = Append(PkgsOf(q), p)
<1>1. Queued(q, p) => RequestSendPackage(q, p) = q
  BY DEF RequestSendPackage
<1>2. ASSUME ~Queued(q, p) PROVE PkgsOf(RequestSendPackage(q, p)) = Append(PkgsOf(q), p)
  <2> DEFINE r == Append(q, Entry(p))
  <2>1. Entry(p) \in Entries /\ Entry(p).pkg = p
    BY UartAssumption DEF Entry, Entries
  <2>2. /\ r \in Seq(Entries) /\ Len(r) = Len(q) + 1 /\ r[Len(q) + 1] = Entry(p)
        /\ \A i \in 1 .. Len(q) : r[i] = q[i]
    BY <2>1
  <2>3. r = RequestSendPackage(q, p)
    BY <1>2 DEF RequestSendPackage
  <2> HIDE DEF r
  <2>4. /\ PkgsOf(r) \in Seq(Package) /\ Len(PkgsOf(r)) = Len(r) /\ DOMAIN PkgsOf(r) = DOMAIN r
        /\ \A i \in DOMAIN r : PkgsOf(r)[i] = r[i].pkg
    BY <2>2, PkgsAt
  <2>5. /\ PkgsOf(q) \in Seq(Package) /\ Len(PkgsOf(q)) = Len(q) /\ DOMAIN PkgsOf(q) = DOMAIN q
        /\ \A i \in DOMAIN q : PkgsOf(q)[i] = q[i].pkg
    BY PkgsAt
  <2> DEFINE z == Append(PkgsOf(q), p)
  <2>6. z \in Seq(Package) /\ Len(z) = Len(q) + 1 /\ z[Len(q) + 1] = p /\ \A i \in 1 .. Len(q) : z[i] = PkgsOf(q)[i]
    BY <2>5
  <2>7. \A i \in 1 .. Len(q) + 1 : z[i] = PkgsOf(r)[i]
    <3> TAKE i \in 1 .. Len(q) + 1
    <3>1. CASE i = Len(q) + 1
      BY <2>1, <2>2, <2>4, <2>6, <3>1
    <3>2. CASE i \in 1 .. Len(q)
      BY <2>2, <2>4, <2>5, <2>6, <3>2
    <3>3. Len(q) \in Nat
      OBVIOUS
    <3>4. i = Len(q) + 1 \/ i \in 1 .. Len(q)
      BY <3>3
    <3> HIDE DEF z
    <3> QED BY <3>1, <3>2, <3>4
  <2> HIDE DEF z
  <2>8. z = PkgsOf(r)
    BY <2>2, <2>4, <2>6, <2>7
  <2> QED BY <2>3, <2>8 DEF z
<1> QED BY <1>1, <1>2

\* What is behind a queue after it was put there.
LEMMA AppendAt ==
  ASSUME NEW T, NEW P \in Seq(T), NEW p \in T
  PROVE  /\ Append(P, p) \in Seq(T) /\ DOMAIN Append(P, p) = 1 .. Len(P) + 1 /\ DOMAIN P = 1 .. Len(P)
         /\ Len(P) \in Nat /\ Append(P, p)[Len(P) + 1] = p
         /\ \A i \in DOMAIN P : i \in DOMAIN Append(P, p) /\ Append(P, p)[i] = P[i]
         /\ \A i \in DOMAIN Append(P, p) : i \in DOMAIN P \/ i = Len(P) + 1
OBVIOUS

\* A package that is no data, put behind a queue.
LEMMA ThinAdd ==
  ASSUME NEW q \in Seq(Entries), NEW p \in Package, ~Data(p)
  PROVE  Thin(PkgsOf(RequestSendPackage(q, p)), PkgsOf(q))
<1>1. PkgsOf(q) \in Seq(Package)
  BY PkgsAt
<1>2. CASE Queued(q, p)
  BY <1>2, PkgsAdd, ThinSame
<1>3. CASE ~Queued(q, p)
  <2> DEFINE P == PkgsOf(q)
             R == Append(P, p)
  <2>1. /\ R[Len(P) + 1] = p /\ DOMAIN P = 1 .. Len(P)
        /\ \A i \in DOMAIN R : i \in DOMAIN P \/ i = Len(P) + 1
        /\ \A i \in DOMAIN P : R[i] = P[i]
    BY <1>1, AppendAt
  <2> HIDE DEF R, P
  <2>2. \A i \in DOMAIN R : Data(R[i]) => i \in DOMAIN P /\ R[i] = P[i]
    BY <2>1
  <2>3. Thin(R, P)
    BY <2>2 DEF Thin
  <2> QED BY <1>3, <2>3, PkgsAdd DEF R, P
<1> QED BY <1>2, <1>3

-----------------------------------------------------------------------------
(* The flow of one direction                                               *)

LEMMA FlowThins ==
  ASSUME NEW H, NEW L, NEW Q, NEW n, NEW g, NEW x, NEW H2, NEW L2, NEW Q2,
         Flow(H, L, Q, n, g, x), Thin(H2, H), Thin(L2, L), Thin(Q2, Q)
  PROVE  Flow(H2, L2, Q2, n, g, x)
<1>1. ASSUME NEW P2, NEW P, Thin(P2, P), \A i \in DOMAIN P : Due(P[i], n, g, x)
      PROVE  \A i \in DOMAIN P2 : Due(P2[i], n, g, x)
  <2> TAKE i \in DOMAIN P2
  <2>1. Data(P2[i]) => \E a \in DOMAIN P : P[a] = P2[i]
    BY <1>1 DEF Thin
  <2>2. Data(P2[i]) => Due(P2[i], n, g, x)
    BY <1>1, <2>1
  <2> QED BY <2>2 DEF Due
<1>2. ASSUME NEW P2, NEW P, NEW R2, NEW R, Thin(P2, P), Thin(R2, R), InFront(P, R)
      PROVE  InFront(P2, R2)
  <2> SUFFICES ASSUME NEW i \in DOMAIN P2, NEW j \in DOMAIN R2, Data(P2[i]), Data(R2[j])
               PROVE  NotAfter(P2[i], R2[j])
    BY DEF InFront, NotAfter
  <2>1. PICK a \in DOMAIN P : P[a] = P2[i]
    BY <1>2 DEF Thin
  <2>2. PICK b \in DOMAIN R : R[b] = R2[j]
    BY <1>2 DEF Thin
  <2>3. NotAfter(P[a], R[b])
    BY <1>2 DEF InFront
  <2> QED BY <2>1, <2>2, <2>3
<1>3. ASSUME NEW P2, NEW P, Thin(P2, P), Sorted(P) PROVE Sorted(P2)
  <2> SUFFICES ASSUME NEW i \in DOMAIN P2, NEW j \in DOMAIN P2, i < j, Data(P2[i]), Data(P2[j])
               PROVE  NotAfter(P2[i], P2[j])
    BY DEF Sorted, NotAfter
  <2>1. PICK a \in DOMAIN P, b \in DOMAIN P : a < b /\ P[a] = P2[i] /\ P[b] = P2[j]
    BY <1>3 DEF Thin
  <2>2. NotAfter(P[a], P[b])
    BY <1>3, <2>1 DEF Sorted
  <2> QED BY <2>1, <2>2
<1>4. \A P \in {H2, L2, Q2} : \A i \in DOMAIN P : Due(P[i], n, g, x)
  BY <1>1 DEF Flow
<1>5. InFront(H2, L2) /\ InFront(H2, Q2) /\ InFront(L2, Q2) /\ Sorted(L2) /\ Sorted(Q2)
  BY <1>2, <1>3 DEF Flow
<1> QED BY <1>4, <1>5 DEF Flow

\* The next payload is put behind the queue, or falls away.
LEMMA FlowAdds ==
  ASSUME NEW H \in Seq(Package), NEW L \in Seq(Package), NEW Q \in Seq(Package),
         NEW n \in [Session -> Nat], NEW g, NEW x,
         Flow(H, L, Q, n, g, x), NEW p \in Package, NEW Q2, Q2 = Q \/ Q2 = Append(Q, p),
         Data(p), p.val = n[p.id] + 1, Latest(g[p.id]) \in 0 .. n[p.id]
  PROVE  Flow(H, L, Q2, [n EXCEPT ![p.id] = @ + 1], g, x)
<1> DEFINE m == [n EXCEPT ![p.id] = @ + 1]
<1>1. /\ p.id \in Session /\ p.val \in Nat /\ n[p.id] \in Nat
      /\ \A P \in {H, L, Q} : \A i \in DOMAIN P : P[i] \in Package /\ P[i].id \in Session /\ P[i].val \in Nat
  <2>1. \A P \in {H, L, Q} : \A i \in DOMAIN P : P[i] \in Package
    OBVIOUS
  <2> QED BY <2>1 DEF Package
<1>2. \A s \in Session : m[s] \in Nat /\ n[s] \in Nat /\ n[s] <= m[s] /\ m[p.id] = n[p.id] + 1
  BY <1>1
<1> HIDE DEF m
<1>3. \A P \in {H, L, Q} : \A i \in DOMAIN P : Due(P[i], m, g, x)
  <2> TAKE P \in {H, L, Q}
  <2> TAKE i \in DOMAIN P
  <2>1. Due(P[i], n, g, x) /\ P[i].id \in Session /\ P[i].val \in Nat
    BY <1>1 DEF Flow
  <2>2. n[P[i].id] \in Nat /\ m[P[i].id] \in Nat /\ n[P[i].id] <= m[P[i].id]
    BY <1>2, <2>1
  <2> QED BY <2>1, <2>2 DEF Due
<1>4. \A P \in {H, L, Q} : \A i \in DOMAIN P : NotAfter(P[i], p)
  <2> TAKE P \in {H, L, Q}
  <2> TAKE i \in DOMAIN P
  <2> SUFFICES ASSUME Data(P[i]), P[i].id = p.id PROVE P[i].val < p.val
    BY <1>1 DEF NotAfter
  <2>1. P[i].val \in 1 .. n[p.id]
    BY DEF Flow, Due
  <2> QED BY <1>1, <2>1
<1>5. Due(p, m, g, x)
  BY <1>1, <1>2 DEF Due
<1>6. CASE Q2 = Q
  BY <1>3, <1>6 DEF Flow, m
<1>7. CASE Q2 = Append(Q, p)
  <2>1. /\ DOMAIN Q = 1 .. Len(Q) /\ Len(Q) \in Nat /\ Q2[Len(Q) + 1] = p
        /\ \A i \in DOMAIN Q2 : (i \in DOMAIN Q /\ Q2[i] = Q[i]) \/ (i = Len(Q) + 1 /\ Q2[i] = p)
    BY <1>7, AppendAt
  <2>2. \A i \in DOMAIN Q2 : Due(Q2[i], m, g, x)
    BY <1>3, <1>5, <2>1
  <2>3. InFront(H, Q2) /\ InFront(L, Q2)
    BY <1>4, <2>1 DEF Flow, InFront
  <2>4. Sorted(Q2)
    <3> SUFFICES ASSUME NEW i \in DOMAIN Q2, NEW j \in DOMAIN Q2, i < j PROVE NotAfter(Q2[i], Q2[j])
      BY DEF Sorted
    <3>1. i \in DOMAIN Q /\ Q2[i] = Q[i]
      BY <2>1
    <3>2. CASE j \in DOMAIN Q /\ Q2[j] = Q[j]
      BY <3>1, <3>2 DEF Flow, Sorted
    <3>3. CASE Q2[j] = p
      BY <1>4, <3>1, <3>3
    <3> QED BY <2>1, <3>2, <3>3
  <2>5. \A P \in {H, L, Q2} : \A i \in DOMAIN P : Due(P[i], m, g, x)
    BY <1>3, <2>2
  <2> QED BY <2>3, <2>4, <2>5 DEF Flow, m
<1> QED BY <1>6, <1>7

\* Packages of the queue are sent, each the first of its session.
LEMMA FlowSends ==
  ASSUME NEW H, NEW L \in Seq(Package), NEW Q \in Seq(Package), NEW n, NEW g, NEW x,
         Flow(H, L, Q, n, g, x), NEW M \in Seq(Package), Thin(M, Q), NEW Q2, Thin(Q2, Q),
         \A i \in DOMAIN M, j \in DOMAIN Q : NotAfter(M[i], Q[j])
  PROVE  Flow(H, L \o M, Q2, n, g, x)
<1> DEFINE K == L \o M
<1>1. /\ DOMAIN L = 1 .. Len(L) /\ DOMAIN M = 1 .. Len(M) /\ DOMAIN K = 1 .. Len(L) + Len(M)
      /\ Len(L) \in Nat /\ Len(M) \in Nat
      /\ \A i \in 1 .. Len(L) : K[i] = L[i]
      /\ \A i \in 1 .. Len(M) : K[Len(L) + i] = M[i]
  OBVIOUS
<1> HIDE DEF K
<1>2. \A i \in DOMAIN K : \/ i \in DOMAIN L /\ K[i] = L[i]
                          \/ i - Len(L) \in DOMAIN M /\ K[i] = M[i - Len(L)]
  <2> TAKE i \in DOMAIN K
  <2>1. CASE i <= Len(L)
    BY <1>1, <2>1
  <2>2. CASE i > Len(L)
    <3>1. i - Len(L) \in 1 .. Len(M) /\ Len(L) + (i - Len(L)) = i
      BY <1>1, <2>2
    <3> QED BY <1>1, <3>1
  <2> QED BY <1>1, <2>1, <2>2
<1>3. Flow(H, M, Q, n, g, x)
  <2>2. \A i \in DOMAIN M : Due(M[i], n, g, x)
    <3> TAKE i \in DOMAIN M
    <3>1. Data(M[i]) => \E a \in DOMAIN Q : Q[a] = M[i]
      BY DEF Thin
    <3>2. Data(M[i]) => Due(M[i], n, g, x)
      BY <3>1 DEF Flow
    <3> QED BY <3>2 DEF Due
  <2>3. InFront(H, M)
    <3> SUFFICES ASSUME NEW i \in DOMAIN H, NEW j \in DOMAIN M, Data(M[j]) PROVE NotAfter(H[i], M[j])
      BY DEF InFront, NotAfter
    <3>1. PICK a \in DOMAIN Q : Q[a] = M[j]
      BY DEF Thin
    <3> QED BY <3>1 DEF Flow, InFront
  <2>4. Sorted(M)
    <3> SUFFICES ASSUME NEW i \in DOMAIN M, NEW j \in DOMAIN M, Data(M[j]) PROVE NotAfter(M[i], M[j])
      BY DEF Sorted, NotAfter
    <3>1. PICK a \in DOMAIN Q : Q[a] = M[j]
      BY DEF Thin
    <3> QED BY <3>1
  <2> QED BY <2>2, <2>3, <2>4 DEF Flow, InFront
<1>4. InFront(L, M)
  <2> SUFFICES ASSUME NEW i \in DOMAIN L, NEW j \in DOMAIN M, Data(M[j]) PROVE NotAfter(L[i], M[j])
    BY DEF InFront, NotAfter
  <2>1. PICK a \in DOMAIN Q : Q[a] = M[j]
    BY DEF Thin
  <2> QED BY <2>1 DEF Flow, InFront
<1>5. \A i \in DOMAIN K : Due(K[i], n, g, x)
  BY <1>2, <1>3 DEF Flow
<1>6. InFront(H, K) /\ InFront(K, Q)
  BY <1>2, <1>3 DEF Flow, InFront
<1>7. Sorted(K)
  <2> SUFFICES ASSUME NEW i \in DOMAIN K, NEW j \in DOMAIN K, i < j PROVE NotAfter(K[i], K[j])
    BY DEF Sorted
  <2>1. CASE j \in DOMAIN L /\ K[j] = L[j]
    <3>1. i \in DOMAIN L /\ K[i] = L[i]
      BY <1>1, <2>1
    <3> QED BY <2>1, <3>1 DEF Flow, Sorted
  <2>2. CASE j - Len(L) \in DOMAIN M /\ K[j] = M[j - Len(L)]
    <3>1. CASE i \in DOMAIN L /\ K[i] = L[i]
      BY <1>4, <2>2, <3>1 DEF InFront
    <3>2. CASE i - Len(L) \in DOMAIN M /\ K[i] = M[i - Len(L)]
      <4>1. i - Len(L) < j - Len(L)
        BY <1>1
      <4> QED BY <1>3, <2>2, <3>2, <4>1 DEF Flow, Sorted
    <3> QED BY <1>2, <3>1, <3>2
  <2> QED BY <1>2, <2>1, <2>2
<1>8. Flow(H, K, Q, n, g, x)
  <2>1. \A P \in {H, K, Q} : \A i \in DOMAIN P : Due(P[i], n, g, x)
    BY <1>5 DEF Flow
  <2> QED BY <1>6, <1>7, <2>1 DEF Flow
<1>9. Flow(H, K, Q2, n, g, x)
  BY <1>8, FlowThins, ThinSame
<1> QED BY <1>9 DEF K

\* The first package on the line comes into the hands of the read thread.
LEMMA FlowReads ==
  ASSUME NEW L \in Seq(Package), NEW Q, NEW n, NEW g, NEW x, L # <<>>,
         Flow(<<>>, L, Q, n, g, x)
  PROVE  Flow(<<Head(L)>>, Tail(L), Q, n, g, x)
<1> DEFINE H == <<Head(L)>>
<1>1. DOMAIN H = {1} /\ H[1] = L[1] /\ 1 \in DOMAIN L
  BY TailAt
<1>2. \A i \in DOMAIN Tail(L) : i + 1 \in DOMAIN L /\ Tail(L)[i] = L[i + 1] /\ 1 < i + 1
  BY TailAt
<1>3. Flow(<<>>, Tail(L), Q, n, g, x)
  BY FlowThins, ThinSame, ThinTail
<1> HIDE DEF H
<1>4. \A i \in DOMAIN H : Due(H[i], n, g, x)
  BY <1>1 DEF Flow
<1>5. InFront(H, Tail(L))
  BY <1>1, <1>2 DEF Flow, InFront, Sorted
<1>6. InFront(H, Q)
  BY <1>1 DEF Flow, InFront
<1>7. \A P \in {H, Tail(L), Q} : \A i \in DOMAIN P : Due(P[i], n, g, x)
  BY <1>3, <1>4 DEF Flow
<1> QED BY <1>3, <1>5, <1>6, <1>7 DEF Flow, H

\* The package held is dispatched: it is the latest now (g2), or the pipe is broken; its
\* index is remembered.
LEMMA FlowGives ==
  ASSUME NEW p \in Package, NEW L \in Seq(Package), NEW Q \in Seq(Package), NEW n, NEW x \in [Session -> Nat],
         NEW g, NEW g2, Data(p), Flow(<<p>>, L, Q, n, g, x),
         \A s \in Session : s # p.id => g2[s] = g[s],
         Latest(g2[p.id]) = p.val \/ (g2[p.id] = g[p.id] /\ p.idx # x[p.id])
  PROVE  Flow(<<>>, L, Q, n, g2, [x EXCEPT ![p.id] = p.idx])
<1> DEFINE y == [x EXCEPT ![p.id] = p.idx]
           H == <<p>>
<1>1. DOMAIN H = {1} /\ H[1] = p /\ p.id \in Session /\ p.val \in Nat /\ DOMAIN <<>> = {}
  BY DEF Package
<1>2. y[p.id] = p.idx /\ \A s \in Session : s # p.id => y[s] = x[s]
  BY <1>1
<1> HIDE DEF y, H
<1>3. Due(p, n, g, x)
  BY <1>1 DEF Flow, H
<1>4. ASSUME NEW P \in {L, Q}, NEW i \in DOMAIN P PROVE Due(P[i], n, g2, y)
  <2>1. Due(P[i], n, g, x) /\ NotAfter(p, P[i]) /\ P[i] \in Package
    BY <1>1, <1>4 DEF Flow, InFront, H
  <2>2. P[i].id \in Session /\ P[i].val \in Nat
    BY <2>1 DEF Package
  <2>3. CASE P[i].id # p.id
    BY <1>2, <2>1, <2>2, <2>3 DEF Due
  <2>4. CASE P[i].id = p.id /\ Data(P[i])
    <3>1. P[i].val \in 1 .. n[p.id] /\ p.val <= P[i].val /\ (p.val = P[i].val => P[i].idx = p.idx)
      BY <2>1, <2>4 DEF Due, NotAfter
    <3>2. CASE Latest(g2[p.id]) = p.val
      BY <1>2, <2>4, <3>1, <3>2 DEF Due
    <3>3. CASE g2[p.id] = g[p.id] /\ p.idx # x[p.id]
      <4>1. Latest(g[p.id]) <= p.val /\ p.val # Latest(g[p.id])
        BY <1>3, <3>3 DEF Due
      <4>2. Latest(g[p.id]) <= P[i].val /\ (P[i].val = Latest(g[p.id]) => P[i].idx = x[p.id])
        BY <2>1, <2>4 DEF Due
      <4>3. P[i].val # Latest(g[p.id])
        BY <1>1, <2>2, <3>1, <4>1
      <4> QED BY <2>4, <3>1, <3>3, <4>2, <4>3 DEF Due
    <3> QED BY <3>2, <3>3
  <2> QED BY <2>3, <2>4 DEF Due
<1>5. InFront(<<>>, L) /\ InFront(<<>>, Q) /\ \A i \in DOMAIN <<>> : FALSE
  BY <1>1 DEF InFront
<1> QED BY <1>4, <1>5 DEF Flow, y

-----------------------------------------------------------------------------
(* The link of one session                                                 *)

\* What the packages and the numbers are.
LEMMA LinkTypes ==
  ASSUME NEW s, NEW H \in Seq(Package), NEW g \in Seq(Nat)
  PROVE  /\ Latest(g) \in Nat /\ Reached(H, g, s) \in Nat
         /\ H = <<>> => Reached(H, g, s) = Latest(g)
<1>1. Latest(g) \in Nat
  BY DEF Latest
<1>2. ASSUME H # <<>> PROVE H[1].val \in Nat
  <2>1. H[1] \in Package
    BY <1>2
  <2> QED BY <2>1 DEF Package
<1> QED BY <1>1, <1>2 DEF Reached

\* The packages of s in P2 that are answers, or that are none, are in P.
Part(P2, P, s, r) ==
  \A i \in DOMAIN P2 : P2[i].id = s /\ (IsResponse(P2[i]) <=> r) => \E j \in DOMAIN P : P[j] = P2[i]

\* Those of s after the payload m are kept.
KeepsAfter(Q2, Q, s, m) ==
  \A i \in DOMAIN Q : Q[i].id = s /\ ~IsResponse(Q[i]) /\ ~(Q[i].idx <= m) => \E j \in DOMAIN Q2 : Q2[j] = Q[i]

\* The answers for s in A2 are in A.
OldAnswers(A2, A, s) == \A p \in A2 : p.id = s /\ IsResponse(p) => p \in A

\* Packages of the session come and go without a change of what is reached: the ones
\* after it stay in the queue.
LEMMA LinkStill ==
  ASSUME NEW s, NEW H \in Seq(Package), NEW L, NEW Q, NEW A, NEW n, NEW g, NEW x,
         NEW H2, NEW L2, NEW Q2, NEW A2,
         Link(s, H, L, Q, A, n, g, x), H2 = H \/ H2 = <<>>, Reached(H2, g, s) = Reached(H, g, s),
         Part(L2, L, s, FALSE), Part(Q2, Q, s, FALSE), KeepsAfter(Q2, Q, s, Reached(H, g, s)),
         OldAnswers(A2, A, s),
         Q \in Seq(Package), Reached(H, g, s) \in Nat, n \in Nat
  PROVE  Link(s, H2, L2, Q2, A2, n, g, x)
<1> DEFINE m == Reached(H, g, s)
<1>1. /\ \A i \in DOMAIN H : Numbered(H[i], s)
      /\ \A i \in DOMAIN L : Numbered(L[i], s)
      /\ \A i \in DOMAIN Q : Numbered(Q[i], s)
      /\ \A p \in A : Answers(p, s, m)
      /\ \A i \in DOMAIN L : L[i].id = s /\ ~IsResponse(L[i]) => L[i].val <= m + 1
      /\ \A v \in m + 1 .. n :
           \E i \in DOMAIN Q : Q[i].id = s /\ ~IsResponse(Q[i]) /\ Q[i].val = v
      /\ m <= Latest(g) + 1 /\ (\A k \in DOMAIN g : g[k] = k) /\ x = Latest(g)
  BY DEF Link
<1>2. m \in Nat /\ Reached(H2, g, s) = m
  OBVIOUS
<1> HIDE DEF m
<1>3. \A i \in DOMAIN H2 : Numbered(H2[i], s)
  <2>1. DOMAIN <<>> = {}
    OBVIOUS
  <2> QED BY <1>1, <2>1
<1>4. \A i \in DOMAIN L2 : /\ Numbered(L2[i], s)
                           /\ L2[i].id = s /\ ~IsResponse(L2[i]) => L2[i].val <= m + 1
  BY <1>1 DEF Numbered, Part
<1>5. \A i \in DOMAIN Q2 : Numbered(Q2[i], s)
  BY <1>1 DEF Numbered, Part
<1>6. \A p \in A2 : Answers(p, s, m)
  BY <1>1 DEF Answers, OldAnswers
<1>7. ASSUME NEW v \in m + 1 .. n
      PROVE  \E i \in DOMAIN Q2 : Q2[i].id = s /\ ~IsResponse(Q2[i]) /\ Q2[i].val = v
  <2>1. PICK i \in DOMAIN Q : Q[i].id = s /\ ~IsResponse(Q[i]) /\ Q[i].val = v
    BY <1>1
  <2>2. Q[i].idx = v
    BY <1>1, <2>1 DEF Numbered
  <2>3. ~(Q[i].idx <= m)
    BY <1>2, <2>2
  <2>4. PICK j \in DOMAIN Q2 : Q2[j] = Q[i]
    BY <2>1, <2>3 DEF m, KeepsAfter
  <2> QED BY <2>1, <2>4
<1>8. \A P \in {H2, L2, Q2} : \A i \in DOMAIN P : Numbered(P[i], s)
  BY <1>3, <1>4, <1>5
<1>9. \A i \in DOMAIN L2 : L2[i].id = s /\ ~IsResponse(L2[i]) => L2[i].val <= m + 1
  BY <1>4
<1> QED BY <1>1, <1>2, <1>6, <1>7, <1>8, <1>9 DEF Link

\* The next payload of the session is put behind the queue.
LEMMA LinkAdds ==
  ASSUME NEW s, NEW H \in Seq(Package), NEW L, NEW Q \in Seq(Package), NEW A, NEW n \in Nat,
         NEW g \in Seq(Nat), NEW x, Link(s, H, L, Q, A, n, g, x),
         NEW p \in Package, p.id = s, Data(p), p.idx = n + 1, p.val = n + 1
  PROVE  Link(s, H, L, Append(Q, p), A, n + 1, g, x)
<1> DEFINE m == Reached(H, g, s)
           Q2 == Append(Q, p)
<1>1. m \in Nat
  BY LinkTypes
<1>2. /\ \A i \in DOMAIN Q2 : i \in DOMAIN Q \/ i = Len(Q) + 1
      /\ \A i \in DOMAIN Q : i \in DOMAIN Q2 /\ Q2[i] = Q[i]
      /\ Len(Q) + 1 \in DOMAIN Q2 /\ Q2[Len(Q) + 1] = p
  BY AppendAt
<1>3. /\ \A P \in {H, L, Q} : \A i \in DOMAIN P : Numbered(P[i], s)
      /\ \A v \in m + 1 .. n :
           \E i \in DOMAIN Q : Q[i].id = s /\ ~IsResponse(Q[i]) /\ Q[i].val = v
  BY DEF Link
<1>4. ~IsResponse(p) /\ Numbered(p, s)
  BY DEF IsResponse, Data, Numbered
<1> HIDE DEF m, Q2
<1>5. \A i \in DOMAIN Q2 : Numbered(Q2[i], s)
  BY <1>2, <1>3, <1>4
<1>6. ASSUME NEW v \in m + 1 .. n + 1
      PROVE  \E i \in DOMAIN Q2 : Q2[i].id = s /\ ~IsResponse(Q2[i]) /\ Q2[i].val = v
  <2>1. CASE v = n + 1
    BY <1>2, <1>4, <2>1
  <2>2. CASE v # n + 1
    <3>1. v \in m + 1 .. n
      BY <1>1, <2>2
    <3>2. PICK i \in DOMAIN Q : Q[i].id = s /\ ~IsResponse(Q[i]) /\ Q[i].val = v
      BY <1>3, <3>1
    <3> QED BY <1>2, <3>2
  <2> QED BY <2>1, <2>2
<1>7. \A P \in {H, L, Q2} : \A i \in DOMAIN P : Numbered(P[i], s)
  BY <1>3, <1>5
<1> QED BY <1>6, <1>7 DEF Link, m, Q2

\* Packages of the queue are sent.  One that is no answer is the first such of its
\* session, so the one before it has been received.
LEMMA LinkSends ==
  ASSUME NEW s, NEW H \in Seq(Package), NEW L \in Seq(Package), NEW Q \in Seq(Package), NEW A, NEW n \in Nat,
         NEW g \in Seq(Nat), NEW x, Link(s, H, L, Q, A, n, g, x), NEW M \in Seq(Package),
         Sorted(Q), \A i \in DOMAIN Q : Q[i].id = s /\ Data(Q[i]) => Q[i].val \in 1 .. n,
         \A i \in DOMAIN M : \E a \in DOMAIN Q :
            /\ Q[a] = M[i]
            /\ ~IsResponse(M[i]) => \A j \in 1 .. a - 1 : ~(Q[j].id = M[i].id /\ ~IsResponse(Q[j]))
  PROVE  Link(s, H, L \o M, Q, A, n, g, x)
<1> DEFINE m == Reached(H, g, s)
           K == L \o M
<1>1. m \in Nat
  BY LinkTypes
<1>2. \A i \in DOMAIN K : \/ i \in DOMAIN L /\ K[i] = L[i]
                          \/ \E j \in DOMAIN M : K[i] = M[j]
  <2> TAKE i \in DOMAIN K
  <2>1. i \in 1 .. Len(L) + Len(M) /\ Len(L) \in Nat /\ Len(M) \in Nat
    OBVIOUS
  <2>2. CASE i <= Len(L)
    BY <2>1, <2>2
  <2>3. CASE i > Len(L)
    <3>1. i - Len(L) \in DOMAIN M /\ K[i] = M[i - Len(L)]
      BY <2>1, <2>3
    <3> QED BY <3>1
  <2> QED BY <2>1, <2>2, <2>3
<1>3. /\ \A i \in DOMAIN H : Numbered(H[i], s)
      /\ \A i \in DOMAIN L : Numbered(L[i], s)
      /\ \A i \in DOMAIN Q : Numbered(Q[i], s)
      /\ \A i \in DOMAIN L : L[i].id = s /\ ~IsResponse(L[i]) => L[i].val <= m + 1
      /\ \A v \in m + 1 .. n :
           \E i \in DOMAIN Q : Q[i].id = s /\ ~IsResponse(Q[i]) /\ Q[i].val = v
  BY DEF Link
<1>4. DOMAIN Q \subseteq Nat /\ DOMAIN Q = 1 .. Len(Q) /\ Len(Q) \in Nat
  OBVIOUS
<1> HIDE DEF m, K
<1>5. ASSUME NEW i \in DOMAIN M, M[i].id = s, ~IsResponse(M[i]) PROVE M[i].val <= m + 1
  <2>1. PICK a \in DOMAIN Q : /\ Q[a] = M[i]
                              /\ \A j \in 1 .. a - 1 : ~(Q[j].id = s /\ ~IsResponse(Q[j]))
    BY <1>5
  <2>2. Data(Q[a]) /\ Q[a].val \in 1 .. n
    BY <1>3, <1>5, <2>1 DEF Numbered
  <2> SUFFICES ASSUME ~(Q[a].val <= m + 1) PROVE FALSE
    BY <2>1
  <2>3. Q[a].val - 1 \in m + 1 .. n
    BY <1>1, <2>2
  <2>4. PICK j \in DOMAIN Q : Q[j].id = s /\ ~IsResponse(Q[j]) /\ Q[j].val = Q[a].val - 1
    BY <1>3, <2>3
  <2>5. Data(Q[j])
    BY <1>3, <2>4 DEF Numbered
  <2>6. ~(j < a)
    BY <1>4, <2>1, <2>4
  <2>7. j # a
    BY <2>2, <2>4
  <2>8. a < j
    BY <1>4, <2>6, <2>7
  <2>9. Q[a].val <= Q[j].val
    BY <1>5, <2>1, <2>2, <2>4, <2>5, <2>8 DEF Sorted, NotAfter
  <2> QED BY <2>2, <2>4, <2>9
<1>6. \A i \in DOMAIN M : Numbered(M[i], s)
  BY <1>3
<1>7. \A i \in DOMAIN K : K[i].id = s /\ ~IsResponse(K[i]) => K[i].val <= m + 1
  BY <1>2, <1>3, <1>5
<1>8. \A P \in {H, K, Q} : \A i \in DOMAIN P : Numbered(P[i], s)
  BY <1>2, <1>3, <1>6
<1> QED BY <1>7, <1>8 DEF Link, m, K

\* The read thread takes data from the line and answers it.
LEMMA LinkReads ==
  ASSUME NEW s, NEW L \in Seq(Package), L # <<>>, NEW Q, NEW A \in SUBSET Package, NEW n \in Nat, NEW g \in Seq(Nat), NEW x,
         Link(s, <<>>, L, Q, A, n, g, x), Data(Head(L)), Head(L).id = s => Latest(g) <= Head(L).val,
         NEW A2, \A p \in A2 : p.id = s /\ IsResponse(p) => p \in A \/ (p.idx = Head(L).idx /\ Head(L).id = s)
  PROVE  Link(s, <<Head(L)>>, Tail(L), Q, A2, n, g, x)
<1> DEFINE p == Head(L)
           H == <<p>>
           m == Reached(<<>>, g, s)
           m2 == Reached(H, g, s)
           T == Tail(L)
<1>1. p \in Package /\ p = L[1] /\ 1 \in DOMAIN L /\ \A i \in DOMAIN T : i + 1 \in DOMAIN L /\ T[i] = L[i + 1]
  BY TailAt
<1>2. Latest(g) \in Nat /\ m = Latest(g) /\ p.val \in Nat /\ p.idx \in Nat
  BY <1>1, LinkTypes DEF Reached, Latest, Package
<1>3. DOMAIN H = {1} /\ H[1] = p /\ m2 = IF p.id = s THEN p.val ELSE Latest(g)
  BY DEF Reached
<1>4. /\ \A i \in DOMAIN L : Numbered(L[i], s)
      /\ \A i \in DOMAIN Q : Numbered(Q[i], s)
      /\ \A i \in DOMAIN L : L[i].id = s /\ ~IsResponse(L[i]) => L[i].val <= m + 1
      /\ \A v \in m + 1 .. n :
           \E i \in DOMAIN Q : Q[i].id = s /\ ~IsResponse(Q[i]) /\ Q[i].val = v
      /\ \A r \in A : Answers(r, s, m)
      /\ (\A k \in DOMAIN g : g[k] = k) /\ x = Latest(g)
  BY DEF Link
<1>5. ~IsResponse(p)
  BY DEF IsResponse, Data
<1>6. m2 \in Nat /\ m <= m2 /\ m2 <= m + 1 /\ (p.id = s => p.idx = m2)
  BY <1>1, <1>2, <1>3, <1>4, <1>5 DEF Numbered
<1>6a. \A r \in A2 : r.id = s /\ IsResponse(r) => r \in A \/ (r.idx = p.idx /\ p.id = s)
  OBVIOUS
<1> HIDE DEF p, H, m, m2, T
<1>7. \A r \in A2 : Answers(r, s, m2)
  <2> SUFFICES ASSUME NEW r \in A2, r.id = s, IsResponse(r) PROVE r.idx <= m2
    BY DEF Answers
  <2>1. CASE r \in A
    <3>1. r.idx <= m
      BY <1>4, <2>1 DEF Answers
    <3>2. r.idx \in Nat
      BY <2>1 DEF Package
    <3> QED BY <1>2, <1>6, <3>1, <3>2
  <2>2. CASE r.idx = p.idx /\ p.id = s
    BY <1>6, <2>2
  <2> QED BY <1>6a, <2>1, <2>2
<1>8. \A i \in DOMAIN T : Numbered(T[i], s) /\ (T[i].id = s /\ ~IsResponse(T[i]) => T[i].val <= m2 + 1)
  <2> TAKE i \in DOMAIN T
  <2>1. i + 1 \in DOMAIN L /\ T[i] = L[i + 1] /\ L[i + 1] \in Package
    BY <1>1
  <2>2. T[i].val \in Nat
    BY <2>1 DEF Package
  <2>3. T[i].id = s /\ ~IsResponse(T[i]) => T[i].val <= m + 1
    BY <1>4, <2>1
  <2>4. T[i].id = s /\ ~IsResponse(T[i]) => T[i].val <= m2 + 1
    BY <1>2, <1>6, <2>2, <2>3
  <2> QED BY <1>4, <2>1, <2>4
<1>9. ASSUME NEW v \in m2 + 1 .. n
      PROVE  \E i \in DOMAIN Q : Q[i].id = s /\ ~IsResponse(Q[i]) /\ Q[i].val = v
  <2>1. v \in m + 1 .. n
    BY <1>2, <1>6
  <2> QED BY <1>4, <2>1
<1>10. \A P \in {H, T, Q} : \A i \in DOMAIN P : Numbered(P[i], s)
  BY <1>1, <1>3, <1>4, <1>8
<1>11. m2 <= Latest(g) + 1
  BY <1>2, <1>6
<1> QED BY <1>4, <1>7, <1>8, <1>9, <1>10, <1>11 DEF Link, p, H, m2, T

\* The package held reaches the worker: it is the next one.
LEMMA LinkGives ==
  ASSUME NEW s, NEW p \in Package, p.id = s, NEW L, NEW Q, NEW A, NEW n, NEW g \in Seq(Nat), NEW x,
         Link(s, <<p>>, L, Q, A, n, g, x), Data(p), p.val >= 1, Latest(g) <= p.val,
         NEW h, h = g \/ (h = <<>> /\ g = <<>>), p.idx # x \/ g = <<>>
  PROVE  Link(s, <<>>, L, Q, A, n, Append(h, p.val), p.idx)
<1> DEFINE H == <<p>>
           g2 == Append(g, p.val)
<1>1. DOMAIN H = {1} /\ H[1] = p /\ Reached(H, g, s) = p.val /\ h = g
  BY DEF Reached
<1>2. p.val \in Nat /\ ~IsResponse(p)
  BY DEF Package, IsResponse, Data
<1>3. Latest(g) \in Nat /\ (g = <<>> => Latest(g) = 0) /\ Len(g) \in Nat
  BY DEF Latest
<1>4. p.idx = p.val /\ p.val <= Latest(g) + 1 /\ x = Latest(g) /\ \A k \in DOMAIN g : g[k] = k
  BY <1>1, <1>2 DEF Link, Numbered
<1>5. Latest(g) = Len(g)
  BY <1>4 DEF Latest
<1>6. p.val = Len(g) + 1
  BY <1>2, <1>3, <1>4, <1>5
<1>7. /\ g2 \in Seq(Nat) /\ g2 # <<>> /\ Len(g2) = Len(g) + 1 /\ g2[Len(g) + 1] = p.val
      /\ \A k \in DOMAIN g2 : (k \in DOMAIN g /\ g2[k] = g[k]) \/ k = Len(g) + 1
  <2>1. g2 \in Seq(Nat) /\ Len(g2) = Len(g) + 1 /\ g2[Len(g) + 1] = p.val
    BY <1>2
  <2>2. \A k \in DOMAIN g2 : (k \in DOMAIN g /\ g2[k] = g[k]) \/ k = Len(g) + 1
    BY <1>2, AppendAt
  <2> HIDE DEF g2
  <2> QED BY <1>3, <2>1, <2>2
<1> HIDE DEF g2, H
<1>8. Latest(g2) = p.val
  BY <1>7 DEF Latest
<1>9. Reached(<<>>, g2, s) = p.val
  BY <1>8 DEF Reached
<1>10. \A k \in DOMAIN g2 : g2[k] = k
  BY <1>4, <1>6, <1>7
<1>11. /\ \A P \in {<<>>, L, Q} : \A i \in DOMAIN P : Numbered(P[i], s)
       /\ \A r \in A : Answers(r, s, p.val)
       /\ \A i \in DOMAIN L : L[i].id = s /\ ~IsResponse(L[i]) => L[i].val <= p.val + 1
       /\ \A v \in p.val + 1 .. n :
             \E i \in DOMAIN Q : Q[i].id = s /\ ~IsResponse(Q[i]) /\ Q[i].val = v
  <2>1. DOMAIN <<>> = {}
    OBVIOUS
  <2> QED BY <1>1, <2>1 DEF Link, H
<1>12. p.val <= Latest(g2) + 1
  BY <1>2, <1>8
<1>13. Link(s, <<>>, L, Q, A, n, g2, p.idx)
  BY <1>4, <1>8, <1>9, <1>10, <1>11, <1>12 DEF Link
<1> QED BY <1>1, <1>13 DEF g2

-----------------------------------------------------------------------------
(* Every step keeps the order, whatever threads send                       *)

LEMMA Peers == \A e \in End : Peer(e) \in End /\ Peer(Peer(e)) = e /\ Peer(e) # e /\ \A d \in End : d = e \/ d = Peer(e)
BY DEF Peer, End

\* What the parts of a direction are.
LEMMA FlowTypes ==
  ASSUME TypeOK, NEW e \in End
  PROVE  /\ Held(e) \in Seq(Package) /\ (rd[e] # NoPkg => rd[e] \in Package)
         /\ line[e] \in Seq(Package) /\ outPkgs[e] \in Seq(Entries) /\ PkgsOf(outPkgs[e]) \in Seq(Package)
         /\ sent[e] \in [Session -> Nat] /\ dispatchedPackageIndex[e] \in [Session -> Nat]
         /\ \A s \in Session : got[e][s] \in Seq(Nat) /\ Latest(got[e][s]) \in Nat
<1>1. /\ rd[e] \in Package \cup {NoPkg} /\ line[e] \in Seq(Package) /\ outPkgs[e] \in Seq(Entries)
      /\ sent[e] \in [Session -> Nat] /\ dispatchedPackageIndex[e] \in [Session -> Nat]
      /\ \A s \in Session : got[e][s] \in Seq(Nat)
  BY DEF TypeOK, Entries
<1>2. Held(e) \in Seq(Package)
  <2>1. CASE rd[e] = NoPkg
    BY <2>1 DEF Held
  <2>2. CASE rd[e] # NoPkg
    <3>1. rd[e] \in Package /\ Held(e) = <<rd[e]>>
      BY <1>1, <2>2 DEF Held
    <3> QED BY <3>1
  <2> QED BY <2>1, <2>2
<1>3. PkgsOf(outPkgs[e]) \in Seq(Package)
  BY <1>1, PkgsAt
<1>4. ASSUME NEW s \in Session PROVE Latest(got[e][s]) \in Nat
  <2>1. got[e][s] \in Seq(Nat)
    BY <1>1
  <2> QED BY <2>1 DEF Latest
<1> QED BY <1>1, <1>2, <1>3, <1>4

\* Packages go away, or some that are no data come.
LEMMA OrderQuiet ==
  ASSUME OrderInv, UNCHANGED <<sent, got, dispatchedPackageIndex>>,
         \A e \in End : /\ rd'[e] = rd[e] \/ rd'[e] = NoPkg
                        /\ Thin(line'[e], line[e]) /\ Thin(PkgsOf(outPkgs'[e]), PkgsOf(outPkgs[e]))
  PROVE  OrderInv'
<1>1. ASSUME NEW e \in End PROVE Ordered(e)'
  <2>1. Peer(e) \in End /\ Ordered(e)
    BY Peers DEF OrderInv
  <2>2. Thin(Held(Peer(e))', Held(Peer(e)))
    <3>1. Held(Peer(e))' = Held(Peer(e)) \/ Held(Peer(e))' = <<>>
      BY <2>1 DEF Held
    <3> QED BY <3>1, ThinSame
  <2> DEFINE H == Held(Peer(e))
             H2 == Held(Peer(e))'
             Q == PkgsOf(outPkgs[e])
             Q2 == PkgsOf(outPkgs'[e])
  <2>3. Flow(H, line[e], Q, sent[e], got[Peer(e)], dispatchedPackageIndex[Peer(e)])
    BY <2>1 DEF Ordered
  <2>4. Thin(Q2, Q) /\ Thin(line'[e], line[e]) /\ Thin(H2, H)
    BY <2>2
  <2>5. PkgsOf(outPkgs[e])' = Q2
    BY DEF PkgsOf
  <2> HIDE DEF H, H2, Q, Q2
  <2>6. Flow(H2, line'[e], Q2, sent[e], got[Peer(e)], dispatchedPackageIndex[Peer(e)])
    BY <2>3, <2>4, FlowThins
  <2> QED BY <2>5, <2>6 DEF Ordered, H2
<1>2. \A e \in End : (rd'[e] # NoPkg => Data(rd'[e])) /\ \A s \in Session : Given(e, s)'
  BY DEF OrderInv, Given
<1> QED BY <1>1, <1>2 DEF OrderInv

\* ClearUARTOutMap and ProcessResponsePackage leave a part of the queue.
LEMMA ThinOther ==
  ASSUME NEW q \in Seq(Entries), NEW s
  PROVE  Other(q, s) \in Seq(Entries) /\ Thin(PkgsOf(Other(q, s)), PkgsOf(q))
<1>1. {i \in DOMAIN q : q[i].pkg.id # s} \in SUBSET (DOMAIN q)
  OBVIOUS
<1> QED BY <1>1, ThinPick, PickTakes DEF Other

LEMMA ThinAcked ==
  ASSUME NEW q \in Seq(Entries), NEW a
  PROVE  Thin(PkgsOf(Acked(q, a)), PkgsOf(q))
<1>1. {i \in DOMAIN q : \/ IsResponse(q[i].pkg)
                        \/ q[i].pkg.id # a.id \/ q[i].pkg.idx # a.idx} \in SUBSET (DOMAIN q)
  OBVIOUS
<1> QED BY <1>1, ThinPick DEF Acked

\* The queue of one end changes so.
LEMMA ThinOne ==
  ASSUME TypeOK, NEW e \in End, NEW q, Thin(PkgsOf(q), PkgsOf(outPkgs[e])), outPkgs' = [outPkgs EXCEPT ![e] = q]
  PROVE  \A d \in End : Thin(PkgsOf(outPkgs'[d]), PkgsOf(outPkgs[d]))
<1>1. outPkgs'[e] = q /\ \A d \in End : d # e => outPkgs'[d] = outPkgs[d]
  BY DEF TypeOK
<1> QED BY <1>1, ThinSame

\* Steps that leave the packages alone.
LEMMA OrderSame ==
  ASSUME OrderInv, UNCHANGED <<sent, got, dispatchedPackageIndex, rd, line, outPkgs>>
  PROVE  OrderInv'
BY OrderQuiet, ThinSame

\* A package that frees a session, or an answer, is added.
LEMMA NoDataPkgs ==
  /\ \A s \in Session, n \in Nat : FreePkg(s, n) \in Package /\ ~Data(FreePkg(s, n)) /\ FreePkg(s, n).id = s
                                   /\ ~IsResponse(FreePkg(s, n))
  /\ \A p \in Package : /\ Ack(p) \in Package /\ ~Data(Ack(p)) /\ Ack(p).id = p.id /\ Ack(p).idx = p.idx
                        /\ IsResponse(Ack(p))
BY DEF FreePkg, Ack, Pkg, Package, Data, IsResponse

\* The session layer stops a session, or a worker refuses what came.
LEMMA OrderSession ==
  ASSUME UartInv, OrderInv, NEW e \in End, NEW s \in Session, SessionStep(e, s)
  PROVE  OrderInv'
<1>1. TypeOK /\ outPkgs[e] \in Seq(Entries)
  BY UartParts
<1>2. CASE FreeSession(e, s)
  BY <1>2, OrderSame DEF FreeSession, histVars
<1>3. CASE StopSession(e, s)
  <2>1. outPkgs' = [outPkgs EXCEPT ![e] = Other(outPkgs[e], s)]
        /\ UNCHANGED <<sent, got, dispatchedPackageIndex, rd, line>>
    BY <1>3 DEF StopSession, histVars
  <2>2. \A d \in End : Thin(PkgsOf(outPkgs'[d]), PkgsOf(outPkgs[d]))
    BY <1>1, <2>1, ThinOther, ThinOne
  <2> QED BY <2>1, <2>2, OrderQuiet, ThinSame
<1>4. CASE WorkerRefuses(e, s)
  <2> DEFINE p == FreePkg(s, packageIndex[e][s])
  <2>1. outPkgs' = [outPkgs EXCEPT ![e] = RequestSendPackage(outPkgs[e], p)]
        /\ UNCHANGED <<sent, got, dispatchedPackageIndex, rd, line>>
    BY <1>4 DEF WorkerRefuses, histVars
  <2>2. packageIndex[e][s] \in Nat
    BY <1>1 DEF TypeOK
  <2>3. p \in Package /\ ~Data(p)
    BY <2>2, NoDataPkgs
  <2> HIDE DEF p
  <2>4. \A d \in End : Thin(PkgsOf(outPkgs'[d]), PkgsOf(outPkgs[d]))
    BY <1>1, <2>1, <2>3, ThinAdd, ThinOne
  <2> QED BY <2>1, <2>4, OrderQuiet, ThinSame
<1> QED BY <1>2, <1>3, <1>4 DEF SessionStep

\* ReadUartDev fails.
LEMMA OrderReadFails ==
  ASSUME UartInv, OrderInv, ReadFails
  PROVE  OrderInv'
<1>1. TypeOK /\ "host" \in End /\ outPkgs["host"] \in Seq(Entries)
  BY UartParts DEF End
<1>2. outPkgs' = [outPkgs EXCEPT !["host"] = Other(outPkgs["host"], cur)]
      /\ UNCHANGED <<sent, got, dispatchedPackageIndex, rd, line>>
  BY DEF ReadFails, histVars
<1>3. \A d \in End : Thin(PkgsOf(outPkgs'[d]), PkgsOf(outPkgs[d]))
  BY <1>1, <1>2, ThinOther, ThinOne
<1> QED BY <1>2, <1>3, OrderQuiet, ThinSame

\* A package is lost.
LEMMA OrderLoses ==
  ASSUME UartInv, OrderInv, NEW e \in End, Lose(e)
  PROVE  OrderInv'
<1>1. TypeOK /\ line[e] \in Seq(Package)
  BY UartParts
<1>2. /\ line[e] # <<>> /\ line' = [line EXCEPT ![e] = Tail(line[e])]
      /\ UNCHANGED <<sent, got, dispatchedPackageIndex, rd, outPkgs>>
  BY DEF Lose, histVars
<1>3. line'[e] = Tail(line[e]) /\ \A d \in End : d # e => line'[d] = line[d]
  BY <1>1, <1>2 DEF TypeOK
<1>4. \A d \in End : Thin(line'[d], line[d])
  BY <1>1, <1>2, <1>3, ThinTail, ThinSame
<1> QED BY <1>2, <1>4, OrderQuiet, ThinSame

\* A duplicate is dropped.
LEMMA OrderDuplicate ==
  ASSUME UartInv, OrderInv, NEW e \in End, DispatchDuplicate(e)
  PROVE  OrderInv'
<1>1. TypeOK
  BY UartParts
<1>2. /\ rd' = [rd EXCEPT ![e] = NoPkg]
      /\ UNCHANGED <<sent, got, dispatchedPackageIndex, line, outPkgs>>
  BY DEF DispatchDuplicate, histVars
<1>3. \A d \in End : rd'[d] = rd[d] \/ rd'[d] = NoPkg
  BY <1>1, <1>2 DEF TypeOK
<1> QED BY <1>2, <1>3, OrderQuiet, ThinSame

\* RequestSendPackage of a caller.
LEMMA OrderAdds ==
  ASSUME UartInv, OrderInv, NEW c \in Caller, NEW more \in BOOLEAN, AddPackage(c, more)
  PROVE  OrderInv'
<1> DEFINE e == EndOf(c)
           s == pc[c].s
           d == Peer(e)
           p == Pkg("data", s, pc[c].n, sent[e][s] + 1)
<1>1. TypeOK /\ InUse /\ e \in End /\ d \in End
  BY UartParts, Peers DEF EndOf, End
<1>2. /\ pc[c].at = "wait"
      /\ outPkgs' = [outPkgs EXCEPT ![e] = RequestSendPackage(outPkgs[e], p)]
      /\ sent' = [sent EXCEPT ![e][s] = sent[e][s] + 1]
      /\ UNCHANGED <<dispatchedPackageIndex, line, rd, got>>
  BY DEF AddPackage
<1>3. s \in Session
  BY <1>1, <1>2 DEF InUse
<1>4. sent[e][s] \in Nat /\ sent[e][s] + 1 \in Nat /\ pc[c].n \in Nat
  <2>1. pc[c].n \in Nat
    BY <1>1, CallerAt
  <2>2. sent \in [End -> [Session -> Nat]]
    BY <1>1 DEF TypeOK
  <2> HIDE DEF e, s
  <2> QED BY <1>1, <1>3, <2>1, <2>2
<1>5. p \in Package /\ Data(p) /\ p.id = s /\ p.val = sent[e][s] + 1
  BY <1>3, <1>4 DEF Pkg, Package, Data
<1> HIDE DEF e, s, d, p
<1>6. /\ Held(d) \in Seq(Package) /\ line[e] \in Seq(Package) /\ outPkgs[e] \in Seq(Entries)
      /\ PkgsOf(outPkgs[e]) \in Seq(Package)
      /\ sent[e] \in [Session -> Nat] /\ Latest(got[d][s]) \in Nat
  BY <1>1, <1>3, FlowTypes
<1>7. /\ outPkgs'[e] = RequestSendPackage(outPkgs[e], p) /\ sent'[e] = [sent[e] EXCEPT ![s] = @ + 1]
      /\ \A x \in End : x # e => outPkgs'[x] = outPkgs[x] /\ sent'[x] = sent[x]
  BY <1>1, <1>2, <1>3 DEF TypeOK
<1>8. Ordered(e)'
  <2> DEFINE Q == PkgsOf(outPkgs[e])
             Q2 == PkgsOf(outPkgs'[e])
  <2>1. Q2 = Q \/ Q2 = Append(Q, p)
    BY <1>5, <1>6, <1>7, PkgsAdd
  <2>2. Flow(Held(d), line[e], Q, sent[e], got[d], dispatchedPackageIndex[d])
    BY <1>1 DEF OrderInv, Ordered, d
  <2>3. Latest(got[d][s]) \in 0 .. sent[e][s]
    <3>1. Given(d, s) /\ Peer(d) = e
      BY <1>1, <1>3, Peers DEF OrderInv, d
    <3> QED BY <1>4, <1>6, <3>1 DEF Given
  <2> HIDE DEF Q, Q2
  <2>4. Q \in Seq(Package)
    BY <1>6 DEF Q
  <2>5. Flow(Held(d), line[e], Q2, [sent[e] EXCEPT ![p.id] = @ + 1], got[d], dispatchedPackageIndex[d])
    BY <1>5, <1>6, <2>1, <2>2, <2>3, <2>4, FlowAdds
  <2>6. Held(d)' = Held(d) /\ PkgsOf(outPkgs[e])' = Q2
    BY <1>2 DEF Held, Q2, PkgsOf
  <2> QED BY <1>2, <1>5, <1>7, <2>5, <2>6 DEF Ordered, d
<1>9. ASSUME NEW x \in End, x # e PROVE Ordered(x)'
  <2>1. Ordered(x) /\ Peer(x) \in End /\ Held(Peer(x))' = Held(Peer(x)) /\ PkgsOf(outPkgs[x])' = PkgsOf(outPkgs[x])
    BY <1>2, <1>7, <1>9, Peers DEF OrderInv, Held, PkgsOf
  <2> QED BY <1>2, <1>7, <1>9, <2>1 DEF Ordered
<1>10. ASSUME NEW x \in End, NEW t \in Session PROVE Given(x, t)'
  <2>1. Given(x, t) /\ Peer(x) \in End
    BY Peers DEF OrderInv
  <2>2. sent[Peer(x)][t] \in Nat /\ Latest(got[x][t]) \in Nat /\ (sent'[Peer(x)][t] = sent[Peer(x)][t]
         \/ sent'[Peer(x)][t] = sent[Peer(x)][t] + 1)
    BY <1>1, <1>2, <1>3, <2>1, FlowTypes DEF TypeOK
  <2> QED BY <1>2, <2>1, <2>2 DEF Given
<1> QED BY <1>2, <1>8, <1>9, <1>10 DEF OrderInv

LEMMA PartSame == \A P, s, r : Part(P, P, s, r)
BY DEF Part

LEMMA PartTwice ==
  ASSUME NEW P, NEW P2, NEW P3, NEW s, NEW r \in BOOLEAN, Part(P2, P, s, r), Part(P3, P2, s, r)
  PROVE  Part(P3, P, s, r)
<1> SUFFICES ASSUME NEW i \in DOMAIN P3, P3[i].id = s, IsResponse(P3[i]) <=> r
             PROVE  \E j \in DOMAIN P : P[j] = P3[i]
  BY DEF Part
<1>1. PICK j \in DOMAIN P2 : P2[j] = P3[i]
  BY DEF Part
<1> QED BY <1>1 DEF Part

LEMMA PartPick ==
  ASSUME NEW q \in Seq(Entries), NEW I \in SUBSET (DOMAIN q), NEW s, NEW r \in BOOLEAN
  PROVE  /\ Part(PkgsOf(Pick(q, I)), PkgsOf(q), s, r)
         /\ (\A i \in DOMAIN q : q[i].pkg.id = s /\ (IsResponse(q[i].pkg) <=> r) => i \in I)
            => Part(PkgsOf(q), PkgsOf(Pick(q, I)), s, r)
<1> DEFINE z == Pick(q, I)
<1>1. /\ \A k \in DOMAIN z : Nth(I, k) \in I /\ z[k] = q[Nth(I, k)]
      /\ \A i \in I : \E k \in DOMAIN z : Nth(I, k) = i /\ z[k] = q[i]
  BY PickTakes
<1> HIDE DEF z
<1>2. /\ DOMAIN PkgsOf(z) = DOMAIN z /\ DOMAIN PkgsOf(q) = DOMAIN q
      /\ \A k \in DOMAIN z : PkgsOf(z)[k] = z[k].pkg
      /\ \A i \in DOMAIN q : PkgsOf(q)[i] = q[i].pkg
  BY DEF PkgsOf
<1>3. Part(PkgsOf(z), PkgsOf(q), s, r)
  BY <1>1, <1>2 DEF Part
<1>4. ASSUME \A i \in DOMAIN q : q[i].pkg.id = s /\ (IsResponse(q[i].pkg) <=> r) => i \in I
      PROVE  Part(PkgsOf(q), PkgsOf(z), s, r)
  BY <1>1, <1>2, <1>4 DEF Part
<1> QED BY <1>3, <1>4 DEF z

LEMMA PartOther ==
  ASSUME NEW q \in Seq(Entries), NEW t, NEW s, NEW r \in BOOLEAN
  PROVE  /\ Part(PkgsOf(Other(q, t)), PkgsOf(q), s, r)
         /\ t # s => Part(PkgsOf(q), PkgsOf(Other(q, t)), s, r)
<1> DEFINE I == {i \in DOMAIN q : q[i].pkg.id # t}
<1>1. I \in SUBSET (DOMAIN q) /\ Other(q, t) = Pick(q, I)
  BY DEF Other
<1>2. t # s => \A i \in DOMAIN q : q[i].pkg.id = s /\ (IsResponse(q[i].pkg) <=> r) => i \in I
  OBVIOUS
<1> HIDE DEF I
<1> QED BY <1>1, <1>2, PartPick

LEMMA PartAcked ==
  ASSUME NEW q \in Seq(Entries), NEW a, NEW s
  PROVE  /\ \A r \in BOOLEAN : Part(PkgsOf(Acked(q, a)), PkgsOf(q), s, r)
         /\ a.id # s => Part(PkgsOf(q), PkgsOf(Acked(q, a)), s, FALSE)
         /\ \A i \in DOMAIN PkgsOf(q) :
              ~(PkgsOf(q)[i].id = a.id /\ PkgsOf(q)[i].idx = a.idx) =>
                \E j \in DOMAIN PkgsOf(Acked(q, a)) : PkgsOf(Acked(q, a))[j] = PkgsOf(q)[i]
<1> DEFINE I == {i \in DOMAIN q : \/ IsResponse(q[i].pkg)
                                  \/ q[i].pkg.id # a.id \/ q[i].pkg.idx # a.idx}
           z == Pick(q, I)
<1>1. I \in SUBSET (DOMAIN q) /\ Acked(q, a) = z
  BY DEF Acked
<1>2. a.id # s => \A i \in DOMAIN q : q[i].pkg.id = s /\ (IsResponse(q[i].pkg) <=> FALSE) => i \in I
  OBVIOUS
<1>3. \A i \in DOMAIN q : ~(q[i].pkg.id = a.id /\ q[i].pkg.idx = a.idx) => i \in I
  OBVIOUS
<1> HIDE DEF I
<1>4. \A i \in I : \E k \in DOMAIN z : z[k] = q[i]
  BY <1>1, PickTakes
<1> HIDE DEF z
<1>5. /\ DOMAIN PkgsOf(z) = DOMAIN z /\ DOMAIN PkgsOf(q) = DOMAIN q
      /\ \A k \in DOMAIN z : PkgsOf(z)[k] = z[k].pkg
      /\ \A i \in DOMAIN q : PkgsOf(q)[i] = q[i].pkg
  BY DEF PkgsOf
<1>6. \A i \in DOMAIN PkgsOf(q) : ~(PkgsOf(q)[i].id = a.id /\ PkgsOf(q)[i].idx = a.idx) =>
                \E j \in DOMAIN PkgsOf(z) : PkgsOf(z)[j] = PkgsOf(q)[i]
  BY <1>3, <1>4, <1>5
<1>7. /\ \A r \in BOOLEAN : Part(PkgsOf(z), PkgsOf(q), s, r)
      /\ a.id # s => Part(PkgsOf(q), PkgsOf(z), s, FALSE)
  BY <1>1, <1>2, PartPick DEF z
<1> QED BY <1>1, <1>6, <1>7

LEMMA PartAdd ==
  ASSUME NEW q \in Seq(Entries), NEW p \in Package, NEW s, NEW r \in BOOLEAN
  PROVE  /\ Part(PkgsOf(q), PkgsOf(RequestSendPackage(q, p)), s, r)
         /\ ~(p.id = s /\ (IsResponse(p) <=> r)) => Part(PkgsOf(RequestSendPackage(q, p)), PkgsOf(q), s, r)
<1>1. PkgsOf(q) \in Seq(Package)
  BY PkgsAt
<1>2. CASE Queued(q, p)
  BY <1>2, PkgsAdd, PartSame
<1>3. CASE ~Queued(q, p)
  <2> DEFINE P == PkgsOf(q)
             R == Append(P, p)
  <2>1. /\ R[Len(P) + 1] = p
        /\ \A i \in DOMAIN R : i \in DOMAIN P \/ i = Len(P) + 1
        /\ \A i \in DOMAIN P : i \in DOMAIN R /\ R[i] = P[i]
    BY <1>1, AppendAt
  <2> HIDE DEF R, P
  <2>2. Part(P, R, s, r) /\ (~(p.id = s /\ (IsResponse(p) <=> r)) => Part(R, P, s, r))
    BY <2>1 DEF Part
  <2> QED BY <1>3, <2>2, PkgsAdd DEF R, P
<1> QED BY <1>2, <1>3

\* A retry changes the status and the number of retries of a package, not the package.
LEMMA PkgsRetried ==
  ASSUME NEW q \in Seq(Entries), NEW s
  PROVE  PkgsOf(Retried(q, s)) = PkgsOf(q)
<1> DEFINE i == Min({j \in DOMAIN q : q[j].pkg.id = s /\ q[j].st = "response"})
           z == Retried(q, s)
<1>1. z = [q EXCEPT ![i] = [[q[i] EXCEPT !.st = "send"] EXCEPT !.retry = q[i].retry - 1]]
  BY DEF Retried
<1> HIDE DEF i, z
<1>2. DOMAIN z = DOMAIN q
  BY <1>1
<1>3. ASSUME NEW k \in DOMAIN q PROVE z[k].pkg = q[k].pkg
  <2>1. q[k] \in Entries
    OBVIOUS
  <2>2. z[k] = IF k = i THEN [[q[k] EXCEPT !.st = "send"] EXCEPT !.retry = q[k].retry - 1] ELSE q[k]
    BY <1>1
  <2> QED BY <2>1, <2>2 DEF Entries
<1> QED BY <1>2, <1>3 DEF PkgsOf, z

\* What a pass that ends at b sends, and what it leaves.
LEMMA PassPkgs ==
  ASSUME NEW e \in End, outPkgs[e] \in Seq(Entries), NEW b \in 1 .. Len(outPkgs[e]) + 1
  PROVE  LET q == outPkgs[e]
             M == SentBefore(e, b)
             rest == Passed(e, b)
         IN  /\ M \in Seq(Package) /\ Thin(M, PkgsOf(q))
             /\ \A i \in DOMAIN M : \E a \in DOMAIN PkgsOf(q) :
                  PkgsOf(q)[a] = M[i] /\ (~IsResponse(M[i]) => ~Blocked(q, a))
             /\ rest \in Seq(Entries) /\ Thin(PkgsOf(rest), PkgsOf(q))
             /\ \A s : /\ \A r \in BOOLEAN : Part(PkgsOf(rest), PkgsOf(q), s, r)
                       /\ Part(PkgsOf(q), PkgsOf(rest), s, FALSE)
<1> DEFINE q == outPkgs[e]
           I == {i \in 1 .. b - 1 : ToSend(q, i)}
           go == Pick(q, I)
           M == SentBefore(e, b)
           w == Seen(e, b)
           J == Remaining(e, b)
           rest == Passed(e, b)
<1>1. I \in SUBSET (DOMAIN q) /\ M = PkgsOf(go)
  BY DEF SentBefore, PkgsOf
<1>2. \A i \in I : ToSend(q, i)
  OBVIOUS
<1> HIDE DEF I
<1>3. /\ go \in Seq(Entries) /\ \A k \in DOMAIN go : Nth(I, k) \in I /\ go[k] = q[Nth(I, k)]
      /\ Thin(PkgsOf(go), PkgsOf(q))
  BY <1>1, PickTakes, ThinPick
<1>4. b \in Nat /\ DOMAIN PkgsOf(q) = DOMAIN q /\ \A i \in DOMAIN q : PkgsOf(q)[i] = q[i].pkg
  BY PkgsAt
<1> HIDE DEF go
<1>5. /\ M \in Seq(Package) /\ DOMAIN M = DOMAIN go /\ \A k \in DOMAIN go : M[k] = go[k].pkg
  BY <1>1, <1>3, PkgsAt
<1>6. ASSUME NEW i \in DOMAIN M
      PROVE  \E a \in DOMAIN PkgsOf(q) : PkgsOf(q)[a] = M[i] /\ (~IsResponse(M[i]) => ~Blocked(q, a))
  <2>1. Nth(I, i) \in I /\ Nth(I, i) \in DOMAIN q /\ M[i] = q[Nth(I, i)].pkg /\ ToSend(q, Nth(I, i))
    BY <1>1, <1>2, <1>3, <1>5
  <2>2. ~IsResponse(M[i]) => ~Blocked(q, Nth(I, i))
    BY <2>1 DEF ToSend
  <2> QED BY <1>4, <2>1, <2>2
<1>7. /\ w \in Seq(Entries) /\ DOMAIN w = DOMAIN q /\ rest = Pick(w, J) /\ J \in SUBSET (DOMAIN w)
      /\ \A i \in DOMAIN q : w[i].pkg = q[i].pkg
  BY <1>4, SeenFits
<1>8. \A i \in DOMAIN w : ~IsResponse(w[i].pkg) => i \in J
  BY DEF Remaining
<1>9. PkgsOf(w) = PkgsOf(q)
  BY <1>7 DEF PkgsOf
<1> HIDE DEF w, J, rest, M, q
<1>10. rest \in Seq(Entries) /\ Thin(PkgsOf(rest), PkgsOf(q))
  BY <1>7, <1>9, PickTakes, ThinPick
<1>11. ASSUME NEW s PROVE /\ \A r \in BOOLEAN : Part(PkgsOf(rest), PkgsOf(q), s, r)
                          /\ Part(PkgsOf(q), PkgsOf(rest), s, FALSE)
  BY <1>7, <1>8, <1>9, PartPick
<1> QED BY <1>1, <1>3, <1>5, <1>6, <1>10, <1>11 DEF q, rest, M

\* What one pass does to a line and a queue.
LEMMA PassDoes ==
  ASSUME UartInv, NEW e \in End, NEW late \in SUBSET Waiting(e), NEW bad, NEW woken,
         SendPkgInUARTOutMap(e, late, bad, woken)
  PROVE  \E M \in Seq(Package) :
           /\ line'[e] = line[e] \o M /\ \A x \in End : x # e => line'[x] = line[x] /\ outPkgs'[x] = outPkgs[x]
           /\ UNCHANGED <<packageIndex, pc, rd, dispatchedPackageIndex, sent, got, broken, again, raced>>
           /\ Thin(M, PkgsOf(outPkgs[e]))
           /\ \A i \in DOMAIN M : \E a \in DOMAIN PkgsOf(outPkgs[e]) :
                PkgsOf(outPkgs[e])[a] = M[i] /\ (~IsResponse(M[i]) => ~Blocked(outPkgs[e], a))
           /\ Thin(PkgsOf(outPkgs'[e]), PkgsOf(outPkgs[e]))
           /\ \A s \in Session : /\ Part(PkgsOf(outPkgs'[e]), PkgsOf(outPkgs[e]), s, FALSE)
                                 /\ Part(PkgsOf(outPkgs'[e]), PkgsOf(outPkgs[e]), s, TRUE)
                                 /\ sess'[e][s] \in {"none", "live"} =>
                                      /\ Part(PkgsOf(outPkgs[e]), PkgsOf(outPkgs'[e]), s, FALSE)
                                      /\ sess[e][s] = sess'[e][s]
           /\ \A s \in Session, x \in End : \/ sess'[x][s] = sess[x][s]
                                            \/ sess'[x][s] \in {"dead", "shut"} /\ sess[x][s] # "none"
<1> DEFINE q == outPkgs[e]
           b == Stop(e, late, bad)
           t == q[b].pkg.id
           rest == Passed(e, b)
           M == SentBefore(e, b)
           retry == b <= Len(q) /\ b \in late /\ CanRetry(q[b])
           error == b <= Len(q) /\ ~retry /\ InMap(e, t)
           new == IF retry THEN Retried(rest, t) ELSE IF error THEN Other(rest, t) ELSE rest
<1>1. TypeOK /\ q \in Seq(Entries)
  BY UartParts
<1>2. /\ line' = [line EXCEPT ![e] = line[e] \o M]
      /\ outPkgs' = [outPkgs EXCEPT ![e] = new]
      /\ IF error THEN TransferError(e, t) ELSE UNCHANGED <<sess, slots>>
      /\ UNCHANGED <<packageIndex, pc, rd, dispatchedPackageIndex, sent, got, broken, again, raced>>
  BY DEF SendPkgInUARTOutMap, histVars
<1>3. b \in 1 .. Len(q) + 1 /\ Len(q) \in Nat
  BY <1>1, PassStops
<1>4. error => InMap(e, t) /\ t \in Session
  <2> SUFFICES ASSUME error PROVE t \in Session
    OBVIOUS
  <2>1. b \in DOMAIN q
    BY <1>1, <1>3
  <2> QED BY <1>1, <2>1, EntryIds
<1> HIDE DEF q, b, t, retry, error, new, M, rest
<1>5. /\ M \in Seq(Package) /\ Thin(M, PkgsOf(q))
      /\ \A i \in DOMAIN M : \E a \in DOMAIN PkgsOf(q) :
           PkgsOf(q)[a] = M[i] /\ (~IsResponse(M[i]) => ~Blocked(q, a))
      /\ rest \in Seq(Entries) /\ Thin(PkgsOf(rest), PkgsOf(q))
      /\ \A s : /\ \A r \in BOOLEAN : Part(PkgsOf(rest), PkgsOf(q), s, r)
                /\ Part(PkgsOf(q), PkgsOf(rest), s, FALSE)
  BY <1>1, <1>3, PassPkgs DEF q, M, rest
<1>6. /\ line'[e] = line[e] \o M /\ outPkgs'[e] = new
      /\ \A x \in End : x # e => line'[x] = line[x] /\ outPkgs'[x] = outPkgs[x]
  BY <1>1, <1>2 DEF TypeOK
<1>7. \A s \in Session, x \in End :
        sess'[x][s] = IF error /\ x = e /\ s = t THEN (IF e = "host" THEN "shut" ELSE "dead") ELSE sess[x][s]
  <2>1. CASE error
    <3>1. sess' = [sess EXCEPT ![e][t] = IF e = "host" THEN "shut" ELSE "dead"] /\ t \in Session
      BY <1>2, <1>4, <2>1 DEF TransferError
    <3>2. sess \in [End -> [Session -> {"none", "live", "dead", "shut", "gone"}]]
      BY <1>1 DEF TypeOK
    <3> QED BY <2>1, <3>1, <3>2
  <2>2. CASE ~error
    BY <1>2, <2>2
  <2> QED BY <2>1, <2>2
<1>8. Thin(PkgsOf(new), PkgsOf(q))
  <2>1. CASE retry
    BY <1>5, <2>1, PkgsRetried DEF new
  <2>2. CASE ~retry /\ error
    BY <1>5, <2>2, ThinOther, ThinTwice DEF new
  <2>3. CASE ~retry /\ ~error
    BY <1>5, <2>3 DEF new
  <2> QED BY <2>1, <2>2, <2>3
<1>9. ASSUME NEW s \in Session
      PROVE  /\ Part(PkgsOf(new), PkgsOf(q), s, FALSE) /\ Part(PkgsOf(new), PkgsOf(q), s, TRUE)
             /\ ~(error /\ s = t) => Part(PkgsOf(q), PkgsOf(new), s, FALSE)
  <2>1. CASE retry
    BY <1>5, <2>1, PkgsRetried DEF new
  <2>2. CASE ~retry /\ error
    <3>1. new = Other(rest, t)
      BY <2>2 DEF new
    <3>2. \A r \in BOOLEAN : Part(PkgsOf(new), PkgsOf(rest), s, r)
      BY <1>5, <3>1, PartOther
    <3>3. t # s => Part(PkgsOf(rest), PkgsOf(new), s, FALSE)
      BY <1>5, <3>1, PartOther
    <3> QED BY <1>5, <2>2, <3>2, <3>3, PartTwice
  <2>3. CASE ~retry /\ ~error
    BY <1>5, <2>3 DEF new
  <2> QED BY <2>1, <2>2, <2>3
<1>10. ASSUME NEW s \in Session, sess'[e][s] \in {"none", "live"}
       PROVE  Part(PkgsOf(q), PkgsOf(new), s, FALSE) /\ sess[e][s] = sess'[e][s]
  BY <1>7, <1>9, <1>10
<1>11. \A s \in Session, x \in End : \/ sess'[x][s] = sess[x][s]
                                     \/ sess'[x][s] \in {"dead", "shut"} /\ sess[x][s] # "none"
  BY <1>4, <1>7 DEF InMap
<1>12. M \in Seq(Package)
  BY <1>5
<1> USE <1>12
<1> WITNESS M \in Seq(Package)
<1> QED BY <1>2, <1>5, <1>6, <1>8, <1>9, <1>10, <1>11 DEF q

\* A pass sends what is first of its session.
LEMMA OrderPass ==
  ASSUME UartInv, OrderInv, NEW e \in End, NEW late \in SUBSET Waiting(e), NEW bad, NEW woken,
         SendPkgInUARTOutMap(e, late, bad, woken)
  PROVE  OrderInv'
<1> DEFINE q == outPkgs[e]
           Q == PkgsOf(outPkgs[e])
           Q2 == PkgsOf(outPkgs'[e])
           d == Peer(e)
<1>1. PICK M \in Seq(Package) :
           /\ line'[e] = line[e] \o M /\ \A x \in End : x # e => line'[x] = line[x] /\ outPkgs'[x] = outPkgs[x]
           /\ UNCHANGED <<rd, dispatchedPackageIndex, sent, got>>
           /\ Thin(M, Q)
           /\ \A i \in DOMAIN M : \E a \in DOMAIN Q : Q[a] = M[i] /\ (~IsResponse(M[i]) => ~Blocked(q, a))
           /\ Thin(Q2, Q)
  BY PassDoes
<1>2. TypeOK /\ e \in End /\ d \in End
  BY UartParts, Peers
<1>3. Held(d) \in Seq(Package) /\ line[e] \in Seq(Package) /\ q \in Seq(Entries) /\ Q \in Seq(Package)
  BY <1>2, FlowTypes
<1>4. DOMAIN Q = DOMAIN q /\ DOMAIN q = 1 .. Len(q) /\ Len(q) \in Nat /\ \A i \in DOMAIN q : Q[i] = q[i].pkg
  BY <1>3, PkgsAt
<1>5. Flow(Held(d), line[e], Q, sent[e], got[d], dispatchedPackageIndex[d])
  BY DEF OrderInv, Ordered
<1> HIDE DEF q, Q, Q2, d
<1>6. ASSUME NEW i \in DOMAIN M, NEW j \in DOMAIN Q PROVE NotAfter(M[i], Q[j])
  <2> SUFFICES ASSUME Data(M[i]), Data(Q[j]), M[i].id = Q[j].id PROVE NotAfter(M[i], Q[j])
    BY DEF NotAfter
  <2>1. ~IsResponse(M[i]) /\ ~IsResponse(Q[j])
    BY DEF Data, IsResponse
  <2>2. PICK a \in DOMAIN Q : Q[a] = M[i] /\ ~Blocked(q, a)
    BY <1>1, <2>1
  <2>3. ~(j < a)
    <3> SUFFICES ASSUME j < a PROVE FALSE
      OBVIOUS
    <3>1. j \in 1 .. a - 1 /\ q[j].pkg = Q[j] /\ q[a].pkg = Q[a]
      BY <1>4, <2>2
    <3> QED BY <2>1, <2>2, <3>1 DEF Blocked
  <2>4. a = j \/ a < j
    BY <1>4, <2>2, <2>3
  <2>5. CASE a = j
    <3>1. M[i].val \in Nat
      <4>1. M[i] \in Package
        OBVIOUS
      <4> QED BY <4>1 DEF Package
    <3> QED BY <2>2, <2>5, <3>1 DEF NotAfter
  <2>6. CASE a < j
    BY <1>5, <2>2, <2>6 DEF Flow, Sorted
  <2> QED BY <2>4, <2>5, <2>6
<1>7. Flow(Held(d), line[e] \o M, Q2, sent[e], got[d], dispatchedPackageIndex[d])
  BY <1>1, <1>3, <1>5, <1>6, FlowSends
<1>8. Ordered(e)'
  <2>1. Held(d)' = Held(d) /\ PkgsOf(outPkgs[e])' = Q2
    BY <1>1 DEF Held, PkgsOf, Q2
  <2> QED BY <1>1, <1>7, <2>1 DEF Ordered, d
<1>9. ASSUME NEW x \in End, x # e PROVE Ordered(x)'
  <2>1. Ordered(x) /\ Held(Peer(x))' = Held(Peer(x)) /\ PkgsOf(outPkgs[x])' = PkgsOf(outPkgs[x])
    BY <1>1, <1>9 DEF OrderInv, Held, PkgsOf
  <2> QED BY <1>1, <1>9, <2>1 DEF Ordered
<1>10. \A x \in End : (rd'[x] # NoPkg => Data(rd'[x])) /\ \A s \in Session : Given(x, s)'
  BY <1>1 DEF OrderInv, Given
<1> QED BY <1>8, <1>9, <1>10 DEF OrderInv

\* What ValidateUartPacket does to a line and a queue, for each kind of package.
LEMMA ReadDoes ==
  ASSUME UartInv, NEW x \in End, ValidateUartPacket(x)
  PROVE  \E p \in Package, q \in Seq(Entries) :
           /\ line[Peer(x)] # <<>> /\ p = Head(line[Peer(x)]) /\ rd[x] = NoPkg
           /\ line'[Peer(x)] = Tail(line[Peer(x)]) /\ line'[x] = line[x]
           /\ rd'[x] = IF Data(p) THEN p ELSE NoPkg
           /\ rd'[Peer(x)] = rd[Peer(x)] /\ outPkgs'[Peer(x)] = outPkgs[Peer(x)]
           /\ UNCHANGED <<dispatchedPackageIndex, packageIndex, pc, sent, got, broken, again, raced>>
           /\ q = outPkgs[x] \/ (q = Other(outPkgs[x], p.id) /\ sess'[x][p.id] \in {"dead", "shut"})
           /\ \/ IsResponse(p) /\ q = outPkgs[x] /\ outPkgs'[x] = Acked(q, p)
              \/ ~IsResponse(p) /\ ~Data(p) /\ outPkgs'[x] = q
              \/ ~IsResponse(p) /\ outPkgs'[x] = RequestSendPackage(q, Ack(p)) /\ (Data(p) => q = outPkgs[x])
           /\ \A s \in Session, y \in End : \/ sess'[y][s] = sess[y][s]
                                            \/ sess'[y][s] \in {"dead", "shut"} /\ sess[y][s] # "none"
<1> DEFINE l == line[Peer(x)]
           p == Head(l)
<1>1. TypeOK /\ outPkgs[x] \in Seq(Entries) /\ Peer(x) \in End /\ Peer(x) # x /\ l \in Seq(Package)
  BY UartParts, Peers
<1>2. /\ rd[x] = NoPkg /\ l # <<>> /\ line' = [line EXCEPT ![Peer(x)] = Tail(l)]
      /\ rd' = [rd EXCEPT ![x] = IF p.kind = "data" THEN p ELSE NoPkg]
      /\ UNCHANGED <<dispatchedPackageIndex, packageIndex, pc, sent, got, broken, again, raced>>
  BY DEF ValidateUartPacket, histVars
<1>3. /\ CASE p.kind = "ack"   -> ProcessResponsePackage(x, p)
           [] p.kind = "reset" -> ResetOldSession(x, p.id)
           [] p.kind = "free"  -> Restartession(x, p)
           [] p.kind = "data"  -> /\ outPkgs' = [outPkgs EXCEPT ![x] = RequestSendPackage(@, Ack(p))]
                                  /\ UNCHANGED <<sess, slots>>
  BY DEF ValidateUartPacket
<1>4. p \in Package /\ p.id \in Session /\ p.kind \in {"data", "ack", "free", "reset"}
  <2>1. p \in Package
    BY <1>1, <1>2, TailAt
  <2> QED BY <2>1 DEF Package
<1> HIDE DEF l, p
<1>5. /\ line'[Peer(x)] = Tail(l) /\ line'[x] = line[x] /\ rd'[Peer(x)] = rd[Peer(x)]
      /\ rd'[x] = IF Data(p) THEN p ELSE NoPkg
  BY <1>1, <1>2 DEF TypeOK, Data
<1>6. Other(outPkgs[x], p.id) \in Seq(Entries)
  BY <1>1, ThinOther
<1>7. ASSUME TransferError(x, p.id), InMap(x, p.id)
      PROVE  /\ sess'[x][p.id] \in {"dead", "shut"}
             /\ \A s \in Session, y \in End : \/ sess'[y][s] = sess[y][s]
                                              \/ sess'[y][s] \in {"dead", "shut"} /\ sess[y][s] # "none"
  <2>1. sess' = [sess EXCEPT ![x][p.id] = IF x = "host" THEN "shut" ELSE "dead"]
    BY <1>7 DEF TransferError
  <2>2. sess \in [End -> [Session -> {"none", "live", "dead", "shut", "gone"}]]
    BY <1>1 DEF TypeOK
  <2>3. \A s \in Session, y \in End :
          sess'[y][s] = IF y = x /\ s = p.id THEN (IF x = "host" THEN "shut" ELSE "dead") ELSE sess[y][s]
    BY <1>4, <2>1, <2>2
  <2> QED BY <1>4, <1>7, <2>3 DEF InMap
<1>8. \A r : outPkgs' = [outPkgs EXCEPT ![x] = r] => outPkgs'[x] = r /\ outPkgs'[Peer(x)] = outPkgs[Peer(x)]
  BY <1>1 DEF TypeOK
<1> DEFINE Does(q) ==
     /\ q \in Seq(Entries)
     /\ outPkgs'[Peer(x)] = outPkgs[Peer(x)]
     /\ q = outPkgs[x] \/ (q = Other(outPkgs[x], p.id) /\ sess'[x][p.id] \in {"dead", "shut"})
     /\ \/ IsResponse(p) /\ q = outPkgs[x] /\ outPkgs'[x] = Acked(q, p)
        \/ ~IsResponse(p) /\ ~Data(p) /\ outPkgs'[x] = q
        \/ ~IsResponse(p) /\ outPkgs'[x] = RequestSendPackage(q, Ack(p)) /\ (Data(p) => q = outPkgs[x])
     /\ \A s \in Session, y \in End : \/ sess'[y][s] = sess[y][s]
                                      \/ sess'[y][s] \in {"dead", "shut"} /\ sess[y][s] # "none"
<1>9. CASE p.kind = "ack"
  <2>1. outPkgs' = [outPkgs EXCEPT ![x] = Acked(outPkgs[x], p)] /\ UNCHANGED sess
    BY <1>3, <1>9 DEF ProcessResponsePackage
  <2>2. Does(outPkgs[x])
    BY <1>1, <1>8, <1>9, <2>1 DEF IsResponse
  <2> HIDE DEF Does
  <2> QED BY <1>1, <1>2, <1>4, <1>5, <2>2 DEF Does, l, p
<1>10. CASE p.kind = "data"
  <2>1. outPkgs' = [outPkgs EXCEPT ![x] = RequestSendPackage(outPkgs[x], Ack(p))] /\ UNCHANGED sess
    BY <1>3, <1>10
  <2>2. Does(outPkgs[x])
    BY <1>1, <1>8, <1>10, <2>1 DEF IsResponse
  <2> HIDE DEF Does
  <2> QED BY <1>1, <1>2, <1>4, <1>5, <2>2 DEF Does, l, p
<1>11. CASE p.kind = "free"
  <2>0. Restartession(x, p) /\ ~IsResponse(p) /\ ~Data(p)
    BY <1>3, <1>11 DEF IsResponse, Data
  <2>1. CASE InMap(x, p.id)
    <3>1. /\ TransferError(x, p.id)
          /\ outPkgs' = [outPkgs EXCEPT ![x] = RequestSendPackage(Other(outPkgs[x], p.id), Ack(p))]
      BY <2>0, <2>1 DEF Restartession
    <3>2. Does(Other(outPkgs[x], p.id))
      BY <1>6, <1>7, <1>8, <2>0, <2>1, <3>1
    <3> HIDE DEF Does
    <3> QED BY <1>1, <1>2, <1>4, <1>5, <3>2 DEF Does, l, p
  <2>2. CASE ~InMap(x, p.id)
    <3>1. outPkgs' = [outPkgs EXCEPT ![x] = RequestSendPackage(outPkgs[x], Ack(p))] /\ UNCHANGED sess
      BY <2>0, <2>2 DEF Restartession
    <3>2. Does(outPkgs[x])
      BY <1>1, <1>8, <2>0, <3>1
    <3> HIDE DEF Does
    <3> QED BY <1>1, <1>2, <1>4, <1>5, <3>2 DEF Does, l, p
  <2> QED BY <2>1, <2>2
<1>12. CASE p.kind = "reset"
  <2>0. ResetOldSession(x, p.id) /\ ~IsResponse(p) /\ ~Data(p)
    BY <1>3, <1>12 DEF IsResponse, Data
  <2>1. CASE x = "daemon" /\ InMap(x, p.id)
    <3>1. TransferError(x, p.id) /\ outPkgs' = [outPkgs EXCEPT ![x] = Other(outPkgs[x], p.id)]
      BY <2>0, <2>1 DEF ResetOldSession
    <3>2. Does(Other(outPkgs[x], p.id))
      BY <1>6, <1>7, <1>8, <2>0, <2>1, <3>1
    <3> HIDE DEF Does
    <3> QED BY <1>1, <1>2, <1>4, <1>5, <3>2 DEF Does, l, p
  <2>2. CASE ~(x = "daemon" /\ InMap(x, p.id))
    <3>1. UNCHANGED <<sess, outPkgs>>
      BY <2>0, <2>2 DEF ResetOldSession
    <3>2. Does(outPkgs[x])
      BY <1>1, <2>0, <3>1
    <3> HIDE DEF Does
    <3> QED BY <1>1, <1>2, <1>4, <1>5, <3>2 DEF Does, l, p
  <2> QED BY <2>1, <2>2
<1> QED BY <1>4, <1>9, <1>10, <1>11, <1>12

\* The read thread takes a package from the line.
LEMMA OrderReads ==
  ASSUME UartInv, OrderInv, NEW x \in End, ValidateUartPacket(x)
  PROVE  OrderInv'
<1> DEFINE e == Peer(x)
<1>1. PICK p \in Package, q \in Seq(Entries) :
           /\ line[e] # <<>> /\ p = Head(line[e]) /\ rd[x] = NoPkg
           /\ line'[e] = Tail(line[e]) /\ line'[x] = line[x]
           /\ rd'[x] = IF Data(p) THEN p ELSE NoPkg
           /\ rd'[e] = rd[e] /\ outPkgs'[e] = outPkgs[e]
           /\ UNCHANGED <<dispatchedPackageIndex, sent, got>>
           /\ q = outPkgs[x] \/ q = Other(outPkgs[x], p.id)
           /\ \/ q = outPkgs[x] /\ outPkgs'[x] = Acked(q, p)
              \/ outPkgs'[x] = q
              \/ outPkgs'[x] = RequestSendPackage(q, Ack(p))
  <2>1. PICK p \in Package, q \in Seq(Entries) :
           /\ line[e] # <<>> /\ p = Head(line[e]) /\ rd[x] = NoPkg
           /\ line'[e] = Tail(line[e]) /\ line'[x] = line[x]
           /\ rd'[x] = IF Data(p) THEN p ELSE NoPkg
           /\ rd'[e] = rd[e] /\ outPkgs'[e] = outPkgs[e]
           /\ UNCHANGED <<dispatchedPackageIndex, packageIndex, pc, sent, got, broken, again, raced>>
           /\ q = outPkgs[x] \/ (q = Other(outPkgs[x], p.id) /\ sess'[x][p.id] \in {"dead", "shut"})
           /\ \/ IsResponse(p) /\ q = outPkgs[x] /\ outPkgs'[x] = Acked(q, p)
              \/ ~IsResponse(p) /\ ~Data(p) /\ outPkgs'[x] = q
              \/ ~IsResponse(p) /\ outPkgs'[x] = RequestSendPackage(q, Ack(p)) /\ (Data(p) => q = outPkgs[x])
    BY ReadDoes
  <2> QED BY <2>1
<1>2. TypeOK /\ outPkgs[x] \in Seq(Entries) /\ e \in End /\ Peer(e) = x /\ e # x /\ line[e] \in Seq(Package)
      /\ \A d \in End : d = x \/ d = e
  BY UartParts, Peers
<1> HIDE DEF e
<1>3. Thin(PkgsOf(outPkgs'[x]), PkgsOf(outPkgs[x]))
  <2>1. Thin(PkgsOf(q), PkgsOf(outPkgs[x]))
    BY <1>1, <1>2, ThinSame, ThinOther
  <2>2. Thin(PkgsOf(outPkgs'[x]), PkgsOf(q))
    <3>1. Ack(p) \in Package /\ ~Data(Ack(p))
      BY NoDataPkgs
    <3> QED BY <1>1, <3>1, ThinAcked, ThinAdd, ThinSame
  <2> QED BY <2>1, <2>2, ThinTwice
<1>4. CASE ~Data(p)
  <2>1. \A d \in End : /\ rd'[d] = rd[d] \/ rd'[d] = NoPkg
                       /\ Thin(line'[d], line[d]) /\ Thin(PkgsOf(outPkgs'[d]), PkgsOf(outPkgs[d]))
    BY <1>1, <1>2, <1>3, <1>4, ThinTail, ThinSame
  <2> QED BY <1>1, <2>1, OrderQuiet
<1>5. CASE Data(p)
  <2>1. rd'[x] = p /\ Held(x) = <<>>
    BY <1>1, <1>5 DEF Held
  <2>2. Held(x)' = <<Head(line[e])>> /\ Held(e)' = Held(e)
    <3>1. p # NoPkg
      BY NoPkgAssumption
    <3> QED BY <1>1, <2>1, <3>1 DEF Held
  <2>3. Flow(<<>>, line[e], PkgsOf(outPkgs[e]), sent[e], got[x], dispatchedPackageIndex[x])
    BY <1>2, <2>1 DEF OrderInv, Ordered
  <2>4. Flow(<<Head(line[e])>>, Tail(line[e]), PkgsOf(outPkgs[e]), sent[e], got[x], dispatchedPackageIndex[x])
    BY <1>1, <1>2, <2>3, FlowReads
  <2>5. Ordered(e)'
    BY <1>1, <1>2, <2>2, <2>4 DEF Ordered, PkgsOf
  <2>6. Ordered(x)'
    <3>1. Flow(Held(e), line[x], PkgsOf(outPkgs[x]), sent[x], got[e], dispatchedPackageIndex[e]) /\ Peer(x) = e
      BY <1>2 DEF OrderInv, Ordered, e
    <3>2. Flow(Held(e), line[x], PkgsOf(outPkgs'[x]), sent[x], got[e], dispatchedPackageIndex[e])
      BY <1>3, <3>1, FlowThins, ThinSame
    <3> QED BY <1>1, <2>2, <3>1, <3>2 DEF Ordered, PkgsOf
  <2>7. \A d \in End : (rd'[d] # NoPkg => Data(rd'[d])) /\ \A s \in Session : Given(d, s)'
    BY <1>1, <1>2, <1>5 DEF OrderInv, Given
  <2> QED BY <1>2, <2>5, <2>6, <2>7 DEF OrderInv
<1> QED BY <1>4, <1>5

\* What an end dispatches to.
LEMMA TargetIs ==
  ASSUME UartInv, NEW x \in End, rd[x] # NoPkg
  PROVE  /\ rd[x] \in Package /\ rd[x].id = Target(x) /\ Target(x) \in Session
         /\ ~IsNew(x) => InMap(x, Target(x))
<1>1. TypeOK /\ OneUsed /\ LinesFit /\ InUse /\ rd[x] \in Package /\ rd[x].id \in Session
  BY UartParts, PkgIds
<1>2. CASE x = "host"
  <2>1. cur \in Session /\ InMap("host", cur) /\ Used(rd[x].id)
    BY <1>1, <1>2 DEF InUse, TypeOK, LinesFit
  <2>2. rd[x].id = cur
    BY <1>1, <2>1 DEF OneUsed, Used, InMap
  <2> QED BY <1>1, <1>2, <2>1, <2>2 DEF Target
<1>3. CASE x = "daemon"
  BY <1>1, <1>3 DEF Target, IsNew
<1> QED BY <1>2, <1>3 DEF End

\* The package the read thread holds reaches the worker, or cannot be given to it.
LEMMA OrderDispatches ==
  ASSUME UartInv, OrderInv, NEW x \in End, DispatchPackageData(x) \/ DispatchFail(x)
  PROVE  OrderInv'
<1> DEFINE p == rd[x]
           s == Target(x)
           e == Peer(x)
           h == IF IsNew(x) THEN <<>> ELSE got[x][s]
<1>1. p # NoPkg /\ ~Duplicate(x) /\ rd' = [rd EXCEPT ![x] = NoPkg] /\ UNCHANGED <<line, sent>>
      /\ dispatchedPackageIndex' = [dispatchedPackageIndex EXCEPT ![x][s] = p.idx]
  BY DEF DispatchPackageData, DispatchFail
<1>2. /\ TypeOK /\ p \in Package /\ p.id = s /\ s \in Session
      /\ e \in End /\ Peer(e) = x /\ e # x /\ \A d \in End : d = x \/ d = e
  BY <1>1, UartParts, TargetIs, Peers
<1>3. \/ /\ DispatchPackageData(x) /\ got' = [got EXCEPT ![x][s] = Append(h, p.val)] /\ UNCHANGED outPkgs
      \/ /\ DispatchFail(x) /\ UNCHANGED got /\ ~IsNew(x)
         /\ outPkgs' = [outPkgs EXCEPT ![x] = RequestSendPackage(outPkgs[x], FreePkg(s, packageIndex[x][s]))]
  BY DEF DispatchPackageData, DispatchFail
<1>4. p.idx \in Nat /\ p.val \in Nat /\ packageIndex[x][s] \in Nat /\ Data(p)
  BY <1>1, <1>2 DEF Package, TypeOK, OrderInv
<1>5. /\ line[e] \in Seq(Package) /\ PkgsOf(outPkgs[e]) \in Seq(Package) /\ outPkgs[x] \in Seq(Entries)
      /\ dispatchedPackageIndex[x] \in [Session -> Nat] /\ got[x][s] \in Seq(Nat) /\ sent[e] \in [Session -> Nat]
      /\ \A t \in Session : got[x][t] \in Seq(Nat)
  BY <1>2, FlowTypes
<1>6. Held(x) = <<p>> /\ Held(x)' = <<>> /\ Held(e)' = Held(e)
  BY <1>1, <1>2 DEF Held, TypeOK
<1>7. Flow(<<p>>, line[e], PkgsOf(outPkgs[e]), sent[e], got[x], dispatchedPackageIndex[x])
  BY <1>2, <1>6 DEF OrderInv, Ordered
<1>8. /\ p.val \in 1 .. sent[e][s] /\ Latest(got[x][s]) <= p.val
      /\ p.val = Latest(got[x][s]) => p.idx = dispatchedPackageIndex[x][s]
  <2>1. Due(p, sent[e], got[x], dispatchedPackageIndex[x])
    <3>1. 1 \in DOMAIN <<p>> /\ <<p>>[1] = p
      OBVIOUS
    <3> QED BY <1>7, <3>1 DEF Flow
  <2> QED BY <1>2, <1>4, <2>1 DEF Due
<1>9. ~IsNew(x) => p.idx # dispatchedPackageIndex[x][s]
  BY <1>1 DEF Duplicate
<1>10. h \in Seq(Nat) /\ (h = got[x][s] \/ (IsNew(x) /\ h = <<>>))
  BY <1>5
<1> HIDE DEF p, s, e, h
<1>11. /\ dispatchedPackageIndex'[x] = [dispatchedPackageIndex[x] EXCEPT ![s] = p.idx]
       /\ dispatchedPackageIndex'[e] = dispatchedPackageIndex[e]
       /\ rd'[x] = NoPkg /\ rd'[e] = rd[e]
  BY <1>1, <1>2 DEF TypeOK
<1>12. /\ got'[e] = got[e] /\ \A t \in Session : t # s => got'[x][t] = got[x][t]
       /\ got'[x][s] = Append(h, p.val) \/ (got'[x][s] = got[x][s] /\ ~IsNew(x))
  BY <1>2, <1>3 DEF TypeOK
<1>13. \A d \in End : Thin(PkgsOf(outPkgs'[d]), PkgsOf(outPkgs[d]))
  <2>1. CASE UNCHANGED outPkgs
    BY <2>1, ThinSame
  <2>2. CASE DispatchFail(x)
    <3>1. FreePkg(s, packageIndex[x][s]) \in Package /\ ~Data(FreePkg(s, packageIndex[x][s]))
      BY <1>2, <1>4, NoDataPkgs
    <3>2. outPkgs' = [outPkgs EXCEPT ![x] = RequestSendPackage(outPkgs[x], FreePkg(s, packageIndex[x][s]))]
      BY <2>2 DEF DispatchFail, s
    <3> QED BY <1>2, <1>5, <3>1, <3>2, ThinAdd, ThinOne
  <2> QED BY <1>3, <2>1, <2>2
<1>14. ASSUME got'[x][s] = Append(h, p.val)
       PROVE  Latest(got'[x][s]) = p.val /\ Increasing(got'[x][s])
  <2> DEFINE z == Append(h, p.val)
  <2>1. /\ z \in Seq(Nat) /\ DOMAIN z = 1 .. Len(h) + 1 /\ DOMAIN h = 1 .. Len(h) /\ Len(h) \in Nat
        /\ Len(z) = Len(h) + 1 /\ z[Len(h) + 1] = p.val /\ z # <<>>
        /\ \A i \in DOMAIN h : z[i] = h[i]
    BY <1>4, <1>10, AppendAt
  <2>2. Increasing(h) /\ \A i \in DOMAIN h : h[i] \in Nat /\ h[i] < p.val
    <3>1. CASE h = <<>>
      BY <3>1 DEF Increasing
    <3>2. CASE h # <<>>
      <4>1. h = got[x][s] /\ ~IsNew(x) /\ Increasing(h)
        <5>1. h = got[x][s] /\ ~IsNew(x)
          BY <1>10, <3>2 DEF h
        <5> QED BY <1>2, <5>1 DEF OrderInv, Given
      <4>2. Latest(h) = h[Len(h)] /\ h[Len(h)] \in Nat /\ Len(h) \in DOMAIN h
        BY <1>10, <3>2 DEF Latest
      <4>3. h[Len(h)] < p.val
        BY <1>4, <1>8, <1>9, <4>1, <4>2
      <4>4. \A i \in DOMAIN h : h[i] \in Nat /\ (i = Len(h) \/ h[i] < h[Len(h)])
        <5> TAKE i \in DOMAIN h
        <5>1. h[i] \in Nat /\ (i = Len(h) \/ i < Len(h))
          BY <1>10
        <5> QED BY <4>1, <4>2, <5>1 DEF Increasing
      <4> QED BY <1>4, <4>1, <4>2, <4>3, <4>4
    <3> QED BY <3>1, <3>2
  <2> HIDE DEF z
  <2>3. Latest(z) = p.val
    BY <2>1 DEF Latest
  <2>4. Increasing(z)
    <3> SUFFICES ASSUME NEW j \in DOMAIN z, NEW k \in DOMAIN z, j < k PROVE z[j] < z[k]
      BY DEF Increasing
    <3>1. j \in DOMAIN h /\ z[j] = h[j]
      BY <2>1
    <3>2. CASE k \in DOMAIN h
      BY <2>1, <2>2, <3>1, <3>2 DEF Increasing
    <3>3. CASE k = Len(h) + 1
      BY <2>1, <2>2, <3>1, <3>3
    <3> QED BY <2>1, <3>2, <3>3
  <2> QED BY <1>14, <2>3, <2>4 DEF z
<1>15. Latest(got'[x][s]) = p.val \/ (got'[x][s] = got[x][s] /\ p.idx # dispatchedPackageIndex[x][s])
  BY <1>9, <1>12, <1>14
<1>16. Flow(<<>>, line[e], PkgsOf(outPkgs[e]), sent[e], got'[x], dispatchedPackageIndex'[x])
  <2> DEFINE n == sent[e]
             g == got[x]
             g2 == got'[x]
             d == dispatchedPackageIndex[x]
             L == line[e]
             Q == PkgsOf(outPkgs[e])
  <2>1. /\ \A t \in Session : t # p.id => g2[t] = g[t]
        /\ Latest(g2[p.id]) = p.val \/ (g2[p.id] = g[p.id] /\ p.idx # d[p.id])
    BY <1>2, <1>12, <1>15
  <2>2. /\ p \in Package /\ L \in Seq(Package) /\ Q \in Seq(Package) /\ d \in [Session -> Nat]
        /\ Data(p) /\ Flow(<<p>>, L, Q, n, g, d)
    BY <1>2, <1>4, <1>5, <1>7
  <2>3. [d EXCEPT ![p.id] = p.idx] = dispatchedPackageIndex'[x]
    BY <1>2, <1>11
  <2> HIDE DEF n, g, g2, d, L, Q
  <2>4. Flow(<<>>, L, Q, n, g2, [d EXCEPT ![p.id] = p.idx])
    BY <2>1, <2>2, FlowGives
  <2> QED BY <2>3, <2>4 DEF n, g, g2, d, L, Q
<1>17. Ordered(e)'
  <2>1. Flow(<<>>, line[e], PkgsOf(outPkgs'[e]), sent[e], got'[x], dispatchedPackageIndex'[x])
    BY <1>2, <1>13, <1>16, FlowThins, ThinSame
  <2> QED BY <1>1, <1>2, <1>6, <2>1 DEF Ordered, PkgsOf
<1>18. Ordered(x)'
  <2>1. Flow(Held(e), line[x], PkgsOf(outPkgs[x]), sent[x], got[e], dispatchedPackageIndex[e]) /\ Peer(x) = e
    BY <1>2 DEF OrderInv, Ordered, e
  <2>2. Flow(Held(e), line[x], PkgsOf(outPkgs'[x]), sent[x], got[e], dispatchedPackageIndex[e])
    BY <1>13, <2>1, FlowThins, ThinSame
  <2> QED BY <1>1, <1>6, <1>11, <1>12, <2>1, <2>2 DEF Ordered, PkgsOf
<1>19. ASSUME NEW t \in Session PROVE Given(x, t)' /\ Given(e, t)'
  <2>1. Given(x, t) /\ Given(e, t)
    BY <1>2 DEF OrderInv
  <2>2. CASE got'[x][t] = got[x][t]
    BY <1>1, <1>12, <2>1, <2>2 DEF Given
  <2>3. CASE t = s /\ got'[x][s] = Append(h, p.val)
    BY <1>1, <1>2, <1>4, <1>8, <1>12, <1>14, <2>1, <2>3 DEF Given, e
  <2> QED BY <1>12, <2>2, <2>3
<1>20. \A d \in End : (rd'[d] # NoPkg => Data(rd'[d]))
  BY <1>2, <1>11 DEF OrderInv
<1> QED BY <1>2, <1>17, <1>18, <1>19, <1>20 DEF OrderInv

\* Every step keeps the order.
LEMMA OrderStep == UartInv /\ OrderInv /\ [Next]_vars => OrderInv'
<1> SUFFICES ASSUME UartInv, OrderInv, [Next]_vars PROVE OrderInv'
  OBVIOUS
<1>1. CASE UNCHANGED vars
  BY <1>1, OrderSame DEF vars, histVars
<1>2. ASSUME NEW c \in Caller, CallerStep(c) PROVE OrderInv'
  <2>1. CASE (\E s \in Session : SendUARTData(c, s)) \/ NumberPackage(c)
    BY <2>1, OrderSame DEF SendUARTData, NumberPackage, histVars
  <2> QED BY <1>2, <2>1, OrderAdds DEF CallerStep
<1>3. ASSUME NEW e \in End, WriteStep(e) PROVE OrderInv'
  <2>1. PICK bad \in Unwritten(e) : \/ \E late \in SUBSET Waiting(e) : WriteRequested(e, late, bad)
                                   \/ WriteTimeout(e, bad)
    BY <1>3 DEF WriteStep
  <2>2. \E late \in SUBSET Waiting(e), woken \in BOOLEAN : SendPkgInUARTOutMap(e, late, bad, woken)
    BY <2>1 DEF WriteRequested, WriteTimeout, AllLate
  <2> QED BY <2>2, OrderPass
<1>4. ASSUME NEW e \in End, ReadStep(e) PROVE OrderInv'
  BY <1>4, OrderReads, OrderDuplicate, OrderDispatches DEF ReadStep
<1>5. ASSUME NEW e \in End, Lose(e) PROVE OrderInv'
  BY <1>5, OrderLoses
<1>6. ASSUME NEW e \in End, NEW s \in Session, SessionStep(e, s) PROVE OrderInv'
  BY <1>6, OrderSession
<1>7. ASSUME NEW s \in Session, ConnectDaemon(s) PROVE OrderInv'
  BY <1>7, OrderSame DEF ConnectDaemon, NewSession, histVars
<1>8. CASE ReadFails
  BY <1>8, OrderReadFails
<1> QED BY <1>1, <1>2, <1>3, <1>4, <1>5, <1>6, <1>7, <1>8 DEF Next

LEMMA OrderFirst == Init => OrderInv
<1> SUFFICES ASSUME Init PROVE OrderInv
  OBVIOUS
<1>1. \A e \in End : /\ outPkgs[e] = <<>> /\ line[e] = <<>> /\ rd[e] = NoPkg
                     /\ \A s \in Session : got[e][s] = <<>> /\ sent[e][s] = 0
  BY DEF Init, All
<1>2. \A e \in End : Ordered(e)
  <2> TAKE e \in End
  <2>1. Held(Peer(e)) = <<>> /\ line[e] = <<>> /\ PkgsOf(outPkgs[e]) = <<>> /\ DOMAIN <<>> = {}
    BY <1>1, Peers DEF Held, PkgsOf
  <2> QED BY <2>1 DEF Ordered, Flow, InFront, Sorted
<1>3. \A e \in End, s \in Session : Given(e, s)
  BY <1>1, Peers DEF Given, Increasing, Latest
<1> QED BY <1>1, <1>2, <1>3 DEF OrderInv

\* For any number of threads that send, and whatever is lost, late, sent again or fails:
\* a payload of a session is given to its worker at most once, and the payloads in the
\* order they were put into outPkgs.
THEOREM UartOnceInOrder == Spec => []OnceInOrder
<1>1. ASSUME OrderInv PROVE OnceInOrder
  BY <1>1 DEF OrderInv, Given, OnceInOrder
<1> QED BY <1>1, UartFirst, UartStep, OrderFirst, OrderStep, PTL DEF Spec

-----------------------------------------------------------------------------
(* The numbers                                                             *)

\* The answers under way from an end, as its line and its queue.
LEMMA AnswersAre ==
  ASSUME NEW e \in End
  PROVE  /\ AnswersOf(e) = {line[e][i] : i \in DOMAIN line[e]}
                           \cup {PkgsOf(outPkgs[e])[i] : i \in DOMAIN PkgsOf(outPkgs[e])}
         /\ AnswersOf(e)' = {line'[e][i] : i \in DOMAIN line'[e]}
                            \cup {PkgsOf(outPkgs'[e])[i] : i \in DOMAIN PkgsOf(outPkgs'[e])}
BY DEF AnswersOf, Range, PkgsOf

\* No answer to a package of s comes to the answers under way from d.
NoNewAnswer(d, s) == OldAnswers(AnswersOf(d)', AnswersOf(d), s)

LEMMA PartAnswers ==
  ASSUME NEW d \in End, NEW s, Part(line'[d], line[d], s, TRUE),
         Part(PkgsOf(outPkgs'[d]), PkgsOf(outPkgs[d]), s, TRUE)
  PROVE  NoNewAnswer(d, s)
<1> SUFFICES ASSUME NEW p \in AnswersOf(d)', p.id = s, IsResponse(p) PROVE p \in AnswersOf(d)
  BY DEF NoNewAnswer, OldAnswers
<1>1. CASE \E i \in DOMAIN line'[d] : p = line'[d][i]
  <2>1. \E j \in DOMAIN line[d] : line[d][j] = p
    BY <1>1 DEF Part
  <2> QED BY <2>1, AnswersAre
<1>2. CASE \E i \in DOMAIN PkgsOf(outPkgs'[d]) : p = PkgsOf(outPkgs'[d])[i]
  <2>1. \E j \in DOMAIN PkgsOf(outPkgs[d]) : PkgsOf(outPkgs[d])[j] = p
    BY <1>2 DEF Part
  <2> QED BY <2>1, AnswersAre
<1> QED BY <1>1, <1>2, AnswersAre

\* A step leaves the counts of a session in one direction as they are.
Steady(e, s) == /\ sent'[e][s] = sent[e][s] /\ got'[Peer(e)][s] = got[Peer(e)][s]
                /\ dispatchedPackageIndex'[Peer(e)][s] = dispatchedPackageIndex[Peer(e)][s]

\* The packages of a session go on, and only what the other end has is dropped.
LEMMA LinkedStill ==
  ASSUME TypeOK, NEW e \in End, NEW s \in Session, Linked(e, s), Steady(e, s),
         \/ rd'[Peer(e)] = rd[Peer(e)]
         \/ rd'[Peer(e)] = NoPkg /\ (rd[Peer(e)].id = s => rd[Peer(e)].val = Latest(got[Peer(e)][s])),
         Part(line'[e], line[e], s, FALSE),
         Part(PkgsOf(outPkgs'[e]), PkgsOf(outPkgs[e]), s, FALSE),
         KeepsAfter(PkgsOf(outPkgs'[e]), PkgsOf(outPkgs[e]), s, Reached(Held(Peer(e)), got[Peer(e)][s], s)),
         NoNewAnswer(Peer(e), s)
  PROVE  Linked(e, s)'
<1> DEFINE d == Peer(e)
           H == Held(d)
           H2 == Held(d)'
           L == line[e]
           L2 == line'[e]
           Q == PkgsOf(outPkgs[e])
           Q2 == PkgsOf(outPkgs'[e])
           A == AnswersOf(d)
           A2 == AnswersOf(d)'
           n == sent[e][s]
           g == got[d][s]
           x == dispatchedPackageIndex[d][s]
<1>1. d \in End /\ H \in Seq(Package) /\ Q \in Seq(Package) /\ g \in Seq(Nat) /\ n \in Nat /\ Latest(g) \in Nat
  <2>1. d \in End
    BY Peers
  <2> QED BY <2>1, FlowTypes
<1>2. Reached(H, g, s) \in Nat
  BY <1>1, LinkTypes
<1>3. H2 = H \/ H2 = <<>>
  BY DEF Held
<1>4. Reached(H2, g, s) = Reached(H, g, s)
  <2>1. CASE rd'[d] = rd[d]
    BY <2>1 DEF Held
  <2>2. CASE rd'[d] = NoPkg /\ (rd[d].id = s => rd[d].val = Latest(g))
    <3>1. H2 = <<>> /\ Reached(H2, g, s) = Latest(g)
      BY <2>2 DEF Held, Reached
    <3>2. CASE rd[d] = NoPkg
      BY <3>1, <3>2 DEF Held
    <3>3. CASE rd[d] # NoPkg
      <4>1. H = <<rd[d]>> /\ H # <<>> /\ H[1] = rd[d]
        BY <3>3 DEF Held
      <4> QED BY <2>2, <3>1, <4>1 DEF Reached
    <3> QED BY <3>2, <3>3
  <2> QED BY <2>1, <2>2
<1>5. Link(s, H, L, Q, A, n, g, x)
  BY DEF Linked
<1>6. /\ Part(L2, L, s, FALSE) /\ Part(Q2, Q, s, FALSE) /\ KeepsAfter(Q2, Q, s, Reached(H, g, s))
      /\ OldAnswers(A2, A, s)
  BY DEF NoNewAnswer
<1>11. sent'[e][s] = n /\ got'[d][s] = g /\ dispatchedPackageIndex'[d][s] = x /\ PkgsOf(outPkgs[e])' = Q2
  BY DEF Steady, PkgsOf
<1> HIDE DEF d, H, H2, L, L2, Q, Q2, A, A2, n, g, x
<1>12. Link(s, H2, L2, Q2, A2, n, g, x)
  BY <1>1, <1>2, <1>3, <1>4, <1>5, <1>6, LinkStill
<1> QED BY <1>11, <1>12 DEF Linked, d, H2, L2, A2

\* The packages of a session stay as they are.
Keeps(e, s) == /\ Part(line'[e], line[e], s, FALSE)
               /\ Part(PkgsOf(outPkgs'[e]), PkgsOf(outPkgs[e]), s, FALSE)
               /\ Part(PkgsOf(outPkgs[e]), PkgsOf(outPkgs'[e]), s, FALSE)
               /\ Part(line'[Peer(e)], line[Peer(e)], s, TRUE)
               /\ Part(PkgsOf(outPkgs'[Peer(e)]), PkgsOf(outPkgs[Peer(e)]), s, TRUE)

LEMMA LinkedKeeps ==
  ASSUME TypeOK, NEW e \in End, NEW s \in Session, Linked(e, s), Steady(e, s), Keeps(e, s),
         \/ rd'[Peer(e)] = rd[Peer(e)]
         \/ rd'[Peer(e)] = NoPkg /\ (rd[Peer(e)].id = s => rd[Peer(e)].val = Latest(got[Peer(e)][s]))
  PROVE  Linked(e, s)'
<1>1. Peer(e) \in End /\ NoNewAnswer(Peer(e), s)
  <2>1. Peer(e) \in End
    BY Peers
  <2> QED BY <2>1, PartAnswers DEF Keeps
<1>2. KeepsAfter(PkgsOf(outPkgs'[e]), PkgsOf(outPkgs[e]), s, Reached(Held(Peer(e)), got[Peer(e)][s], s))
  BY DEF Keeps, Part, KeepsAfter
<1> QED BY <1>1, <1>2, LinkedStill DEF Keeps

\* No caller of e moves, and e's count for s stays.
LEMMA CountedStill ==
  ASSUME NEW e \in End, NEW s \in Session, Counted(e, s), sent'[e][s] = sent[e][s],
         packageIndex'[e][s] = packageIndex[e][s], \A c \in Caller : EndOf(c) = e => pc'[c] = pc[c]
  PROVE  Counted(e, s)'
BY DEF Counted

\* A step that dispatches nothing and adds no payload: a session that goes on keeps its
\* packages.
LEMMA NumberQuiet ==
  ASSUME TypeOK, NumberInv, UNCHANGED <<pc, rd, dispatchedPackageIndex, sent, got, broken, again, raced>>,
         \A e \in End, s \in Session :
            /\ sess'[e][s] = "none" => sess[e][s] = "none"
            /\ sess'[e][s] \in {"none", "live"} =>
                 /\ sess[e][s] \in {"none", "live"} /\ packageIndex'[e][s] = packageIndex[e][s]
                 /\ Part(line'[e], line[e], s, FALSE)
                 /\ Part(PkgsOf(outPkgs'[e]), PkgsOf(outPkgs[e]), s, FALSE)
                 /\ Part(PkgsOf(outPkgs[e]), PkgsOf(outPkgs'[e]), s, FALSE)
            /\ Part(line'[e], line[e], s, TRUE)
            /\ Part(PkgsOf(outPkgs'[e]), PkgsOf(outPkgs[e]), s, TRUE)
  PROVE  NumberInv'
<1> SUFFICES ASSUME NEW e \in End, NEW s \in Session PROVE NumbersFit(e, s)'
  BY DEF NumberInv
<1>1. NumbersFit(e, s) /\ Peer(e) \in End
  BY Peers DEF NumberInv
<1>2. ASSUME Whole(e, s)' PROVE Counted(e, s)' /\ Linked(e, s)'
  <2>1. sess'[e][s] \in {"none", "live"} /\ Whole(e, s)
    BY <1>2 DEF Whole
  <2>2. Counted(e, s) /\ Linked(e, s)
    BY <1>1, <2>1 DEF NumbersFit
  <2>3. Keeps(e, s) /\ Steady(e, s)
    BY <1>1, <2>1 DEF Keeps, Steady
  <2>4. Counted(e, s)'
    BY <2>1, <2>2, CountedStill
  <2> QED BY <2>2, <2>3, <2>4, LinkedKeeps
<1>3. sess'[e][s] = "none" => packageIndex'[e][s] = 0 /\ got'[e][s] = <<>>
  BY <1>1 DEF NumbersFit
<1> QED BY <1>2, <1>3 DEF NumbersFit

\* A line that has lost its first package.
LEMMA PartTail ==
  ASSUME NEW P \in Seq(Package), P # <<>>, NEW s, NEW r
  PROVE  Part(Tail(P), P, s, r)
<1> SUFFICES ASSUME NEW i \in DOMAIN Tail(P) PROVE \E j \in DOMAIN P : P[j] = Tail(P)[i]
  BY DEF Part
<1>1. i + 1 \in DOMAIN P /\ P[i + 1] = Tail(P)[i]
  OBVIOUS
<1> QED BY <1>1

LEMMA NumberLoses ==
  ASSUME UartInv, NumberInv, NEW e \in End, Lose(e)
  PROVE  NumberInv'
<1>1. TypeOK /\ line[e] \in Seq(Package)
  BY UartParts
<1>2. /\ line[e] # <<>> /\ line' = [line EXCEPT ![e] = Tail(line[e])]
      /\ UNCHANGED <<sess, packageIndex, pc, outPkgs, rd, dispatchedPackageIndex, sent, got, broken, again, raced>>
  BY DEF Lose, sendVars, histVars
<1>3. line'[e] = Tail(line[e]) /\ \A d \in End : d # e => line'[d] = line[d]
  BY <1>1, <1>2 DEF TypeOK
<1>4. \A d \in End, s \in Session, r \in BOOLEAN : Part(line'[d], line[d], s, r)
  BY <1>1, <1>2, <1>3, PartTail, PartSame
<1>5. \A d \in End, s \in Session, r \in BOOLEAN : Part(PkgsOf(outPkgs'[d]), PkgsOf(outPkgs[d]), s, r)
  BY <1>2, PartSame
<1>6. \A d \in End, s \in Session, r \in BOOLEAN : Part(PkgsOf(outPkgs[d]), PkgsOf(outPkgs'[d]), s, r)
  BY <1>2, PartSame
<1> QED BY <1>1, <1>2, <1>4, <1>5, <1>6, NumberQuiet

\* The session layer, or a failing read, ends a session; a worker refuses.
LEMMA NumberEnds ==
  ASSUME UartInv, NumberInv, NEW e \in End, NEW s \in Session,
         \/ FreeSession(e, s) \/ StopSession(e, s) \/ WorkerRefuses(e, s)
         \/ ReadFails /\ e = "host" /\ s = cur
  PROVE  NumberInv'
<1> DEFINE p == FreePkg(s, packageIndex[e][s])
           q == outPkgs[e]
<1>1. TypeOK /\ q \in Seq(Entries) /\ packageIndex[e][s] \in Nat
  <2>1. TypeOK /\ q \in Seq(Entries)
    BY UartParts
  <2>2. packageIndex[e][s] \in Nat
    BY <2>1 DEF TypeOK
  <2> QED BY <2>1, <2>2
<1>2. p \in Package /\ p.id = s /\ ~IsResponse(p)
  BY <1>1, NoDataPkgs
<1>3. /\ UNCHANGED <<pc, line, rd, dispatchedPackageIndex, sent, got, broken, again, raced>>
      /\ \E v \in {"dead", "shut", "gone"} : sess' = [sess EXCEPT ![e][s] = v]
      /\ outPkgs' = outPkgs \/ outPkgs' = [outPkgs EXCEPT ![e] = Other(q, s)]
         \/ outPkgs' = [outPkgs EXCEPT ![e] = RequestSendPackage(q, p)]
      /\ packageIndex' = packageIndex \/ packageIndex' = [packageIndex EXCEPT ![e][s] = @ + 1]
  <2>1. CASE FreeSession(e, s)
    BY <2>1 DEF FreeSession, sendVars, histVars
  <2>2. CASE StopSession(e, s)
    BY <2>2 DEF StopSession, histVars
  <2>3. CASE WorkerRefuses(e, s)
    BY <2>3 DEF WorkerRefuses, histVars
  <2>4. CASE ReadFails /\ e = "host" /\ s = cur
    BY <2>4 DEF ReadFails, TransferError, histVars
  <2> QED BY <2>1, <2>2, <2>3, <2>4
<1> HIDE DEF p
<1>4. \A d \in End, t \in Session : /\ sess'[d][t] = "none" => sess[d][t] = "none"
                                    /\ sess'[d][t] \in {"none", "live"} => /\ ~(d = e /\ t = s) /\ sess'[d][t] = sess[d][t]
                                                                         /\ packageIndex'[d][t] = packageIndex[d][t]
  <2>1. PICK v \in {"dead", "shut", "gone"} : sess' = [sess EXCEPT ![e][s] = v]
    BY <1>3
  <2>2. \A d \in End, t \in Session : sess'[d][t] = IF d = e /\ t = s THEN v ELSE sess[d][t]
    BY <1>1, <2>1 DEF TypeOK
  <2>3. \A d \in End, t \in Session : ~(d = e /\ t = s) => packageIndex'[d][t] = packageIndex[d][t]
    BY <1>1, <1>3 DEF TypeOK
  <2> QED BY <2>2, <2>3
<1>5. ASSUME NEW d \in End, NEW t \in Session
      PROVE  /\ Part(PkgsOf(outPkgs'[d]), PkgsOf(outPkgs[d]), t, TRUE)
             /\ ~(d = e /\ t = s) => /\ Part(PkgsOf(outPkgs'[d]), PkgsOf(outPkgs[d]), t, FALSE)
                                     /\ Part(PkgsOf(outPkgs[d]), PkgsOf(outPkgs'[d]), t, FALSE)
  <2>1. CASE outPkgs'[d] = outPkgs[d]
    BY <2>1, PartSame
  <2>2. CASE d = e /\ outPkgs'[e] = Other(q, s)
    BY <1>1, <2>2, PartOther
  <2>3. CASE d = e /\ outPkgs'[e] = RequestSendPackage(q, p)
    BY <1>1, <1>2, <2>3, PartAdd
  <2> QED BY <1>1, <1>3, <2>1, <2>2, <2>3 DEF TypeOK
<1>6. \A d \in End, t \in Session, r \in BOOLEAN : Part(line'[d], line[d], t, r)
  BY <1>3, PartSame
<1> QED BY <1>1, <1>3, <1>4, <1>5, <1>6, NumberQuiet

\* A session of the host begins.
LEMMA NumberConnects ==
  ASSUME UartInv, NumberInv, NEW s \in Session, ConnectDaemon(s)
  PROVE  NumberInv'
<1>1. TypeOK
  BY UartParts
<1>2. /\ sess["host"][s] = "none" /\ sess' = [sess EXCEPT !["host"][s] = "live"]
      /\ UNCHANGED <<packageIndex, pc, outPkgs, line, rd, dispatchedPackageIndex, sent, got, broken, again, raced>>
  BY DEF ConnectDaemon, NewSession, sendVars, histVars
<1>3. \A d \in End, t \in Session : /\ sess'[d][t] = "none" => sess[d][t] = "none"
                                    /\ sess'[d][t] \in {"none", "live"} => sess[d][t] \in {"none", "live"}
  BY <1>1, <1>2 DEF TypeOK, End
<1>4. \A d \in End, t \in Session, r \in BOOLEAN : /\ Part(line'[d], line[d], t, r)
                           /\ Part(PkgsOf(outPkgs'[d]), PkgsOf(outPkgs[d]), t, r)
                           /\ Part(PkgsOf(outPkgs[d]), PkgsOf(outPkgs'[d]), t, r)
  BY <1>2, PartSame
<1> QED BY <1>1, <1>2, <1>3, <1>4, NumberQuiet

\* A thread begins a message or numbers a package.
LEMMA NumberCounts ==
  ASSUME UartInv, NumberInv, OneInside, NEW c \in Caller,
         (\E t \in Session : SendUARTData(c, t)) \/ NumberPackage(c)
  PROVE  NumberInv'
<1> DEFINE x == EndOf(c)
<1>1. TypeOK /\ InUse /\ x \in End
  BY UartParts DEF EndOf, End
<1>2. UNCHANGED <<sess, outPkgs, line, rd, dispatchedPackageIndex, sent, got, broken, again>>
  BY DEF SendUARTData, NumberPackage, histVars
<1>3. /\ \A b \in Caller : b # c => pc'[b] = pc[b]
      /\ \E t \in Session, n \in Nat :
           \/ /\ pc[c].at = "idle" /\ pc'[c] = [at |-> "count", s |-> t, n |-> packageIndex[x][t]]
              /\ sess[x][t] = "live" /\ packageIndex' = packageIndex
           \/ /\ pc[c].at = "count" /\ pc[c].s = t /\ pc[c].n = n /\ pc'[c] = [at |-> "wait", s |-> t, n |-> n + 1]
              /\ InMap(x, t) /\ packageIndex' = [packageIndex EXCEPT ![x][t] = n + 1]
  <2>1. CASE \E t \in Session : SendUARTData(c, t)
    BY <1>1, <2>1 DEF SendUARTData, TypeOK
  <2>2. CASE NumberPackage(c)
    <3>1. pc[c].s \in Session /\ InMap(x, pc[c].s) /\ pc[c].n \in Nat
      BY <1>1, <2>2, CallerAt DEF NumberPackage, InUse
    <3> QED BY <1>1, <2>2, <3>1 DEF NumberPackage, TypeOK
  <2> QED BY <2>1, <2>2
<1>4. PICK t \in Session, n \in Nat :
        \/ /\ pc[c].at = "idle" /\ pc'[c] = [at |-> "count", s |-> t, n |-> packageIndex[x][t]]
           /\ sess[x][t] = "live" /\ packageIndex' = packageIndex
        \/ /\ pc[c].at = "count" /\ pc[c].s = t /\ pc[c].n = n /\ pc'[c] = [at |-> "wait", s |-> t, n |-> n + 1]
           /\ InMap(x, t) /\ packageIndex' = [packageIndex EXCEPT ![x][t] = n + 1]
  BY <1>3
<1>5. \A d \in End, s \in Session : ~(d = x /\ s = t) => packageIndex'[d][s] = packageIndex[d][s]
  <2>1. packageIndex' = packageIndex \/ packageIndex' = [packageIndex EXCEPT ![x][t] = n + 1]
    BY <1>4
  <2>2. packageIndex \in [End -> [Session -> Nat]] /\ x \in End
    BY <1>1 DEF TypeOK
  <2> HIDE DEF x
  <2> QED BY <2>1, <2>2
<1>6. pc'[c].s = t /\ pc'[c].at \in {"count", "wait"} /\ pc[c].at \in {"idle", "count"}
  BY <1>4
<1>10. /\ \A d \in End : raced[d] \subseteq raced'[d]
       /\ t \notin raced'[x] => \A b \in Caller : b # c /\ EndOf(b) = x /\ pc[b].s = t => pc[b].at = "idle"
  <2>1. CASE \E y \in Session : SendUARTData(c, y)
    <3>1. PICK y \in Session : SendUARTData(c, y)
      BY <2>1
    <3>2. pc'[c].s = y
      BY <1>1, <3>1 DEF SendUARTData, TypeOK
    <3>3. y = t
      BY <1>6, <3>2
    <3>4. raced' = IF Inside(x, t, c) THEN [raced EXCEPT ![x] = @ \cup {t}] ELSE raced
      BY <3>1, <3>3 DEF SendUARTData
    <3>5. \A d \in End : raced[d] \subseteq raced'[d]
      BY <1>1, <3>4 DEF TypeOK
    <3>6. Inside(x, t, c) => t \in raced'[x]
      BY <1>1, <3>4 DEF TypeOK
    <3> QED BY <3>5, <3>6 DEF Inside
  <2>2. CASE NumberPackage(c)
    <3>1. raced' = raced /\ pc[c].at = "count"
      BY <2>2 DEF NumberPackage, histVars
    <3>2. pc[c].s = t
      BY <1>4, <3>1
    <3> QED BY <3>1, <3>2 DEF OneInside
  <2> QED BY <2>1, <2>2
<1> HIDE DEF x
<1> SUFFICES ASSUME NEW e \in End, NEW s \in Session PROVE NumbersFit(e, s)'
  BY DEF NumberInv
<1>7. NumbersFit(e, s)
  BY DEF NumberInv
<1>8. ASSUME Whole(e, s)' PROVE Counted(e, s)' /\ Linked(e, s)'
  <2>1. Whole(e, s) /\ Counted(e, s) /\ Linked(e, s)
    BY <1>2, <1>7, <1>8, <1>10 DEF Whole, NumbersFit
  <2>2. Linked(e, s)'
    <3>1. Keeps(e, s) /\ Steady(e, s) /\ rd'[Peer(e)] = rd[Peer(e)]
      BY <1>2, PartSame DEF Keeps, Steady
    <3> QED BY <1>1, <2>1, <3>1, LinkedKeeps
  <2>3. CASE e # x
    <3>1. \A b \in Caller : EndOf(b) = e => pc'[b] = pc[b]
      BY <1>3, <2>3 DEF x
    <3> QED BY <1>2, <1>5, <2>1, <2>2, <2>3, <3>1, CountedStill
  <2>4. CASE e = x /\ s # t
    <3>1. packageIndex'[e][s] = packageIndex[e][s] /\ sent'[e][s] = sent[e][s]
      BY <1>2, <1>5, <2>4
    <3>2. \A b \in Caller : pc'[b].s = s => b # c /\ pc'[b] = pc[b]
      BY <1>3, <1>6, <2>4
    <3>3. \A b \in Caller : EndOf(b) = e /\ pc[b].s = s /\ pc[b].at = "wait" => pc'[b] = pc[b]
      BY <1>3, <1>6
    <3>4. \A b \in Caller : EndOf(b) = e /\ pc'[b].s = s =>
            /\ pc'[b].at = "count" => pc'[b].n = sent'[e][s]
            /\ pc'[b].at = "wait" => pc'[b].n = sent'[e][s] + 1 /\ packageIndex'[e][s] = pc'[b].n
      BY <2>1, <3>1, <3>2 DEF Counted
    <3>5. \/ packageIndex'[e][s] = sent'[e][s]
          \/ \E b \in Caller : EndOf(b) = e /\ pc'[b].s = s /\ pc'[b].at = "wait"
      BY <2>1, <3>1, <3>3 DEF Counted
    <3> QED BY <2>2, <3>4, <3>5 DEF Counted
  <2>5. CASE e = x /\ s = t
    <3>1. \A b \in Caller : EndOf(b) = e /\ b # c => (pc[b].s = s => pc[b].at = "idle") /\ pc'[b] = pc[b]
      BY <1>3, <1>8, <1>10, <2>5 DEF Whole
    <3>2. packageIndex[e][s] = sent[e][s]
      BY <1>6, <2>1, <3>1 DEF Counted
    <3>3. CASE pc[c].at = "idle"
      <4>1. /\ pc'[c] = [at |-> "count", s |-> s, n |-> sent[e][s]]
            /\ packageIndex'[e][s] = sent'[e][s] /\ sent'[e][s] = sent[e][s]
        BY <1>2, <1>4, <2>5, <3>2, <3>3
      <4>2. pc'[c].at = "count" /\ pc'[c].n = sent'[e][s]
        BY <4>1
      <4> QED BY <2>2, <3>1, <4>1, <4>2 DEF Counted
    <3>4. CASE pc[c].at = "count"
      <4>1. n = sent[e][s] /\ EndOf(c) = e
        BY <1>4, <2>1, <2>5, <3>4 DEF Counted, x
      <4>2. /\ pc'[c].at = "wait" /\ pc'[c].n = n + 1 /\ pc'[c].s = s
            /\ packageIndex'[e][s] = n + 1 /\ sent'[e][s] = n
        BY <1>1, <1>2, <1>4, <2>5, <3>4, <4>1 DEF TypeOK
      <4> QED BY <2>2, <3>1, <4>1, <4>2 DEF Counted
    <3> QED BY <1>6, <3>3, <3>4
  <2> QED BY <2>3, <2>4, <2>5
<1>9. sess'[e][s] = "none" => packageIndex'[e][s] = 0 /\ got'[e][s] = <<>>
  <2>1. sess[x][t] # "none"
    BY <1>4 DEF InMap
  <2> QED BY <1>2, <1>5, <1>7, <2>1 DEF NumbersFit
<1> QED BY <1>8, <1>9 DEF NumbersFit

\* RequestSendPackage of a caller: the package has a number of its own.
LEMMA NumberAdds ==
  ASSUME UartInv, OrderInv, NumberInv, OneInside, NEW c \in Caller, NEW more \in BOOLEAN, AddPackage(c, more)
  PROVE  NumberInv'
<1> DEFINE x == EndOf(c)
           t == pc[c].s
           p == Pkg("data", t, pc[c].n, sent[x][t] + 1)
<1>1. TypeOK /\ InUse /\ x \in End
  BY UartParts DEF EndOf, End
<1>2. /\ pc[c].at = "wait"
      /\ outPkgs' = [outPkgs EXCEPT ![x] = RequestSendPackage(outPkgs[x], p)]
      /\ sent' = [sent EXCEPT ![x][t] = sent[x][t] + 1]
      /\ pc' = [pc EXCEPT ![c] = IF more THEN [at |-> "count", s |-> t, n |-> packageIndex[x][t]] ELSE Idle]
      /\ UNCHANGED <<sess, dispatchedPackageIndex, packageIndex, line, rd, got, broken, again, raced>>
  BY DEF AddPackage
<1>3. t \in Session /\ InMap(x, t)
  BY <1>1, <1>2 DEF InUse
<1>4. sent[x][t] \in Nat /\ sent[x][t] + 1 \in Nat /\ pc[c].n \in Nat
  BY <1>1, <1>3, CallerAt DEF TypeOK
<1>5. p \in Package /\ Data(p) /\ p.id = t /\ p.idx = pc[c].n /\ p.val = sent[x][t] + 1 /\ ~IsResponse(p)
  BY <1>3, <1>4 DEF Pkg, Package, Data, IsResponse
<1>6. /\ \A b \in Caller : b # c => pc'[b] = pc[b]
      /\ t \notin raced[x] => \A b \in Caller : b # c /\ EndOf(b) = x /\ pc[b].s = t => pc[b].at = "idle"
  BY <1>1, <1>2 DEF OneInside, TypeOK
<1>7. /\ pc'[c].at = "idle" \/ (pc'[c].at = "count" /\ pc'[c].s = t /\ pc'[c].n = packageIndex[x][t])
      /\ pc'[c].s = t => pc'[c].at # "wait"
  <2>1. pc'[c] = IF more THEN [at |-> "count", s |-> t, n |-> packageIndex[x][t]] ELSE Idle
    BY <1>1, <1>2 DEF TypeOK
  <2> QED BY <2>1 DEF Idle
<1>8. /\ outPkgs'[x] = RequestSendPackage(outPkgs[x], p) /\ \A d \in End : d # x => outPkgs'[d] = outPkgs[d]
      /\ sent'[x][t] = sent[x][t] + 1
      /\ \A d \in End, s \in Session : ~(d = x /\ s = t) => sent'[d][s] = sent[d][s]
  BY <1>1, <1>2, <1>3 DEF TypeOK
<1> HIDE DEF x, t, p
<1>9. outPkgs[x] \in Seq(Entries)
  BY <1>1, FlowTypes
<1> SUFFICES ASSUME NEW e \in End, NEW s \in Session PROVE NumbersFit(e, s)'
  BY DEF NumberInv
<1>10. NumbersFit(e, s) /\ Peer(e) \in End /\ Peer(e) # e
  BY Peers DEF NumberInv
<1>11. ASSUME Whole(e, s)' PROVE Counted(e, s)' /\ Linked(e, s)'
  <2>1. Whole(e, s) /\ Counted(e, s) /\ Linked(e, s)
    BY <1>2, <1>10, <1>11 DEF Whole, NumbersFit
  <2>2. CASE ~(e = x /\ s = t)
    <3>1. Keeps(e, s) /\ Steady(e, s) /\ rd'[Peer(e)] = rd[Peer(e)]
      <4>1. \A d \in End : Part(PkgsOf(outPkgs'[d]), PkgsOf(outPkgs[d]), s, TRUE)
        BY <1>5, <1>8, <1>9, PartSame, PartAdd
      <4>2. Part(PkgsOf(outPkgs'[e]), PkgsOf(outPkgs[e]), s, FALSE) /\ Part(PkgsOf(outPkgs[e]), PkgsOf(outPkgs'[e]), s, FALSE)
        BY <1>5, <1>8, <1>9, <2>2, PartSame, PartAdd
      <4> QED BY <1>2, <1>8, <1>10, <2>2, <4>1, <4>2, PartSame DEF Keeps, Steady
    <3>2. Linked(e, s)'
      BY <1>1, <2>1, <3>1, LinkedKeeps
    <3>3. CASE e # x
      <4>1. \A b \in Caller : EndOf(b) = e => pc'[b] = pc[b]
        BY <1>6, <3>3 DEF x
      <4> QED BY <1>2, <1>8, <2>1, <2>2, <3>2, <4>1, CountedStill
    <3>4. CASE e = x
      <4>1. s # t /\ pc[c].s = t
        BY <2>2, <3>4 DEF t
      <4>2. packageIndex'[e][s] = packageIndex[e][s] /\ sent'[e][s] = sent[e][s]
        BY <1>2, <1>8, <2>2
      <4>3. \A b \in Caller : pc'[b].s = s /\ pc'[b].at # "idle" => b # c /\ pc'[b] = pc[b]
        BY <1>6, <1>7, <4>1
      <4>4. \A b \in Caller : pc[b].s = s => pc'[b] = pc[b]
        BY <1>6, <4>1
      <4>5. \A b \in Caller : EndOf(b) = e /\ pc'[b].s = s =>
              /\ pc'[b].at = "count" => pc'[b].n = sent'[e][s]
              /\ pc'[b].at = "wait" => pc'[b].n = sent'[e][s] + 1 /\ packageIndex'[e][s] = pc'[b].n
        BY <2>1, <4>2, <4>3 DEF Counted
      <4>6. \/ packageIndex'[e][s] = sent'[e][s]
            \/ \E b \in Caller : EndOf(b) = e /\ pc'[b].s = s /\ pc'[b].at = "wait"
        BY <2>1, <4>2, <4>4 DEF Counted
      <4> QED BY <3>2, <4>5, <4>6 DEF Counted
    <3> QED BY <3>3, <3>4
  <2>3. CASE e = x /\ s = t
    <3>1. \A b \in Caller : EndOf(b) = e /\ b # c => (pc[b].s = s => pc[b].at = "idle") /\ pc'[b] = pc[b]
      BY <1>6, <2>1, <2>3 DEF Whole
    <3>2. pc[c].n = sent[e][s] + 1 /\ packageIndex[e][s] = sent[e][s] + 1
      BY <1>2, <2>1, <2>3 DEF Counted, x, t
    <3>3. Counted(e, s)'
      <4>1. packageIndex'[e][s] = sent'[e][s] /\ sent'[e][s] = packageIndex[e][s]
        BY <1>2, <1>8, <2>3, <3>2
      <4> QED BY <1>7, <2>3, <3>1, <4>1 DEF Counted
    <3>4. Linked(e, s)'
      <4> DEFINE d == Peer(e)
                 H == Held(d)
                 L == line[e]
                 Q == PkgsOf(outPkgs[e])
                 A == AnswersOf(d)
                 n == sent[e][s]
                 g == got[d][s]
                 i == dispatchedPackageIndex[d][s]
      <4>1. Link(s, H, L, Q, A, n, g, i)
        BY <2>1 DEF Linked
      <4>2. H \in Seq(Package) /\ Q \in Seq(Package) /\ n \in Nat /\ g \in Seq(Nat)
        BY <1>1, <1>10, FlowTypes
      <4>3. ~Queued(outPkgs[x], p)
        <5> SUFFICES ASSUME NEW j \in DOMAIN outPkgs[x], SameKey(outPkgs[x][j].pkg, p) PROVE FALSE
          BY DEF Queued
        <5>1. j \in DOMAIN Q /\ Q[j] = outPkgs[x][j].pkg
          BY <1>9, <2>3, PkgsAt
        <5>2. Q[j].id = s /\ ~IsResponse(Q[j]) /\ Q[j].idx = n + 1
          BY <1>5, <2>3, <3>2, <5>1 DEF SameKey
        <5>3. Data(Q[j]) /\ Q[j].idx = Q[j].val
          BY <4>1, <5>1, <5>2 DEF Link, Numbered
        <5>4. Due(Q[j], sent[e], got[d], dispatchedPackageIndex[d])
          BY <5>1 DEF OrderInv, Ordered, Flow
        <5>5. Q[j].val \in 1 .. n
          BY <5>2, <5>3, <5>4 DEF Due
        <5> QED BY <4>2, <5>2, <5>3, <5>5
      <4>4. PkgsOf(outPkgs[e])' = Append(Q, p)
        <5>1. PkgsOf(RequestSendPackage(outPkgs[x], p)) = Append(PkgsOf(outPkgs[x]), p)
          BY <1>5, <1>9, <4>3, PkgsAdd
        <5> QED BY <1>8, <2>3, <5>1 DEF PkgsOf
      <4>5. /\ Held(d)' = H /\ line'[e] = L /\ sent'[e][s] = n + 1 /\ got'[d][s] = g
            /\ dispatchedPackageIndex'[d][s] = i /\ AnswersOf(d)' = A
        <5>1. d # x /\ d \in End
          BY <1>10, <2>3
        <5> QED BY <1>2, <1>8, <2>3, <5>1 DEF Held, AnswersOf, PkgsOf, Range
      <4>6. p.id = s /\ Data(p) /\ p.idx = n + 1 /\ p.val = n + 1 /\ p \in Package
        BY <1>5, <2>3, <3>2
      <4> HIDE DEF H, L, Q, A, n, g, i
      <4>7. Link(s, H, L, Append(Q, p), A, n + 1, g, i)
        BY <4>1, <4>2, <4>6, LinkAdds
      <4> QED BY <4>4, <4>5, <4>7 DEF Linked, d
    <3> QED BY <3>3, <3>4
  <2> QED BY <2>2, <2>3
<1>12. sess'[e][s] = "none" => packageIndex'[e][s] = 0 /\ got'[e][s] = <<>>
  BY <1>2, <1>10 DEF NumbersFit
<1> QED BY <1>11, <1>12 DEF NumbersFit

\* A pass of the write thread.
LEMMA NumberPass ==
  ASSUME UartInv, OrderInv, NumberInv, NEW x \in End, NEW late \in SUBSET Waiting(x), NEW bad, NEW woken,
         SendPkgInUARTOutMap(x, late, bad, woken)
  PROVE  NumberInv'
<1>1. PICK M \in Seq(Package) :
           /\ line'[x] = line[x] \o M /\ \A d \in End : d # x => line'[d] = line[d] /\ outPkgs'[d] = outPkgs[d]
           /\ UNCHANGED <<packageIndex, pc, rd, dispatchedPackageIndex, sent, got, broken, again, raced>>
           /\ \A i \in DOMAIN M : \E a \in DOMAIN PkgsOf(outPkgs[x]) :
                PkgsOf(outPkgs[x])[a] = M[i] /\ (~IsResponse(M[i]) => ~Blocked(outPkgs[x], a))
           /\ \A s \in Session : /\ Part(PkgsOf(outPkgs'[x]), PkgsOf(outPkgs[x]), s, FALSE)
                                 /\ Part(PkgsOf(outPkgs'[x]), PkgsOf(outPkgs[x]), s, TRUE)
                                 /\ sess'[x][s] \in {"none", "live"} =>
                                      /\ Part(PkgsOf(outPkgs[x]), PkgsOf(outPkgs'[x]), s, FALSE)
                                      /\ sess[x][s] = sess'[x][s]
           /\ \A s \in Session, d \in End : \/ sess'[d][s] = sess[d][s]
                                            \/ sess'[d][s] \in {"dead", "shut"} /\ sess[d][s] # "none"
  BY PassDoes
<1>2. TypeOK /\ line[x] \in Seq(Package) /\ outPkgs[x] \in Seq(Entries)
  <2>1. TypeOK
    BY UartParts
  <2> QED BY <2>1, FlowTypes
<1> SUFFICES ASSUME NEW e \in End, NEW s \in Session PROVE NumbersFit(e, s)'
  BY DEF NumberInv
<1>3. NumbersFit(e, s) /\ Peer(e) \in End /\ Peer(e) # e /\ (e # x => Peer(e) = x)
  BY Peers DEF NumberInv
<1>4. ASSUME Whole(e, s)' PROVE Counted(e, s)' /\ Linked(e, s)'
  <2>1. sess'[e][s] \in {"none", "live"} /\ sess[e][s] = sess'[e][s] /\ Whole(e, s)
    BY <1>1, <1>4 DEF Whole
  <2>2. Counted(e, s) /\ Linked(e, s)
    BY <1>3, <2>1 DEF NumbersFit
  <2>3. Counted(e, s)'
    BY <1>1, <2>2, CountedStill
  <2>4. Steady(e, s) /\ rd'[Peer(e)] = rd[Peer(e)]
    BY <1>1 DEF Steady
  <2>5. CASE e # x
    <3>1. NoNewAnswer(x, s)
      <4> SUFFICES ASSUME NEW p \in AnswersOf(x)', p.id = s, IsResponse(p) PROVE p \in AnswersOf(x)
        BY DEF NoNewAnswer, OldAnswers
      <4>1. CASE \E i \in DOMAIN line'[x] : p = line'[x][i]
        <5>1. PICK i \in DOMAIN line'[x] : p = line'[x][i]
          BY <4>1
        <5>2. \/ i \in DOMAIN line[x] /\ line'[x][i] = line[x][i]
              \/ i - Len(line[x]) \in DOMAIN M /\ line'[x][i] = M[i - Len(line[x])]
          BY <1>1, <1>2
        <5>3. CASE i \in DOMAIN line[x] /\ line'[x][i] = line[x][i]
          BY <5>1, <5>3, AnswersAre
        <5>4. CASE i - Len(line[x]) \in DOMAIN M /\ line'[x][i] = M[i - Len(line[x])]
          <6>1. \E a \in DOMAIN PkgsOf(outPkgs[x]) : PkgsOf(outPkgs[x])[a] = M[i - Len(line[x])]
            BY <1>1, <5>4
          <6>2. \E a \in DOMAIN PkgsOf(outPkgs[x]) : PkgsOf(outPkgs[x])[a] = p
            BY <5>1, <5>4, <6>1
          <6> QED BY <6>2, AnswersAre
        <5> QED BY <5>2, <5>3, <5>4
      <4>2. CASE \E i \in DOMAIN PkgsOf(outPkgs'[x]) : p = PkgsOf(outPkgs'[x])[i]
        <5>1. \E j \in DOMAIN PkgsOf(outPkgs[x]) : PkgsOf(outPkgs[x])[j] = p
          BY <1>1, <4>2 DEF Part
        <5> QED BY <5>1, AnswersAre
      <4> QED BY <4>1, <4>2, AnswersAre
    <3>2. /\ Part(line'[e], line[e], s, FALSE) /\ Part(PkgsOf(outPkgs'[e]), PkgsOf(outPkgs[e]), s, FALSE)
          /\ Part(PkgsOf(outPkgs[e]), PkgsOf(outPkgs'[e]), s, FALSE)
      BY <1>1, <2>5, PartSame
    <3>3. KeepsAfter(PkgsOf(outPkgs'[e]), PkgsOf(outPkgs[e]), s, Reached(Held(Peer(e)), got[Peer(e)][s], s))
      BY <3>2 DEF KeepsAfter, Part
    <3>4. Linked(e, s)'
      BY <1>2, <1>3, <2>2, <2>4, <2>5, <3>1, <3>2, <3>3, LinkedStill
    <3> QED BY <2>3, <3>4
  <2>6. CASE e = x
    <3> DEFINE d == Peer(e)
               H == Held(d)
               L == line[e]
               q == outPkgs[e]
               Q == PkgsOf(outPkgs[e])
               Q2 == PkgsOf(outPkgs'[e])
               A == AnswersOf(d)
               A2 == AnswersOf(d)'
               n == sent[e][s]
               g == got[d][s]
               j == dispatchedPackageIndex[d][s]
    <3>1. Link(s, H, L, Q, A, n, g, j)
      BY <2>2 DEF Linked
    <3>2. H \in Seq(Package) /\ Q \in Seq(Package) /\ L \in Seq(Package) /\ n \in Nat /\ g \in Seq(Nat)
      BY <1>2, <1>3, FlowTypes
    <3>3. Sorted(Q) /\ \A i \in DOMAIN Q : Q[i].id = s /\ Data(Q[i]) => Q[i].val \in 1 .. n
      BY DEF OrderInv, Ordered, Flow, Due
    <3>4. \A i \in DOMAIN M : \E a \in DOMAIN Q :
            /\ Q[a] = M[i]
            /\ ~IsResponse(M[i]) => \A k \in 1 .. a - 1 : ~(Q[k].id = M[i].id /\ ~IsResponse(Q[k]))
      <4> TAKE i \in DOMAIN M
      <4>1. PICK a \in DOMAIN Q : Q[a] = M[i] /\ (~IsResponse(M[i]) => ~Blocked(q, a))
        BY <1>1, <2>6
      <4>2. DOMAIN Q = 1 .. Len(q) /\ Len(q) \in Nat /\ \A k \in DOMAIN Q : Q[k] = q[k].pkg
        BY <1>2, <2>6, PkgsAt
      <4>3. \A k \in 1 .. a - 1 : k \in DOMAIN Q
        BY <4>2
      <4>4. ~IsResponse(M[i]) => \A k \in 1 .. a - 1 : ~(Q[k].id = M[i].id /\ ~IsResponse(Q[k]))
        BY <4>1, <4>2, <4>3 DEF Blocked
      <4> QED BY <4>1, <4>4
    <3>5. A2 = A /\ Held(d)' = H
      <4>1. d \in End /\ line'[d] = line[d] /\ outPkgs'[d] = outPkgs[d] /\ rd'[d] = rd[d]
        BY <1>1, <1>3, <2>6
      <4> QED BY <4>1 DEF AnswersOf, Held, PkgsOf, Range
    <3>6. Part(Q2, Q, s, FALSE) /\ Part(Q, Q2, s, FALSE)
      BY <1>1, <2>1, <2>6
    <3> HIDE DEF H, L, q, Q, Q2, A, A2, n, g, j
    <3>7. Link(s, H, L \o M, Q, A, n, g, j)
      BY <3>1, <3>2, <3>3, <3>4, LinkSends
    <3>8. Reached(H, g, s) \in Nat
      BY <3>2, LinkTypes
    <3>9. KeepsAfter(Q2, Q, s, Reached(H, g, s)) /\ OldAnswers(A, A, s) /\ Part(L \o M, L \o M, s, FALSE)
      BY <3>6, PartSame DEF KeepsAfter, Part, OldAnswers
    <3>10. Link(s, H, L \o M, Q2, A, n, g, j)
      BY <3>2, <3>6, <3>7, <3>8, <3>9, LinkStill
    <3>11. line'[e] = L \o M /\ PkgsOf(outPkgs[e])' = Q2 /\ sent'[e][s] = n /\ got'[d][s] = g
           /\ dispatchedPackageIndex'[d][s] = j /\ AnswersOf(d)' = A
      BY <1>1, <2>6, <3>5 DEF L, Q2, n, g, j, A2, PkgsOf
    <3>12. Linked(e, s)'
      BY <3>5, <3>10, <3>11 DEF Linked, d
    <3> QED BY <2>3, <3>12
  <2> QED BY <2>5, <2>6
<1>5. sess'[e][s] = "none" => packageIndex'[e][s] = 0 /\ got'[e][s] = <<>>
  BY <1>1, <1>3 DEF NumbersFit
<1> QED BY <1>4, <1>5 DEF NumbersFit

\* The read thread takes a package from the line: what it is an answer to has arrived.
LEMMA NumberReads ==
  ASSUME UartInv, OrderInv, NumberInv, NEW x \in End, ValidateUartPacket(x)
  PROVE  NumberInv'
<1> DEFINE y == Peer(x)
<1>1. PICK p \in Package, q \in Seq(Entries) :
           /\ line[y] # <<>> /\ p = Head(line[y]) /\ rd[x] = NoPkg
           /\ line'[y] = Tail(line[y]) /\ line'[x] = line[x]
           /\ rd'[x] = IF Data(p) THEN p ELSE NoPkg
           /\ rd'[y] = rd[y] /\ outPkgs'[y] = outPkgs[y]
           /\ UNCHANGED <<dispatchedPackageIndex, packageIndex, pc, sent, got, broken, again, raced>>
           /\ q = outPkgs[x] \/ (q = Other(outPkgs[x], p.id) /\ sess'[x][p.id] \in {"dead", "shut"})
           /\ \/ IsResponse(p) /\ q = outPkgs[x] /\ outPkgs'[x] = Acked(q, p)
              \/ ~IsResponse(p) /\ ~Data(p) /\ outPkgs'[x] = q
              \/ ~IsResponse(p) /\ outPkgs'[x] = RequestSendPackage(q, Ack(p)) /\ (Data(p) => q = outPkgs[x])
           /\ \A s \in Session, d \in End : \/ sess'[d][s] = sess[d][s]
                                            \/ sess'[d][s] \in {"dead", "shut"} /\ sess[d][s] # "none"
  <2>1. \E p \in Package, q \in Seq(Entries) :
           /\ line[y] # <<>> /\ p = Head(line[y]) /\ rd[x] = NoPkg
           /\ line'[y] = Tail(line[y]) /\ line'[x] = line[x]
           /\ rd'[x] = IF Data(p) THEN p ELSE NoPkg
           /\ rd'[y] = rd[y] /\ outPkgs'[y] = outPkgs[y]
           /\ UNCHANGED <<dispatchedPackageIndex, packageIndex, pc, sent, got, broken, again, raced>>
           /\ q = outPkgs[x] \/ (q = Other(outPkgs[x], p.id) /\ sess'[x][p.id] \in {"dead", "shut"})
           /\ \/ IsResponse(p) /\ q = outPkgs[x] /\ outPkgs'[x] = Acked(q, p)
              \/ ~IsResponse(p) /\ ~Data(p) /\ outPkgs'[x] = q
              \/ ~IsResponse(p) /\ outPkgs'[x] = RequestSendPackage(q, Ack(p)) /\ (Data(p) => q = outPkgs[x])
           /\ \A s \in Session, d \in End : \/ sess'[d][s] = sess[d][s]
                                            \/ sess'[d][s] \in {"dead", "shut"} /\ sess[d][s] # "none"
    BY ReadDoes
  <2> QED BY <2>1
<1>2. /\ TypeOK /\ y \in End /\ Peer(y) = x /\ y # x /\ (\A d \in End : d = x \/ d = y)
      /\ outPkgs[x] \in Seq(Entries) /\ line[y] \in Seq(Package)
  BY UartParts, Peers
<1>3. Ack(p) \in Package /\ Ack(p).id = p.id /\ Ack(p).idx = p.idx /\ IsResponse(Ack(p))
  BY NoDataPkgs
<1>4. 1 \in DOMAIN line[y] /\ line[y][1] = p /\ p \in AnswersOf(y)
  <2>1. 1 \in DOMAIN line[y] /\ line[y][1] = p
    BY <1>1, <1>2
  <2> QED BY <1>2, <2>1, AnswersAre
<1>5. \A s \in Session, r \in BOOLEAN : Part(line'[y], line[y], s, r) /\ Part(line'[x], line[x], s, r)
  BY <1>1, <1>2, PartTail, PartSame
<1> HIDE DEF y
<1> SUFFICES ASSUME NEW e \in End, NEW s \in Session PROVE NumbersFit(e, s)'
  BY DEF NumberInv
<1>6. NumbersFit(e, s)
  BY DEF NumberInv
<1>7. ASSUME Whole(e, s)' PROVE Counted(e, s)' /\ Linked(e, s)'
  <2>1. sess'[e][s] \in {"none", "live"} /\ sess[e][s] = sess'[e][s] /\ Whole(e, s)
    BY <1>1, <1>7 DEF Whole
  <2>2. Counted(e, s) /\ Linked(e, s)
    BY <1>6, <2>1 DEF NumbersFit
  <2>3. Counted(e, s)'
    BY <1>1, <2>2, CountedStill
  <2>4. Steady(e, s)
    BY <1>1 DEF Steady
  <2>5. CASE e = x
    <3>1. Peer(e) = y
      BY <2>5 DEF y
    <3>2. NoNewAnswer(y, s)
      BY <1>1, <1>2, <1>5, PartAnswers, PartSame
    <3>3. p.id # s \/ q = outPkgs[x]
      BY <1>1, <2>1, <2>5
    <3>4. Part(PkgsOf(q), PkgsOf(outPkgs[x]), s, FALSE) /\ Part(PkgsOf(outPkgs[x]), PkgsOf(q), s, FALSE)
      BY <1>1, <1>2, <3>3, PartSame, PartOther
    <3>5. Part(PkgsOf(outPkgs'[x]), PkgsOf(q), s, FALSE)
      BY <1>1, <1>3, PartSame, PartAcked, PartAdd
    <3>6. Part(PkgsOf(outPkgs'[x]), PkgsOf(outPkgs[x]), s, FALSE)
      BY <3>4, <3>5, PartTwice
    <3>7. KeepsAfter(PkgsOf(outPkgs'[e]), PkgsOf(outPkgs[e]), s, Reached(Held(y), got[y][s], s))
      <4>1. CASE IsResponse(p)
        <5>1. outPkgs'[x] = Acked(outPkgs[x], p)
          BY <1>1, <4>1
        <5>2. p.id = s => p.idx <= Reached(Held(y), got[y][s], s)
          BY <1>4, <2>2, <3>1, <4>1 DEF Linked, Link, Answers
        <5>3. \A i \in DOMAIN PkgsOf(outPkgs[x]) :
                ~(PkgsOf(outPkgs[x])[i].id = p.id /\ PkgsOf(outPkgs[x])[i].idx = p.idx) =>
                  \E j \in DOMAIN PkgsOf(outPkgs'[x]) : PkgsOf(outPkgs'[x])[j] = PkgsOf(outPkgs[x])[i]
          <6> DEFINE u == outPkgs[x]
          <6>1. u \in Seq(Entries) /\ outPkgs'[x] = Acked(u, p)
            BY <1>2, <5>1
          <6> HIDE DEF u
          <6>2. \A i \in DOMAIN PkgsOf(u) :
                  ~(PkgsOf(u)[i].id = p.id /\ PkgsOf(u)[i].idx = p.idx) =>
                    \E j \in DOMAIN PkgsOf(Acked(u, p)) : PkgsOf(Acked(u, p))[j] = PkgsOf(u)[i]
            BY <6>1, PartAcked
          <6> QED BY <6>1, <6>2 DEF u
        <5> QED BY <2>5, <5>2, <5>3 DEF KeepsAfter
      <4>2. CASE ~IsResponse(p)
        <5>1. Part(PkgsOf(q), PkgsOf(outPkgs'[x]), s, FALSE)
          BY <1>1, <1>3, <4>2, PartSame, PartAdd
        <5>2. Part(PkgsOf(outPkgs[x]), PkgsOf(outPkgs'[x]), s, FALSE)
          BY <3>4, <5>1, PartTwice
        <5> QED BY <2>5, <5>2 DEF KeepsAfter, Part
      <4> QED BY <4>1, <4>2
    <3>8. Linked(e, s)'
      BY <1>1, <1>2, <1>5, <2>2, <2>4, <2>5, <3>1, <3>2, <3>6, <3>7, LinkedStill
    <3> QED BY <2>3, <3>8
  <2>6. CASE e = y /\ ~Data(p)
    <3>1. p.id # s \/ IsResponse(p)
      BY <1>4, <2>2, <2>6 DEF Linked, Link, Numbered
    <3>2. Part(PkgsOf(q), PkgsOf(outPkgs[x]), s, TRUE)
      BY <1>1, <1>2, PartSame, PartOther
    <3>3. Part(PkgsOf(outPkgs'[x]), PkgsOf(q), s, TRUE)
      BY <1>1, <1>3, <3>1, PartSame, PartAcked, PartAdd
    <3>4. Part(PkgsOf(outPkgs'[x]), PkgsOf(outPkgs[x]), s, TRUE)
      BY <3>2, <3>3, PartTwice
    <3>5. Keeps(e, s)
      BY <1>1, <1>2, <1>5, <2>6, <3>4, PartSame DEF Keeps
    <3>6. rd'[Peer(e)] = rd[Peer(e)]
      BY <1>1, <1>2, <2>6
    <3>7. Linked(e, s)'
      BY <1>2, <2>2, <2>4, <3>5, <3>6, LinkedKeeps
    <3> QED BY <2>3, <3>7
  <2>7. CASE e = y /\ Data(p)
    <3> DEFINE L == line[e]
               Q == PkgsOf(outPkgs[e])
               A == AnswersOf(x)
               A2 == AnswersOf(x)'
               n == sent[e][s]
               g == got[x][s]
               j == dispatchedPackageIndex[x][s]
    <3>1. Peer(e) = x /\ Held(x) = <<>>
      BY <1>1, <1>2, <2>7 DEF Held
    <3>2. Link(s, <<>>, L, Q, A, n, g, j)
      BY <2>2, <3>1 DEF Linked
    <3>3. L \in Seq(Package) /\ L # <<>> /\ n \in Nat /\ g \in Seq(Nat) /\ Head(L) = p
      BY <1>1, <1>2, <2>7, FlowTypes
    <3>4. A \in SUBSET Package
      <4>1. line[x] \in Seq(Package) /\ PkgsOf(outPkgs[x]) \in Seq(Package)
        BY <1>2, FlowTypes
      <4>2. (\A i \in DOMAIN line[x] : line[x][i] \in Package)
            /\ \A i \in DOMAIN PkgsOf(outPkgs[x]) : PkgsOf(outPkgs[x])[i] \in Package
        BY <4>1
      <4> QED BY <4>2, AnswersAre
    <3>5. p.id = s => Latest(g) <= p.val
      BY <1>2, <1>4, <2>7, <3>1 DEF OrderInv, Ordered, Flow, Due
    <3>6. \A r \in A2 : r.id = s /\ IsResponse(r) => r \in A \/ (r.idx = p.idx /\ p.id = s)
      <4>1. outPkgs'[x] = RequestSendPackage(outPkgs[x], Ack(p))
        BY <1>1, <2>7 DEF Data, IsResponse
      <4>2. CASE Queued(outPkgs[x], Ack(p))
        <5>1. outPkgs'[x] = outPkgs[x]
          BY <1>2, <1>3, <4>1, <4>2, PkgsAdd
        <5>2. NoNewAnswer(x, s)
          BY <1>1, <5>1, PartAnswers, PartSame
        <5> QED BY <5>2 DEF NoNewAnswer, OldAnswers
      <4>3. CASE ~Queued(outPkgs[x], Ack(p))
        <5> DEFINE P == PkgsOf(outPkgs[x])
                   P2 == PkgsOf(outPkgs'[x])
        <5>1. P2 = Append(P, Ack(p)) /\ P \in Seq(Package)
          BY <1>2, <1>3, <4>1, <4>3, PkgsAdd, FlowTypes
        <5>2. A2 = {line[x][i] : i \in DOMAIN line[x]} \cup {P2[i] : i \in DOMAIN P2}
          <6>1. A2 = {line'[x][i] : i \in DOMAIN line'[x]} \cup {P2[i] : i \in DOMAIN P2}
            BY AnswersAre
          <6> HIDE DEF P2, A2
          <6> QED BY <1>1, <6>1
        <5>3. A = {line[x][i] : i \in DOMAIN line[x]} \cup {P[i] : i \in DOMAIN P}
          BY AnswersAre
        <5> HIDE DEF P, P2, A, A2
        <5>4. \A i \in DOMAIN P2 : (i \in DOMAIN P /\ P2[i] = P[i]) \/ P2[i] = Ack(p)
          BY <1>3, <5>1, AppendAt
        <5> QED BY <1>3, <5>2, <5>3, <5>4
      <4> QED BY <4>2, <4>3
    <3>7. Held(x)' = <<p>> /\ line'[e] = Tail(L) /\ PkgsOf(outPkgs[e])' = Q /\ sent'[e][s] = n
          /\ got'[x][s] = g /\ dispatchedPackageIndex'[x][s] = j
      <4>1. p # NoPkg
        BY NoPkgAssumption
      <4> QED BY <1>1, <2>7, <4>1 DEF Held, PkgsOf
    <3> HIDE DEF L, Q, A, A2, n, g, j
    <3>8. Link(s, <<Head(L)>>, Tail(L), Q, A2, n, g, j)
      BY <2>7, <3>2, <3>3, <3>4, <3>5, <3>6, LinkReads
    <3>9. Linked(e, s)'
      BY <3>1, <3>3, <3>7, <3>8 DEF Linked, A2
    <3> QED BY <2>3, <3>9
  <2> QED BY <1>2, <2>5, <2>6, <2>7
<1>8. sess'[e][s] = "none" => packageIndex'[e][s] = 0 /\ got'[e][s] = <<>>
  BY <1>1, <1>6 DEF NumbersFit
<1> QED BY <1>7, <1>8 DEF NumbersFit

\* A duplicate is dropped: it is the last payload that was dispatched.
LEMMA NumberDuplicate ==
  ASSUME UartInv, OrderInv, NumberInv, NEW x \in End, DispatchDuplicate(x)
  PROVE  NumberInv'
<1> DEFINE p == rd[x]
<1>1. /\ p # NoPkg /\ ~IsNew(x) /\ dispatchedPackageIndex[x][Target(x)] = p.idx
      /\ rd' = [rd EXCEPT ![x] = NoPkg]
      /\ UNCHANGED <<sess, packageIndex, pc, outPkgs, line, dispatchedPackageIndex, sent, got, broken, again, raced>>
  BY DEF DispatchDuplicate, Duplicate, sendVars, histVars
<1>2. TypeOK /\ p \in Package /\ p.id = Target(x) /\ Data(p)
  BY <1>1, UartParts, TargetIs DEF OrderInv
<1>3. rd'[x] = NoPkg /\ \A d \in End : d # x => rd'[d] = rd[d]
  BY <1>1, <1>2 DEF TypeOK
<1> SUFFICES ASSUME NEW e \in End, NEW s \in Session PROVE NumbersFit(e, s)'
  BY DEF NumberInv
<1>4. NumbersFit(e, s) /\ Peer(e) \in End
  BY Peers DEF NumberInv
<1>5. ASSUME Whole(e, s)' PROVE Counted(e, s)' /\ Linked(e, s)'
  <2>1. Whole(e, s) /\ Counted(e, s) /\ Linked(e, s)
    BY <1>1, <1>4, <1>5 DEF Whole, NumbersFit
  <2>2. Counted(e, s)'
    BY <1>1, <2>1, CountedStill
  <2>3. Keeps(e, s) /\ Steady(e, s)
    BY <1>1, PartSame DEF Keeps, Steady
  <2>4. Peer(e) = x /\ p.id = s => p.val = Latest(got[x][s])
    <3> SUFFICES ASSUME Peer(e) = x, p.id = s PROVE p.val = Latest(got[x][s])
      OBVIOUS
    <3>1. 1 \in DOMAIN Held(x) /\ Held(x)[1] = p
      BY <1>1 DEF Held
    <3>2. p.idx = p.val /\ dispatchedPackageIndex[x][s] = Latest(got[x][s])
      <4>1. ~IsResponse(p)
        BY <1>2 DEF Data, IsResponse
      <4> QED BY <2>1, <3>1, <4>1 DEF Linked, Link, Numbered
    <3> QED BY <1>1, <1>2, <3>2
  <2>5. \/ rd'[Peer(e)] = rd[Peer(e)]
        \/ rd'[Peer(e)] = NoPkg /\ (rd[Peer(e)].id = s => rd[Peer(e)].val = Latest(got[Peer(e)][s]))
    BY <1>3, <1>4, <2>4
  <2>6. Linked(e, s)'
    BY <1>2, <2>1, <2>3, <2>5, LinkedKeeps
  <2> QED BY <2>2, <2>6
<1>6. sess'[e][s] = "none" => packageIndex'[e][s] = 0 /\ got'[e][s] = <<>>
  BY <1>1, <1>4 DEF NumbersFit
<1> QED BY <1>5, <1>6 DEF NumbersFit

\* The pipe to a worker is broken.
LEMMA NumberFails ==
  ASSUME UartInv, NumberInv, NEW x \in End, DispatchFail(x)
  PROVE  NumberInv'
<1> DEFINE t == Target(x)
           p == FreePkg(t, packageIndex[x][t])
<1>1. /\ rd[x] # NoPkg /\ ~IsNew(x)
      /\ rd' = [rd EXCEPT ![x] = NoPkg]
      /\ dispatchedPackageIndex' = [dispatchedPackageIndex EXCEPT ![x][t] = rd[x].idx]
      /\ packageIndex' = [packageIndex EXCEPT ![x][t] = packageIndex[x][t] + 1]
      /\ outPkgs' = [outPkgs EXCEPT ![x] = RequestSendPackage(outPkgs[x], p)]
      /\ broken' = [broken EXCEPT ![x] = broken[x] \cup {t}]
      /\ UNCHANGED <<sess, pc, line, sent, got, again, raced>>
  BY DEF DispatchFail
<1>2. TypeOK /\ rd[x] \in Package /\ rd[x].id = t /\ t \in Session /\ InMap(x, t) /\ outPkgs[x] \in Seq(Entries)
  BY <1>1, UartParts, TargetIs
<1>3. packageIndex[x][t] \in Nat
  BY <1>2 DEF TypeOK
<1>4. p \in Package /\ p.id = t /\ ~IsResponse(p)
  BY <1>2, <1>3, NoDataPkgs
<1> HIDE DEF t, p
<1>5. /\ rd'[x] = NoPkg /\ t \in broken'[x] /\ outPkgs'[x] = RequestSendPackage(outPkgs[x], p)
      /\ \A d \in End : d # x => rd'[d] = rd[d] /\ outPkgs'[d] = outPkgs[d]
      /\ \A d \in End : broken[d] \subseteq broken'[d]
      /\ \A d \in End, s \in Session : s # t => /\ packageIndex'[d][s] = packageIndex[d][s]
                                                /\ dispatchedPackageIndex'[d][s] = dispatchedPackageIndex[d][s]
      /\ \A d \in End, s \in Session : d # x => packageIndex'[d][s] = packageIndex[d][s]
  BY <1>1, <1>2 DEF TypeOK
<1> SUFFICES ASSUME NEW e \in End, NEW s \in Session PROVE NumbersFit(e, s)'
  BY DEF NumberInv
<1>6. NumbersFit(e, s) /\ Peer(e) \in End /\ (e = x \/ Peer(e) = x)
  BY Peers DEF NumberInv
<1>7. ASSUME Whole(e, s)' PROVE Counted(e, s)' /\ Linked(e, s)'
  <2>1. s # t /\ Whole(e, s)
    BY <1>1, <1>5, <1>6, <1>7 DEF Whole
  <2>2. Counted(e, s) /\ Linked(e, s)
    BY <1>6, <2>1 DEF NumbersFit
  <2>3. Counted(e, s)'
    BY <1>1, <1>5, <2>1, <2>2, CountedStill
  <2>4. \A d \in End, r \in BOOLEAN : /\ Part(PkgsOf(outPkgs'[d]), PkgsOf(outPkgs[d]), s, r)
                                      /\ Part(PkgsOf(outPkgs[d]), PkgsOf(outPkgs'[d]), s, r)
    BY <1>2, <1>4, <1>5, <2>1, PartAdd, PartSame
  <2>5. Keeps(e, s) /\ Steady(e, s)
    BY <1>1, <1>5, <1>6, <2>1, <2>4, PartSame DEF Keeps, Steady
  <2>6. \/ rd'[Peer(e)] = rd[Peer(e)]
        \/ rd'[Peer(e)] = NoPkg /\ (rd[Peer(e)].id = s => rd[Peer(e)].val = Latest(got[Peer(e)][s]))
    BY <1>2, <1>5, <1>6, <2>1
  <2>7. Linked(e, s)'
    BY <1>2, <2>2, <2>5, <2>6, LinkedKeeps
  <2> QED BY <2>3, <2>7
<1>8. sess'[e][s] = "none" => packageIndex'[e][s] = 0 /\ got'[e][s] = <<>>
  BY <1>1, <1>2, <1>5, <1>6 DEF NumbersFit, InMap
<1> QED BY <1>7, <1>8 DEF NumbersFit

\* The worker is given the next payload.
LEMMA NumberDispatches ==
  ASSUME UartInv, OrderInv, NumberInv, NEW x \in End, DispatchPackageData(x)
  PROVE  NumberInv'
<1> DEFINE t == Target(x)
           p == rd[x]
           h == IF IsNew(x) THEN <<>> ELSE got[x][t]
<1>1. /\ p # NoPkg /\ ~Duplicate(x)
      /\ rd' = [rd EXCEPT ![x] = NoPkg]
      /\ dispatchedPackageIndex' = [dispatchedPackageIndex EXCEPT ![x][t] = p.idx]
      /\ got' = [got EXCEPT ![x][t] = Append(h, p.val)]
      /\ sess' = [sess EXCEPT ![x][t] = IF IsNew(x) THEN "live" ELSE @]
      /\ packageIndex' = [packageIndex EXCEPT ![x][t] = IF IsNew(x) THEN 0 ELSE @]
      /\ again' = again \cup IF IsNew(x) /\ sess[x][t] = "gone" THEN {t} ELSE {}
      /\ UNCHANGED <<pc, outPkgs, line, sent, broken, raced>>
  BY DEF DispatchPackageData
<1>2. TypeOK /\ InUse /\ p \in Package /\ p.id = t /\ t \in Session /\ Data(p) /\ (~IsNew(x) => InMap(x, t))
  BY <1>1, UartParts, TargetIs DEF OrderInv
<1>3. /\ IsNew(x) => ~InMap(x, t) /\ sess[x][t] \in {"none", "gone"}
      /\ ~IsNew(x) => p.idx # dispatchedPackageIndex[x][t]
  <2>1. sess[x][t] \in {"none", "live", "dead", "shut", "gone"}
    BY <1>2 DEF TypeOK
  <2> QED BY <1>1, <2>1 DEF IsNew, Duplicate, InMap
<1> HIDE DEF t, p, h
<1>4. /\ rd'[x] = NoPkg /\ got'[x][t] = Append(h, p.val) /\ dispatchedPackageIndex'[x][t] = p.idx
      /\ \A d \in End : d # x => rd'[d] = rd[d]
      /\ \A d \in End, s \in Session : ~(d = x /\ s = t) =>
           /\ got'[d][s] = got[d][s] /\ dispatchedPackageIndex'[d][s] = dispatchedPackageIndex[d][s]
           /\ sess'[d][s] = sess[d][s] /\ packageIndex'[d][s] = packageIndex[d][s]
      /\ IsNew(x) => sess'[x][t] = "live" /\ packageIndex'[x][t] = 0
      /\ ~IsNew(x) => sess'[x][t] = sess[x][t] /\ packageIndex'[x][t] = packageIndex[x][t]
  <2>1. /\ rd'[x] = NoPkg /\ \A d \in End : d # x => rd'[d] = rd[d]
    BY <1>1, <1>2 DEF TypeOK
  <2>2. got'[x][t] = Append(h, p.val) /\ \A d \in End, s \in Session : ~(d = x /\ s = t) => got'[d][s] = got[d][s]
    BY <1>1, <1>2 DEF TypeOK
  <2>3. /\ dispatchedPackageIndex'[x][t] = p.idx
        /\ \A d \in End, s \in Session : ~(d = x /\ s = t) => dispatchedPackageIndex'[d][s] = dispatchedPackageIndex[d][s]
    BY <1>1, <1>2 DEF TypeOK
  <2>4. /\ sess'[x][t] = IF IsNew(x) THEN "live" ELSE sess[x][t]
        /\ \A d \in End, s \in Session : ~(d = x /\ s = t) => sess'[d][s] = sess[d][s]
    BY <1>1, <1>2 DEF TypeOK
  <2>5. /\ packageIndex'[x][t] = IF IsNew(x) THEN 0 ELSE packageIndex[x][t]
        /\ \A d \in End, s \in Session : ~(d = x /\ s = t) => packageIndex'[d][s] = packageIndex[d][s]
    BY <1>1, <1>2 DEF TypeOK
  <2> QED BY <2>1, <2>2, <2>3, <2>4, <2>5
<1> SUFFICES ASSUME NEW e \in End, NEW s \in Session PROVE NumbersFit(e, s)'
  BY DEF NumberInv
<1>5. NumbersFit(e, s) /\ NumbersFit(x, t) /\ Peer(e) \in End /\ Peer(e) # e /\ (e # x => Peer(e) = x)
  BY <1>2, Peers DEF NumberInv
<1>6. ASSUME Whole(e, s)' PROVE Counted(e, s)' /\ Linked(e, s)'
  <2>1. /\ sess'[e][s] \in {"none", "live"} /\ s \notin broken[e] \cup broken[Peer(e)] \cup again /\ s \notin raced[e]
        /\ s = t /\ IsNew(x) => sess[x][t] = "none"
    BY <1>1, <1>3, <1>6 DEF Whole
  <2>2. Whole(e, s)
    BY <1>4, <2>1 DEF Whole
  <2>3. Counted(e, s) /\ Linked(e, s)
    BY <1>5, <2>2 DEF NumbersFit
  <2>4. Counted(e, s)'
    <3>1. CASE e = x /\ s = t /\ IsNew(x)
      <4>1. sess[x][t] = "none" /\ packageIndex[x][t] = 0
        BY <1>5, <2>1, <3>1 DEF NumbersFit
      <4>2. \A c \in Caller : EndOf(c) = e /\ pc[c].s = s => pc[c].at = "idle"
        BY <1>2, <1>3, <3>1 DEF InUse
      <4>3. sent[e][s] = 0
        BY <2>3, <3>1, <4>1, <4>2 DEF Counted
      <4>4. packageIndex'[e][s] = sent'[e][s] /\ \A c \in Caller : EndOf(c) = e /\ pc'[c].s = s => pc'[c].at = "idle"
        BY <1>1, <1>4, <3>1, <4>2, <4>3
      <4> QED BY <4>4 DEF Counted
    <3>2. CASE ~(e = x /\ s = t /\ IsNew(x))
      <4>1. packageIndex'[e][s] = packageIndex[e][s]
        BY <1>4, <3>2
      <4> QED BY <1>1, <2>3, <4>1, CountedStill
    <3> QED BY <3>1, <3>2
  <2>5. CASE ~(e # x /\ s = t)
    <3>1. Keeps(e, s) /\ Steady(e, s)
      BY <1>1, <1>4, <1>5, <2>5, PartSame DEF Keeps, Steady
    <3>2. \/ rd'[Peer(e)] = rd[Peer(e)]
          \/ rd'[Peer(e)] = NoPkg /\ (rd[Peer(e)].id = s => rd[Peer(e)].val = Latest(got[Peer(e)][s]))
      BY <1>2, <1>4, <1>5, <2>5 DEF p
    <3>3. Linked(e, s)'
      BY <1>2, <2>3, <3>1, <3>2, LinkedKeeps
    <3> QED BY <2>4, <3>3
  <2>6. CASE e # x /\ s = t
    <3> DEFINE L == line[e]
               Q == PkgsOf(outPkgs[e])
               A == AnswersOf(x)
               n == sent[e][s]
               g == got[x][s]
               j == dispatchedPackageIndex[x][s]
    <3>1. Peer(e) = x /\ Held(x) = <<p>> /\ Held(x)' = <<>>
      BY <1>1, <1>4, <1>5, <2>6 DEF Held, p
    <3>2. Link(s, <<p>>, L, Q, A, n, g, j)
      BY <2>3, <3>1 DEF Linked
    <3>3. g \in Seq(Nat)
      BY <1>2, FlowTypes
    <3>4. p.val >= 1 /\ Latest(g) <= p.val
      <4>1. Due(p, sent[e], got[x], dispatchedPackageIndex[x])
        <5>1. 1 \in DOMAIN Held(x) /\ Held(x)[1] = p
          BY <3>1
        <5> QED BY <3>1, <5>1 DEF OrderInv, Ordered, Flow
      <4>2. p.val \in 1 .. n /\ n \in Nat
        BY <1>2, <2>6, <4>1, FlowTypes DEF Due
      <4> QED BY <1>2, <2>6, <4>1, <4>2 DEF Due
    <3>5. (h = g \/ (h = <<>> /\ g = <<>>)) /\ (p.idx # j \/ g = <<>>)
      <4>1. CASE IsNew(x)
        BY <1>5, <2>1, <2>6, <4>1 DEF NumbersFit, h
      <4>2. CASE ~IsNew(x)
        BY <1>3, <2>6, <4>2 DEF h
      <4> QED BY <4>1, <4>2
    <3>6. /\ line'[e] = L /\ PkgsOf(outPkgs[e])' = Q /\ AnswersOf(x)' = A /\ sent'[e][s] = n
          /\ got'[x][s] = Append(h, p.val) /\ dispatchedPackageIndex'[x][s] = p.idx
      BY <1>1, <1>4, <2>6 DEF PkgsOf, AnswersOf, Range
    <3> HIDE DEF L, Q, A, n, g, j
    <3>7. Link(s, <<>>, L, Q, A, n, Append(h, p.val), p.idx)
      BY <1>2, <2>6, <3>2, <3>3, <3>4, <3>5, LinkGives
    <3>8. Linked(e, s)'
      BY <3>1, <3>6, <3>7 DEF Linked
    <3> QED BY <2>4, <3>8
  <2> QED BY <2>5, <2>6
<1>7. sess'[e][s] = "none" => packageIndex'[e][s] = 0 /\ got'[e][s] = <<>>
  BY <1>2, <1>4, <1>5 DEF NumbersFit, InMap
<1> QED BY <1>6, <1>7 DEF NumbersFit

LEMMA NumberFirst == Init => NumberInv
<1> SUFFICES ASSUME Init, NEW e \in End, NEW s \in Session PROVE NumbersFit(e, s)
  BY DEF NumberInv
<1>1. \A d \in End : /\ outPkgs[d] = <<>> /\ line[d] = <<>> /\ rd[d] = NoPkg
                     /\ got[d][s] = <<>> /\ sent[d][s] = 0 /\ packageIndex[d][s] = 0
                     /\ dispatchedPackageIndex[d][s] = 0
  BY DEF Init, All
<1>2. \A c \in Caller : pc[c].at = "idle"
  BY DEF Init, Idle
<1>3. Counted(e, s)
  BY <1>1, <1>2 DEF Counted
<1>4. Linked(e, s)
  <2>1. /\ Held(Peer(e)) = <<>> /\ line[e] = <<>> /\ PkgsOf(outPkgs[e]) = <<>> /\ DOMAIN <<>> = {}
        /\ sent[e][s] = 0 /\ got[Peer(e)][s] = <<>> /\ dispatchedPackageIndex[Peer(e)][s] = 0
    BY <1>1, Peers DEF Held, PkgsOf
  <2>2. AnswersOf(Peer(e)) = {}
    <3>1. line[Peer(e)] = <<>> /\ PkgsOf(outPkgs[Peer(e)]) = <<>> /\ DOMAIN <<>> = {}
      BY <1>1, Peers DEF PkgsOf
    <3> QED BY <3>1 DEF AnswersOf, Range
  <2>3. Latest(<<>>) = 0 /\ Reached(<<>>, <<>>, s) = 0
    BY DEF Latest, Reached
  <2> QED BY <2>1, <2>2, <2>3 DEF Linked, Link
<1> QED BY <1>1, <1>3, <1>4 DEF NumbersFit

LEMMA NumberSame ==
  ASSUME TypeOK, NumberInv, UNCHANGED vars
  PROVE  NumberInv'
<1>1. UNCHANGED <<sess, packageIndex, pc, outPkgs, line, rd, dispatchedPackageIndex, sent, got, broken, again, raced>>
  BY DEF vars, sendVars, histVars
<1>2. \A d \in End, t \in Session, r \in BOOLEAN : /\ Part(line'[d], line[d], t, r)
                                                   /\ Part(PkgsOf(outPkgs'[d]), PkgsOf(outPkgs[d]), t, r)
                                                   /\ Part(PkgsOf(outPkgs[d]), PkgsOf(outPkgs'[d]), t, r)
  BY <1>1, PartSame
<1> QED BY <1>1, <1>2, NumberQuiet

\* A second thread at a session is noted when it comes.
LEMMA InsideStep == UartInv /\ OneInside /\ [Next]_vars => OneInside'
<1> SUFFICES ASSUME UartInv, OneInside, [Next]_vars PROVE OneInside'
  OBVIOUS
<1>1. TypeOK
  BY UartParts
<1>2. ASSUME NEW c \in Caller, NEW t \in Session, SendUARTData(c, t) PROVE OneInside'
  <2> DEFINE x == EndOf(c)
  <2>1. /\ \A b \in Caller : b # c => pc'[b] = pc[b]
        /\ pc'[c].s = t /\ x \in End
    BY <1>1, <1>2 DEF SendUARTData, TypeOK, EndOf, End
  <2>2. raced' = IF Inside(x, t, c) THEN [raced EXCEPT ![x] = @ \cup {t}] ELSE raced
    BY <1>2 DEF SendUARTData
  <2>3. \A d \in End : raced[d] \subseteq raced'[d]
    BY <1>1, <2>1, <2>2 DEF TypeOK
  <2>4. \A b \in Caller : b # c /\ EndOf(b) = x /\ pc[b].s = t => t \in raced'[x]
    <3>1. Inside(x, t, c) => t \in raced'[x]
      BY <1>1, <2>1, <2>2 DEF TypeOK
    <3> QED BY <3>1 DEF Inside
  <2>5. ASSUME NEW a \in Caller, NEW b \in Caller, EndOf(a) = EndOf(b), a # b,
               pc'[a].at # "idle", pc'[b].at # "idle", pc'[a].s = pc'[b].s
        PROVE  pc'[a].s \in raced'[EndOf(a)]
    <3>1. CASE a = c
      BY <2>1, <2>4, <2>5, <3>1
    <3>2. CASE b = c
      BY <2>1, <2>4, <2>5, <3>2
    <3>3. CASE a # c /\ b # c
      <4>1. pc[a].s \in raced[EndOf(a)] /\ EndOf(a) \in End
        BY <2>1, <2>5, <3>3 DEF OneInside, EndOf, End
      <4> QED BY <2>1, <2>3, <3>3, <4>1
    <3> QED BY <3>1, <3>2, <3>3
  <2> QED BY <2>5 DEF OneInside
<1>3. ASSUME NEW c \in Caller, NumberPackage(c) \/ \E more \in BOOLEAN : AddPackage(c, more) PROVE OneInside'
  <2>1. /\ raced' = raced /\ pc[c].at # "idle" /\ \A b \in Caller : b # c => pc'[b] = pc[b]
        /\ pc'[c].at = "idle" \/ pc'[c].s = pc[c].s
    BY <1>1, <1>3 DEF NumberPackage, AddPackage, histVars, TypeOK, Idle
  <2> QED BY <2>1 DEF OneInside
<1>4. CASE UNCHANGED <<pc, raced>>
  BY <1>4 DEF OneInside
<1>5. ASSUME NEW e \in End, WriteStep(e) PROVE UNCHANGED <<pc, raced>>
  BY <1>5 DEF WriteStep, WriteRequested, WriteTimeout, SendPkgInUARTOutMap, histVars
<1>6. ASSUME NEW e \in End, ReadStep(e) \/ Lose(e) PROVE UNCHANGED <<pc, raced>>
  BY <1>6 DEF ReadStep, ValidateUartPacket, DispatchDuplicate, DispatchPackageData, DispatchFail, Lose,
              sendVars, histVars
<1>7. ASSUME NEW e \in End, NEW s \in Session, SessionStep(e, s) PROVE UNCHANGED <<pc, raced>>
  BY <1>7 DEF SessionStep, FreeSession, StopSession, WorkerRefuses, sendVars, histVars
<1>8. ASSUME NEW s \in Session, ConnectDaemon(s) PROVE UNCHANGED <<pc, raced>>
  BY <1>8 DEF ConnectDaemon, NewSession, sendVars, histVars
<1>9. ReadFails \/ UNCHANGED vars => UNCHANGED <<pc, raced>>
  BY DEF ReadFails, vars, sendVars, histVars
<1> QED BY <1>2, <1>3, <1>4, <1>5, <1>6, <1>7, <1>8, <1>9 DEF Next, CallerStep

\* Every step keeps the numbers.
LEMMA NumberStep == OneInside /\ UartInv /\ OrderInv /\ NumberInv /\ [Next]_vars => NumberInv'
<1> SUFFICES ASSUME OneInside, UartInv, OrderInv, NumberInv, [Next]_vars PROVE NumberInv'
  OBVIOUS
<1>1. CASE UNCHANGED vars
  BY <1>1, NumberSame, UartParts
<1>2. ASSUME NEW c \in Caller, CallerStep(c) PROVE NumberInv'
  BY <1>2, NumberCounts, NumberAdds DEF CallerStep
<1>3. ASSUME NEW e \in End, WriteStep(e) PROVE NumberInv'
  <2>1. PICK bad \in Unwritten(e) : \/ \E late \in SUBSET Waiting(e) : WriteRequested(e, late, bad)
                                   \/ WriteTimeout(e, bad)
    BY <1>3 DEF WriteStep
  <2>2. \E late \in SUBSET Waiting(e), woken \in BOOLEAN : SendPkgInUARTOutMap(e, late, bad, woken)
    BY <2>1 DEF WriteRequested, WriteTimeout, AllLate
  <2> QED BY <2>2, NumberPass
<1>4. ASSUME NEW e \in End, ReadStep(e) PROVE NumberInv'
  BY <1>4, NumberReads, NumberDuplicate, NumberDispatches, NumberFails DEF ReadStep
<1>5. ASSUME NEW e \in End, Lose(e) PROVE NumberInv'
  BY <1>5, NumberLoses
<1>6. ASSUME NEW e \in End, NEW s \in Session, SessionStep(e, s) PROVE NumberInv'
  BY <1>6, NumberEnds DEF SessionStep
<1>7. ASSUME NEW s \in Session, ConnectDaemon(s) PROVE NumberInv'
  BY <1>7, NumberConnects
<1>8. CASE ReadFails
  <2>1. cur \in Session /\ "host" \in End
    BY <1>8, UartParts DEF ReadFails, TypeOK, End
  <2> QED BY <1>8, <2>1, NumberEnds
<1> QED BY <1>1, <1>2, <1>3, <1>4, <1>5, <1>6, <1>7, <1>8 DEF Next

LEMMA UartAlways == Spec => [](UartInv /\ OrderInv /\ NumberInv)
<1> DEFINE I == OneInside /\ UartInv /\ OrderInv /\ NumberInv
<1>1. Init => I
  <2>1. Init => OneInside
    BY DEF Init, Idle, OneInside
  <2> QED BY <2>1, UartFirst, OrderFirst, NumberFirst
<1>2. I /\ [Next]_vars => I'
  BY UartStep, OrderStep, NumberStep, InsideStep
<1> QED BY <1>1, <1>2, PTL DEF Spec

\* For any number of threads that send: payloads are dispatched once and in the order
\* they came into outPkgs, whatever the line loses and however often answers are late;
\* and without a gap, as long as the sender keeps the session and no two of its threads
\* have sent to it at a time.
THEOREM UartInOrder == Spec => []InOrder
<1>1. ASSUME OrderInv, NumberInv PROVE InOrder
  <2>1. OnceInOrder
    BY <1>1 DEF OrderInv, Given, OnceInOrder
  <2>2. ASSUME NEW e \in End, NEW s \in Session, Whole(Peer(e), s)
        PROVE  \A k \in DOMAIN got[e][s] : got[e][s][k] = k
    <3>1. Peer(e) \in End /\ Peer(Peer(e)) = e
      BY Peers
    <3>2. Linked(Peer(e), s)
      BY <1>1, <2>2, <3>1 DEF NumberInv, NumbersFit
    <3> QED BY <3>1, <3>2 DEF Linked, Link
  <2> QED BY <2>1, <2>2 DEF InOrder, NoGap
<1> QED BY <1>1, UartAlways, PTL

\* For any number of threads that send: a payload that is in outPkgs no more was
\* dispatched or is about to be, as long as the sender keeps the session and no two of
\* its threads have sent to it at a time.
THEOREM UartAckedIsDispatched == Spec => []AckedIsDispatched
<1>1. ASSUME UartInv, NumberInv PROVE AckedIsDispatched
  <2> SUFFICES ASSUME NEW e \in End, NEW s \in Session, Whole(e, s), NEW v \in 1 .. sent[e][s]
               PROVE  \/ \E i \in DOMAIN outPkgs[e] : outPkgs[e][i].pkg.id = s /\ outPkgs[e][i].pkg.val = v
                      \/ rd[Peer(e)] # NoPkg /\ rd[Peer(e)].id = s /\ rd[Peer(e)].val = v
                      \/ \E k \in DOMAIN got[Peer(e)][s] : got[Peer(e)][s][k] = v
    BY DEF AckedIsDispatched
  <2> DEFINE d == Peer(e)
             H == Held(d)
             g == got[d][s]
             m == Reached(H, g, s)
             Q == PkgsOf(outPkgs[e])
             n == sent[e][s]
  <2>1. TypeOK /\ d \in End
    BY <1>1, UartParts, Peers
  <2>2. /\ H \in Seq(Package) /\ g \in Seq(Nat) /\ Latest(g) \in Nat /\ n \in Nat /\ v \in Nat
        /\ outPkgs[e] \in Seq(Entries)
    BY <2>1, FlowTypes
  <2>3. m \in Nat
    BY <2>2, LinkTypes
  <2>4. Linked(e, s)
    BY <1>1 DEF NumberInv, NumbersFit
  <2>5. /\ \A w \in m + 1 .. n : \E i \in DOMAIN Q : Q[i].id = s /\ ~IsResponse(Q[i]) /\ Q[i].val = w
        /\ m <= Latest(g) + 1 /\ \A k \in DOMAIN g : g[k] = k
    BY <2>4 DEF Linked, Link
  <2>6. DOMAIN Q = DOMAIN outPkgs[e] /\ \A i \in DOMAIN outPkgs[e] : Q[i] = outPkgs[e][i].pkg
    BY <2>2, PkgsAt
  <2>7. ASSUME v <= Latest(g) PROVE \E k \in DOMAIN g : g[k] = v
    <3>1. g # <<>> /\ Latest(g) = g[Len(g)] /\ Len(g) \in DOMAIN g
      BY <2>2, <2>7 DEF Latest
    <3>2. Latest(g) = Len(g)
      BY <2>5, <3>1
    <3>3. v \in DOMAIN g
      BY <2>2, <2>7, <3>2
    <3> QED BY <2>5, <3>3
  <2>8. m = Latest(g) \/ (rd[d] # NoPkg /\ rd[d].id = s /\ rd[d].val = m)
    <3>1. CASE rd[d] = NoPkg
      BY <3>1 DEF Held, Reached
    <3>2. CASE rd[d] # NoPkg
      <4>1. H # <<>> /\ H[1] = rd[d]
        BY <3>2 DEF Held
      <4> QED BY <3>2, <4>1 DEF Reached
    <3> QED BY <3>1, <3>2
  <2> HIDE DEF H, g, m, Q, n
  <2>9. CASE v > m
    <3>1. v \in m + 1 .. n
      BY <2>2, <2>3, <2>9 DEF n
    <3>2. \E i \in DOMAIN Q : Q[i].id = s /\ Q[i].val = v
      BY <2>5, <3>1
    <3> QED BY <2>6, <3>2
  <2>10. CASE v = m
    <3>1. CASE m = Latest(g)
      <4>1. v <= Latest(g)
        BY <2>2, <2>10, <3>1
      <4> QED BY <2>7, <4>1 DEF g
    <3> QED BY <2>8, <2>10, <3>1
  <2>11. CASE v < m
    <3>1. v <= Latest(g)
      BY <2>2, <2>3, <2>5, <2>11
    <3> QED BY <2>7, <3>1 DEF g
  <2> QED BY <2>2, <2>3, <2>9, <2>10, <2>11
<1> QED BY <1>1, UartAlways, PTL
=============================================================================
