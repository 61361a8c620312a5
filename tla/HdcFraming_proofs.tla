-------------------------- MODULE HdcFraming_proofs --------------------------
(***************************************************************************)
(* Proofs about HdcFraming, for any number of senders, any packets, any    *)
(* buffer sizes and any splitting of the stream: FramingInv is an          *)
(* inductive invariant.                                                    *)
(***************************************************************************)
EXTENDS HdcFraming, SequenceTheorems, TLAPS

\* The sizes of packets.
LEMMA TotalType ==
    ASSUME NEW p \in Packet
    PROVE  /\ Total(p) \in Nat /\ Total(p) >= HeadSize /\ HeadSize \in Nat /\ HeadSize > 0
           /\ p.kind \in Kind
BY FramingAssumption DEF Total

\* The ends of the packets of the stream are positions.
LEMMA EndType ==
    ASSUME TypeOK, Len(start) = Len(sent), NEW n \in Nat, n <= Len(sent)
    PROVE  End(n) \in Nat
<1>1. CASE n = 0
  BY <1>1 DEF End
<1>2. CASE n # 0
  <2>1. n \in 1 .. Len(sent) /\ start[n] \in Nat /\ sent[n] \in Packet
    BY <1>2 DEF TypeOK
  <2>2. QED
    BY <1>2, <2>1, TotalType DEF End
<1>3. QED
  BY <1>1, <1>2

\* The initial states.
LEMMA InitFraming == Init => FramingInv
<1> SUFFICES ASSUME Init PROVE FramingInv
  OBVIOUS
<1>1. TypeOK
  <2>1. ioBuf \in [1 .. BufSize -> Nat \X Nat]
    BY DEF Init, NoByte
  <2>2. /\ sent \in Seq(Packet) /\ start \in Seq(Nat) /\ got \in Seq(Nat)
        /\ written \in Seq(Nat \X Nat)
    BY DEF Init
  <2>3. QED
    BY <2>1, <2>2 DEF Init, TypeOK
<1>2. Writing /\ Adjacent /\ Bytes
  BY DEF Init, Writing, Adjacent, Bytes, End
<1>3. InOrder /\ NoFalseAlarm /\ InvalidStops /\ NothingLeftWaiting /\ InBuffer
  BY FramingAssumption DEF Init, InOrder, NoFalseAlarm, InvalidStops,
         NothingLeftWaiting, InBuffer
<1>4. Received /\ GotSent
  BY DEF Init, Received, GotSent, End
<1>5. QED
  BY <1>1, <1>2, <1>3, <1>4 DEF FramingInv

-----------------------------------------------------------------------------
(* The sending side *)

\* What the senders leave behind in the stream is fine.
StreamInv == Writing /\ Adjacent /\ Bytes

\* A step that leaves the senders' variables alone, and does not mend the
\* connection, keeps the stream.
LEMMA StreamSame ==
    ASSUME StreamInv, UNCHANGED sendVars, sock' = "up" => sock = "up"
    PROVE  StreamInv' /\ \A n : End(n)' = End(n)
<1>1. UNCHANGED <<pc, pkt, num, off, sent, start, written>>
  BY DEF sendVars
<1>2. \A n : End(n)' = End(n)
  BY <1>1 DEF End
<1>3. Writing'
  BY <1>1, <1>2 DEF StreamInv, Writing
<1>4. Adjacent' /\ Bytes'
  BY <1>1, <1>2 DEF StreamInv, Adjacent, Bytes
<1>5. QED
  BY <1>2, <1>3, <1>4 DEF StreamInv

\* WriteBegin adds a packet at the end of the stream.
LEMMA BeginStream ==
    ASSUME TypeOK, StreamInv, NEW t \in Sender, WriteBegin(t)
    PROVE  /\ StreamInv'
           /\ sent' \in Seq(Packet) /\ start' \in Seq(Nat)
           /\ Len(sent') = Len(sent) + 1
           /\ \A n \in 1 .. Len(sent) : sent'[n] = sent[n]
           /\ \A n \in 0 .. Len(sent) : End(n)' = End(n)
<1> PICK N \in Nat : N = Len(sent)
  BY DEF TypeOK
<1>1. /\ pc[t] = "lock" /\ sock = "up"
      /\ \A u \in Sender : pc[u] # "write"
      /\ pc' = [pc EXCEPT ![t] = "write"]
      /\ num' = [num EXCEPT ![t] = N + 1]
      /\ off' = [off EXCEPT ![t] = 0]
      /\ sent' = Append(sent, pkt[t])
      /\ start' = Append(start, Len(written))
      /\ UNCHANGED <<pkt, written, sock>>
  BY DEF WriteBegin, MutexFree
<1>2. /\ sent' \in Seq(Packet) /\ start' \in Seq(Nat)
      /\ N \in Nat /\ Len(start) = N /\ Len(sent') = N + 1 /\ Len(start') = N + 1
      /\ \A n \in 1 .. N : sent'[n] = sent[n] /\ start'[n] = start[n]
      /\ sent'[N + 1] = pkt[t] /\ start'[N + 1] = Len(written)
      /\ Len(written) \in Nat
  BY <1>1 DEF TypeOK, StreamInv, Adjacent
<1>3. \A n \in 0 .. N : End(n)' = End(n)
  BY <1>2 DEF End
<1>4. Len(written) = End(N)
  BY <1>1 DEF StreamInv, Writing
<1>5. Total(pkt[t]) \in Nat /\ End(N + 1)' = Len(written) + Total(pkt[t])
  <2>1. pkt[t] \in Packet
    BY DEF TypeOK
  <2>2. End(N + 1)' = start'[N + 1] + Total(sent'[N + 1])
    BY <1>2 DEF End, Total
  <2>3. QED
    BY <1>2, <2>1, <2>2, TotalType
<1>6. Writing'
  <2>1. \A u \in Sender : pc'[u] = "write" => u = t
    BY <1>1 DEF TypeOK
  <2>2. /\ Len(sent') > 0 /\ num'[t] = Len(sent') /\ pkt'[t] = sent'[Len(sent')]
        /\ off'[t] <= Total(pkt'[t])
        /\ Len(written') = start'[Len(sent')] + off'[t]
    BY <1>1, <1>2, <1>5 DEF TypeOK
  <2>3. pc'[t] = "write"
    BY <1>1 DEF TypeOK
  <2>4. Len(written') <= End(Len(sent))'
    <3>1. End(Len(sent))' = End(N + 1)'
      BY <1>2 DEF End
    <3>2. QED
      BY <1>1, <1>2, <1>5, <3>1
  <2>5. QED
    BY <2>1, <2>2, <2>3, <2>4 DEF Writing
<1>7. Adjacent'
  <2>1. \A n \in 1 .. N + 1 : start'[n] = End(n - 1)' /\ start'[n] <= Len(written')
    <3> SUFFICES ASSUME NEW n \in 1 .. N + 1
                 PROVE  start'[n] = End(n - 1)' /\ start'[n] <= Len(written')
      OBVIOUS
    <3>1. CASE n = N + 1
      BY <1>1, <1>2, <1>3, <1>4, <3>1
    <3>2. CASE n \in 1 .. N
      <4>1. start[n] = End(n - 1) /\ start[n] <= Len(written)
        BY <3>2 DEF StreamInv, Adjacent
      <4>2. End(n - 1)' = End(n - 1)
        BY <1>2, <1>3, <3>2
      <4>3. QED
        BY <1>1, <1>2, <3>2, <4>1, <4>2
    <3>3. QED
      BY <1>2, <3>1, <3>2
  <2>2. \A n, m \in 1 .. N + 1 : m < n => End(m)' <= start'[n]
    <3> SUFFICES ASSUME NEW n \in 1 .. N + 1, NEW m \in 1 .. N + 1, m < n
                 PROVE  End(m)' <= start'[n]
      OBVIOUS
    <3>1. m \in 1 .. N /\ End(m)' = End(m) /\ End(m) \in Nat
      BY <1>2, <1>3, EndType
    <3>2. CASE n \in 1 .. N
      BY <1>2, <3>1, <3>2 DEF StreamInv, Adjacent
    <3>3. CASE n = N + 1
      <4>1. CASE m = N
        BY <1>2, <1>4, <3>1, <3>3, <4>1
      <4>2. CASE m < N
        <5>1. N \in 1 .. N /\ End(m) <= start[N] /\ start[N] <= Len(written)
          BY SMTT(30), <1>2, <3>1, <4>2 DEF StreamInv, Adjacent
        <5>2. start[N] \in Nat
          BY <1>2, <5>1 DEF TypeOK
        <5>3. QED
          BY <1>2, <3>1, <3>3, <5>1, <5>2
      <4>3. QED
        BY <1>2, <3>1, <4>1, <4>2
    <3>4. QED
      BY <1>2, <3>2, <3>3
  <2>3. QED
    BY <1>2, <2>1, <2>2 DEF Adjacent
<1>8. Bytes'
  <2> SUFFICES ASSUME NEW n \in 1 .. N + 1, NEW i \in 1 .. Total(sent'[n]),
                      start'[n] + i <= Len(written')
               PROVE  written'[start'[n] + i] = <<n, i>>
    BY <1>2 DEF Bytes, Total
  <2>1. CASE n = N + 1
    BY <1>1, <1>2, <2>1
  <2>2. CASE n \in 1 .. N
    BY <1>1, <1>2, <2>2 DEF StreamInv, Bytes
  <2>3. QED
    BY <1>2, <2>1, <2>2
<1>9. QED
  BY <1>2, <1>3, <1>6, <1>7, <1>8 DEF StreamInv

\* What WritePiece does to the stream.
LEMMA PieceEffect ==
    ASSUME TypeOK, NEW t \in Sender, NEW k \in Nat, WritePiece(t, k)
    PROVE  /\ k >= 1 /\ k <= Total(pkt[t]) - off[t]
           /\ written' \in Seq(Nat \X Nat)
           /\ Len(written') = Len(written) + k
           /\ \A j \in 1 .. Len(written) : written'[j] = written[j]
           /\ \A i \in 1 .. k : written'[Len(written) + i] = <<num[t], off[t] + i>>
           /\ off' = [off EXCEPT ![t] = off[t] + k]
           /\ pc[t] = "write" /\ sock = "up"
           /\ UNCHANGED <<pc, pkt, num, sent, start, sock>>
<1> DEFINE piece == [i \in 1 .. k |-> <<num[t], off[t] + i>>]
<1>1. /\ pc[t] = "write" /\ sock = "up"
      /\ k \in 1 .. Total(pkt[t]) - off[t]
      /\ written' = written \o piece
      /\ off' = [off EXCEPT ![t] = off[t] + k]
      /\ UNCHANGED <<pc, pkt, num, sent, start, sock>>
  BY DEF WritePiece
<1>2. num[t] \in Nat /\ off[t] \in Nat /\ written \in Seq(Nat \X Nat)
  BY DEF TypeOK
<1>3. piece \in Seq(Nat \X Nat) /\ Len(piece) = k
  <2>1. \A i \in 1 .. k : <<num[t], off[t] + i>> \in Nat \X Nat
    BY <1>2
  <2>2. piece \in [1 .. k -> Nat \X Nat]
    BY <2>1
  <2> HIDE DEF piece
  <2>3. piece \in Seq(Nat \X Nat)
    BY <2>2, SeqDef
  <2>4. 1 .. Len(piece) = 1 .. k /\ Len(piece) \in Nat
    BY <2>2, <2>3, LenProperties
  <2>5. k \in 1 .. k
    BY <1>1, <1>2
  <2>6. k \in 1 .. Len(piece)
    BY <2>4, <2>5
  <2>7. Len(piece) \in 1 .. Len(piece)
    BY <2>4, <2>6
  <2>8. Len(piece) \in 1 .. k
    BY <2>4, <2>7
  <2>9. Len(piece) = k
    BY <2>4, <2>6, <2>8
  <2>10. QED
    BY <2>3, <2>9 DEF piece
<1> HIDE DEF piece
<1>4. /\ written' \in Seq(Nat \X Nat)
      /\ Len(written') = Len(written) + k
      /\ \A j \in 1 .. Len(written) : written'[j] = written[j]
      /\ \A i \in 1 .. k : written'[Len(written) + i] = piece[i]
  <2>1. /\ written \o piece \in Seq(Nat \X Nat)
        /\ Len(written \o piece) = Len(written) + Len(piece)
        /\ \A i \in 1 .. Len(written) + Len(piece) : (written \o piece)[i] =
             IF i <= Len(written) THEN written[i] ELSE piece[i - Len(written)]
    BY <1>2, <1>3, ConcatProperties
  <2>2. Len(written) \in Nat /\ k \in Nat
    BY <1>2
  <2>3. \A j \in 1 .. Len(written) : (written \o piece)[j] = written[j]
    BY <1>3, <2>1, <2>2
  <2>4. \A i \in 1 .. k : (written \o piece)[Len(written) + i] = piece[i]
    <3> SUFFICES ASSUME NEW i \in 1 .. k
                 PROVE  (written \o piece)[Len(written) + i] = piece[i]
      OBVIOUS
    <3>1. /\ Len(written) + i \in 1 .. Len(written) + Len(piece)
          /\ ~(Len(written) + i <= Len(written)) /\ Len(written) + i - Len(written) = i
      BY <1>3, <2>2
    <3>2. QED
      BY <2>1, <3>1
  <2>5. QED
    BY <1>1, <1>3, <2>1, <2>3, <2>4
<1>5. \A i \in 1 .. k : piece[i] = <<num[t], off[t] + i>>
  BY DEF piece
<1>6. QED
  BY <1>1, <1>4, <1>5

\* WritePiece keeps the stream in order, because it has the mutex.
LEMMA PieceStream ==
    ASSUME TypeOK, StreamInv, NEW t \in Sender, NEW k \in Nat, WritePiece(t, k)
    PROVE  StreamInv' /\ \A n : End(n)' = End(n)
<1> PICK N \in Nat : N = Len(sent)
  BY DEF TypeOK
<1> PICK L \in Nat : L = Len(written)
  BY DEF TypeOK
<1>1. /\ k >= 1 /\ k <= Total(pkt[t]) - off[t]
      /\ Len(written') = L + k
      /\ \A j \in 1 .. L : written'[j] = written[j]
      /\ \A i \in 1 .. k : written'[L + i] = <<num[t], off[t] + i>>
      /\ off' = [off EXCEPT ![t] = off[t] + k]
      /\ pc[t] = "write" /\ sock = "up"
      /\ UNCHANGED <<pc, pkt, num, sent, start, sock>>
  BY SMTT(30), PieceEffect
<1>2. \A n : End(n)' = End(n)
  BY <1>1 DEF End
<1>3. /\ N > 0 /\ num[t] = N /\ pkt[t] = sent[N] /\ L = start[N] + off[t]
      /\ N \in 1 .. N /\ start[N] \in Nat /\ off[t] \in Nat
      /\ sent[N] \in Packet /\ Total(sent[N]) \in Nat
      /\ \A u \in Sender : pc[u] = "write" => u = t
  <2>1. /\ N > 0 /\ num[t] = N /\ pkt[t] = sent[N] /\ L = start[N] + off[t]
        /\ \A u \in Sender : pc[u] = "write" => u = t
    BY <1>1 DEF StreamInv, Writing
  <2>2. N \in 1 .. N /\ Len(start) = N
    BY <2>1 DEF StreamInv, Adjacent
  <2>3. start[N] \in Nat /\ off[t] \in Nat /\ sent[N] \in Packet
    BY <2>2 DEF TypeOK
  <2>4. QED
    BY <2>1, <2>2, <2>3, TotalType
<1>4. End(N) = start[N] + Total(sent[N])
  BY <1>3 DEF End
<1>5. Writing'
  <2>1. off'[t] = off[t] + k
    BY <1>1 DEF TypeOK
  <2>2. /\ Len(sent') > 0 /\ num'[t] = Len(sent') /\ pkt'[t] = sent'[Len(sent')]
        /\ off'[t] <= Total(pkt'[t])
        /\ Len(written') = start'[Len(sent')] + off'[t]
    BY <1>1, <1>3, <2>1
  <2>3. Len(written') <= End(Len(sent))'
    <3>1. End(Len(sent))' = End(N)
      BY <1>1, <1>2
    <3>2. QED
      BY <1>1, <1>3, <1>4, <3>1
  <2>4. QED
    BY <1>1, <1>3, <2>2, <2>3 DEF Writing
<1>6. Adjacent'
  <2>1. \A n \in 1 .. N : start[n] <= L + k
    <3> SUFFICES ASSUME NEW n \in 1 .. N PROVE start[n] <= L + k
      OBVIOUS
    <3>1. start[n] <= L /\ start[n] \in Nat
      BY DEF StreamInv, Adjacent, TypeOK
    <3>2. QED
      BY <1>1, <3>1
  <2>2. QED
    BY <1>1, <1>2, <2>1 DEF StreamInv, Adjacent
<1>7. Bytes'
  <2> SUFFICES ASSUME NEW n \in 1 .. N, NEW i \in 1 .. Total(sent[n]),
                      start[n] + i <= L + k
               PROVE  written'[start[n] + i] = <<n, i>>
    BY <1>1 DEF Bytes, Total
  <2>0. start[n] \in Nat /\ sent[n] \in Packet /\ i \in Nat /\ i >= 1
        /\ Total(sent[n]) \in Nat
    <3>1. start[n] \in Nat /\ sent[n] \in Packet
      BY DEF TypeOK, StreamInv, Adjacent
    <3>2. QED
      BY <3>1, TotalType
  <2>1. CASE start[n] + i <= L
    <3>1. written[start[n] + i] = <<n, i>>
      BY <2>1 DEF StreamInv, Bytes
    <3>2. start[n] + i \in 1 .. L
      BY <2>0, <2>1
    <3>3. QED
      BY <1>1, <3>1, <3>2
  <2>2. CASE start[n] + i > L
    <3>1. n = N
      <4> SUFFICES ASSUME n < N PROVE FALSE
        OBVIOUS
      <4>1. End(n) <= start[N]
        BY <1>3 DEF StreamInv, Adjacent
      <4>2. End(n) = start[n] + Total(sent[n])
        BY DEF End
      <4>3. QED
        BY <1>3, <2>0, <2>2, <4>1, <4>2
    <3> DEFINE j == i - off[t]
    <3>2. start[n] + i = L + j /\ off[t] + j = i /\ j \in 1 .. k
      <4>1. start[n] = start[N] /\ start[N] \in Nat /\ off[t] \in Nat /\ i \in Nat
        BY <1>3, <2>0, <3>1
      <4>2. L = start[N] + off[t]
        BY <1>3
      <4>3. QED
        BY SMTT(30), <2>2, <4>1, <4>2
    <3>3. written'[L + j] = <<num[t], off[t] + j>>
      BY <1>1, <3>2
    <3>4. off[t] + j = i
      BY <3>2
    <3>5. QED
      BY <1>3, <3>1, <3>2, <3>3, <3>4
  <2>3. QED
    BY <2>0, <2>1, <2>2
<1>8. QED
  BY <1>2, <1>5, <1>6, <1>7 DEF StreamInv

\* SendByProtocol and WriteEnd write nothing.
LEMMA IdleStream ==
    ASSUME TypeOK, StreamInv, NEW t \in Sender,
           (\E p \in Packet : SendByProtocol(t, p)) \/ WriteEnd(t)
    PROVE  StreamInv' /\ \A n : End(n)' = End(n)
<1>1. /\ UNCHANGED <<num, off, sent, start, written, sock>>
      /\ \A u \in Sender : pc'[u] = "write" => pc[u] = "write" /\ pkt'[u] = pkt[u]
      /\ sock = "up" /\ (\A u \in Sender : pc'[u] # "write")
           => \/ \A u \in Sender : pc[u] # "write"
              \/ pc[t] = "write" /\ off[t] = Total(pkt[t])
  <2>1. CASE \E p \in Packet : SendByProtocol(t, p)
    BY <2>1 DEF SendByProtocol, TypeOK
  <2>2. CASE WriteEnd(t)
    BY <2>2 DEF WriteEnd, TypeOK
  <2>3. QED
    BY <2>1, <2>2
<1>2. \A n : End(n)' = End(n)
  BY <1>1 DEF End
<1>3. pc[t] = "write" /\ off[t] = Total(pkt[t]) => Len(written) = End(Len(sent))
  BY DEF StreamInv, Writing, End
<1>4. Writing'
  BY <1>1, <1>2, <1>3 DEF StreamInv, Writing
<1>5. Adjacent' /\ Bytes'
  BY <1>1, <1>2 DEF StreamInv, Adjacent, Bytes
<1>6. QED
  BY <1>2, <1>4, <1>5 DEF StreamInv

-----------------------------------------------------------------------------
(* The receiving side *)

RecvInv == /\ InOrder /\ NoFalseAlarm /\ InvalidStops /\ NothingLeftWaiting
           /\ InBuffer /\ Received /\ GotSent

\* What a sender appends to the stream does not concern the receiver.
LEMMA RecvSame ==
    ASSUME TypeOK, StreamInv, RecvInv, UNCHANGED <<recvVars, rxDead>>,
           Len(sent') \in Nat, Len(sent') >= Len(sent),
           \A n \in 1 .. Len(sent) : sent'[n] = sent[n],
           Len(written') \in Nat, Len(written') >= Len(written),
           \A j \in 1 .. Len(written) : written'[j] = written[j],
           \A n \in 0 .. Len(sent) : End(n)' = End(n)
    PROVE  RecvInv'
<1>1. UNCHANGED <<rx, rpos, ioBuf, availTailIndex, indexBuf, got, why, rxDead>>
  BY DEF recvVars
<1> PICK m \in Nat : m = Len(got)
  BY DEF TypeOK
<1> PICK N \in Nat : N = Len(sent)
  BY DEF TypeOK
<1>2. m <= N /\ Len(got') = m
  BY <1>1 DEF RecvInv, GotSent
<1>3. InOrder' /\ GotSent' /\ InBuffer'
  BY <1>1, <1>2 DEF RecvInv, InOrder, GotSent, InBuffer, TypeOK
<1>4. NoFalseAlarm'
  <2>1. ASSUME why = "check"
        PROVE  \E n \in 1 .. Len(sent') : n \in {m, m + 1} /\ sent'[n].kind # "ok"
    <3>1. PICK n \in 1 .. N : n \in {m, m + 1} /\ sent[n].kind # "ok"
      BY <2>1 DEF RecvInv, NoFalseAlarm
    <3>2. n \in 1 .. Len(sent') /\ sent'[n] = sent[n]
      BY <3>1
    <3>3. QED
      BY <3>1, <3>2
  <2>2. ASSUME why = "nobufs"
        PROVE  m < Len(sent') /\ Total(sent'[m + 1]) > BufSize
    <3>1. m < N /\ Total(sent[m + 1]) > BufSize
      BY <2>2 DEF RecvInv, NoFalseAlarm
    <3>2. sent'[m + 1] = sent[m + 1]
      BY <3>1
    <3>3. QED
      BY <3>1, <3>2
  <2>3. QED
    BY <1>1, <1>2, <2>1, <2>2 DEF NoFalseAlarm
<1>5. InvalidStops'
  <2> SUFFICES ASSUME NEW k \in 1 .. m
               PROVE  \/ sent'[k].kind = "ok"
                      \/ sent'[k].kind = "refused" /\ k = m /\ rx' = "closed"
    BY <1>2 DEF InvalidStops
  <2>1. k <= N /\ sent'[k] = sent[k]
    BY <1>2
  <2>2. QED
    BY <1>1, <2>1 DEF RecvInv, InvalidStops
<1>6. NothingLeftWaiting'
  <2> SUFFICES ASSUME rx = "idle", ~rxDead, availTailIndex > HeadSize
               PROVE  m < Len(sent') /\ availTailIndex < Total(sent'[m + 1])
    BY <1>1, <1>2 DEF NothingLeftWaiting
  <2>1. m < N /\ availTailIndex < Total(sent[m + 1])
    BY DEF RecvInv, NothingLeftWaiting
  <2>2. sent'[m + 1] = sent[m + 1]
    BY <2>1
  <2>3. QED
    BY <2>1, <2>2
<1>7. Received'
  <2> SUFFICES ASSUME rx # "closed"
               PROVE  Received'
    BY <1>1 DEF Received
  <2>1. End(m)' = End(m) /\ End(Len(got)) = End(m) /\ End(m) \in Nat
    BY <1>2, EndType DEF StreamInv, Adjacent
  <2>2. End(Len(got))' = End(m)
    BY <1>1, <2>1
  <2>3. /\ rpos <= Len(written) /\ rpos = End(m) + availTailIndex
        /\ \A i \in 1 .. availTailIndex : ioBuf[indexBuf + i] = written[End(m) + i]
        /\ rx = "idle" => indexBuf = 0
        /\ why = "open"
    BY <2>1 DEF RecvInv, Received
  <2>4. availTailIndex \in Nat /\ rpos \in Nat /\ Len(written) \in Nat
    BY DEF TypeOK
  <2>5. \A i \in 1 .. availTailIndex : written'[End(m) + i] = written[End(m) + i]
    <3> SUFFICES ASSUME NEW i \in 1 .. availTailIndex
                 PROVE  written'[End(m) + i] = written[End(m) + i]
      OBVIOUS
    <3>1. End(m) + i \in 1 .. Len(written)
      BY <2>1, <2>3, <2>4
    <3>2. QED
      BY <3>1
  <2>6. rpos <= Len(written')
    BY <2>3, <2>4
  <2>7. QED
    BY <1>1, <2>2, <2>3, <2>5, <2>6 DEF Received
<1>8. QED
  BY <1>3, <1>4, <1>5, <1>6, <1>7 DEF RecvInv

\* Where FetchIOBuf looks, the next packet of the stream begins, and as much
\* of it as has come lies there.
LEMMA Aligned ==
    ASSUME TypeOK, StreamInv, RecvInv, rx # "closed", availTailIndex > 0
    PROVE  /\ Len(got) + 1 \in 1 .. Len(sent)
           /\ \A l \in Nat : l >= 1 /\ l <= availTailIndex
                              /\ l <= Total(sent[Len(got) + 1])
                => PacketAt(l) = Len(got) + 1
<1> DEFINE m == Len(got)
<1> DEFINE c == End(m)
<1>1. /\ m \in Nat /\ Len(sent) \in Nat /\ m <= Len(sent) /\ Len(written) \in Nat
      /\ availTailIndex \in Nat /\ rpos \in Nat
  BY DEF TypeOK, RecvInv, GotSent
<1>2. /\ c \in Nat /\ rpos <= Len(written) /\ rpos = c + availTailIndex
      /\ \A i \in 1 .. availTailIndex : ioBuf[indexBuf + i] = written[c + i]
  BY <1>1, EndType DEF RecvInv, Received, StreamInv, Adjacent
<1>3. m # Len(sent)
  <2> SUFFICES ASSUME m = Len(sent) PROVE FALSE
    OBVIOUS
  <2>1. Len(written) <= c
    BY DEF StreamInv, Writing
  <2>2. QED
    BY <1>1, <1>2, <2>1
<1>4. m + 1 \in 1 .. Len(sent)
  BY <1>1, <1>3
<1>5. start[m + 1] = c /\ sent[m + 1] \in Packet
  <2>1. start[m + 1] = End((m + 1) - 1)
    BY <1>4 DEF StreamInv, Adjacent
  <2>2. (m + 1) - 1 = m
    BY <1>1
  <2>3. QED
    BY <1>4, <2>1, <2>2 DEF TypeOK
<1>6. ASSUME NEW l \in Nat, l >= 1, l <= availTailIndex, l <= Total(sent[m + 1])
      PROVE  PacketAt(l) = m + 1
  <2>1. \A i \in 1 .. l : ioBuf[indexBuf + i] = <<m + 1, i>>
    <3> SUFFICES ASSUME NEW i \in 1 .. l PROVE ioBuf[indexBuf + i] = <<m + 1, i>>
      OBVIOUS
    <3>1. /\ i \in 1 .. availTailIndex /\ i \in 1 .. Total(sent[m + 1])
          /\ c + i <= Len(written)
      BY <1>1, <1>2, <1>5, <1>6, TotalType
    <3>2. written[start[m + 1] + i] = <<m + 1, i>>
      BY <1>4, <1>5, <3>1 DEF StreamInv, Bytes
    <3>3. QED
      BY <1>2, <1>5, <3>1, <3>2
  <2>2. ioBuf[indexBuf + 1] = <<m + 1, 1>>
    BY <1>6, <2>1
  <2>3. ioBuf[indexBuf + 1][1] = m + 1
    BY <2>2
  <2>4. QED
    BY <2>1, <2>3 DEF PacketAt
<1>7. QED
  BY <1>4, <1>6

\* What OnRead finds there.
LEMMA LookFacts ==
    ASSUME TypeOK, StreamInv, RecvInv, rx # "closed", Looks, NEW n \in Nat,
           n = Len(got) + 1
    PROVE  /\ n \in 1 .. Len(sent) /\ sent[n] \in Packet
           /\ Needed = Total(sent[n]) /\ Needed \in Nat
           /\ HeadWrong <=> sent[n].kind = "head"
           /\ ~HeadWrong /\ Enough => /\ Whole = n
                                      /\ BodyWrong <=> sent[n].kind = "body"
                                      /\ Refused <=> sent[n].kind = "refused"
<1>1. availTailIndex > HeadSize /\ availTailIndex \in Nat /\ HeadSize \in Nat
      /\ HeadSize > 0
  BY FramingAssumption DEF Looks, TypeOK
<1>2. n \in 1 .. Len(sent)
  BY <1>1, Aligned
<1>3. sent[n] \in Packet
  BY <1>2 DEF TypeOK
<1>4. Total(sent[n]) \in Nat /\ Total(sent[n]) >= HeadSize
  BY <1>3, TotalType
<1>5. \A l \in Nat : l >= 1 /\ l <= availTailIndex /\ l <= Total(sent[n])
                       => PacketAt(l) = n
  BY <1>1, Aligned
<1>6. PacketAt(HeadSize) = n
  BY <1>1, <1>4, <1>5
<1>7. Needed = Total(sent[n]) /\ (HeadWrong <=> sent[n].kind = "head")
  BY <1>2, <1>6 DEF Needed, HeadWrong
<1>8. ASSUME Enough PROVE Whole = n
  BY <1>1, <1>4, <1>5, <1>7, <1>8 DEF Enough, Whole
<1>9. ASSUME Whole = n
      PROVE  /\ BodyWrong <=> sent[n].kind = "body"
             /\ Refused <=> sent[n].kind = "refused"
  BY <1>2, <1>9 DEF BodyWrong, Refused
<1>10. QED
  BY <1>2, <1>3, <1>4, <1>7, <1>8, <1>9

\* While the receiver is open, every packet it has dispatched was good.
LEMMA OpenGood ==
    ASSUME TypeOK, RecvInv, rx # "closed", NEW k \in 1 .. Len(got)
    PROVE  k \in 1 .. Len(sent) /\ sent[k].kind = "ok"
<1>1. k <= Len(sent)
  BY DEF TypeOK, RecvInv, GotSent
<1>2. QED
  BY <1>1 DEF TypeOK, RecvInv, InvalidStops

\* A whole packet leaves the buffer.
LEMMA TakeRecv ==
    ASSUME TypeOK, StreamInv, RecvInv, TakePacket
    PROVE  RecvInv' /\ got' \in Seq(Nat) /\ availTailIndex' \in Nat /\ indexBuf' \in Nat
<1> PICK n \in Nat : n = Len(got) + 1
  BY DEF TypeOK
<1> PICK x \in Nat : x = Needed
  BY LookFacts DEF TakePacket
<1>1. /\ rx = "fetch" /\ Looks /\ ~HeadWrong /\ Enough /\ ~BodyWrong /\ ~Refused
      /\ got' = Append(got, Whole)
      /\ availTailIndex' = availTailIndex - x
      /\ indexBuf' = indexBuf + x
      /\ UNCHANGED <<sendVars, sock, rxDead, rx, rpos, ioBuf, why>>
  BY DEF TakePacket
<1>2. /\ n \in 1 .. Len(sent) /\ sent[n] \in Packet /\ x = Total(sent[n])
      /\ Whole = n /\ sent[n].kind # "head" /\ sent[n].kind # "body"
      /\ sent[n].kind # "refused"
  BY <1>1, LookFacts
<1>3. sent[n].kind = "ok"
  BY <1>2, TotalType DEF Kind
<1>4. /\ got' \in Seq(Nat) /\ Len(got') = n /\ got'[n] = n
      /\ \A k \in 1 .. Len(got) : got'[k] = got[k]
  BY <1>1, <1>2 DEF TypeOK
<1>5. /\ UNCHANGED <<sent, start, written>>
      /\ \A k : End(k)' = End(k)
  BY <1>1 DEF sendVars, End
<1>6. /\ x <= availTailIndex /\ availTailIndex \in Nat /\ indexBuf \in Nat
      /\ Len(got) \in Nat /\ Len(sent) \in Nat /\ rpos \in Nat
  BY <1>1 DEF Enough, TypeOK
<1>7. availTailIndex' \in Nat /\ indexBuf' \in Nat
  BY <1>1, <1>6
<1>8. GotSent' /\ InBuffer'
  BY <1>1, <1>2, <1>4, <1>5, <1>6 DEF GotSent, RecvInv, InBuffer
<1>9. InOrder'
  <2> SUFFICES ASSUME NEW k \in 1 .. n PROVE got'[k] = k /\ k <= Len(sent')
    BY <1>4 DEF InOrder
  <2>1. CASE k = n
    BY <1>2, <1>4, <1>5, <2>1
  <2>2. CASE k # n
    <3>1. k \in 1 .. Len(got)
      BY <1>6, <2>2
    <3>2. QED
      BY <1>4, <1>5, <3>1 DEF RecvInv, InOrder
  <2>3. QED
    BY <2>1, <2>2
<1>10. InvalidStops'
  <2> SUFFICES ASSUME NEW k \in 1 .. n PROVE sent'[k].kind = "ok"
    BY <1>4 DEF InvalidStops
  <2>1. CASE k = n
    BY <1>3, <1>5, <2>1
  <2>2. CASE k # n
    <3>1. k \in 1 .. Len(got)
      BY <1>6, <2>2
    <3>2. QED
      BY <1>1, <1>5, <3>1, OpenGood
  <2>3. QED
    BY <2>1, <2>2
<1>11. NoFalseAlarm'
  BY <1>1 DEF RecvInv, Received, NoFalseAlarm
<1>12. NothingLeftWaiting'
  BY <1>1 DEF NothingLeftWaiting
<1>13. Received'
  <2>0. UNCHANGED <<rx, rpos, ioBuf, why, written>>
    BY <1>1, <1>5
  <2> PICK c \in Nat : c = End(Len(got))
    BY <1>6, EndType DEF StreamInv, Adjacent, RecvInv, GotSent
  <2>1. /\ rpos <= Len(written) /\ rpos = c + availTailIndex
        /\ \A i \in 1 .. availTailIndex : ioBuf[indexBuf + i] = written[c + i]
        /\ why = "open"
    BY <1>1 DEF RecvInv, Received
  <2>2. End(n) = c + x
    <3>1. start[n] = End(n - 1) /\ n - 1 = Len(got)
      BY <1>2, <1>6 DEF StreamInv, Adjacent
    <3>2. n # 0
      BY <1>2
    <3>3. End(n) = start[n] + Total(sent[n])
      BY <3>2 DEF End
    <3>4. QED
      BY <1>2, <3>1, <3>3
  <2>3. End(Len(got))' = c + x
    BY <1>4, <1>5, <2>2
  <2>4. rpos' = (c + x) + availTailIndex'
    BY <1>1, <1>6, <2>0, <2>1
  <2>5. \A i \in 1 .. availTailIndex' : ioBuf'[indexBuf' + i] = written'[(c + x) + i]
    <3> SUFFICES ASSUME NEW i \in 1 .. availTailIndex'
                 PROVE  ioBuf[(indexBuf + x) + i] = written[(c + x) + i]
      BY <1>1, <2>0
    <3>1. x + i \in 1 .. availTailIndex
      BY <1>1, <1>6, <1>7
    <3>2. ioBuf[indexBuf + (x + i)] = written[c + (x + i)]
      BY <2>1, <3>1
    <3>3. indexBuf + (x + i) = (indexBuf + x) + i /\ c + (x + i) = (c + x) + i
      BY <1>6, <1>7
    <3>4. QED
      BY <3>2, <3>3
  <2>6. QED
    BY <1>1, <2>0, <2>1, <2>3, <2>4, <2>5 DEF Received
<1>14. QED
  BY <1>4, <1>7, <1>8, <1>9, <1>10, <1>11, <1>12, <1>13 DEF RecvInv

\* An invalid packet, or a refused one, ends the stream.
LEMMA DropRecv ==
    ASSUME TypeOK, StreamInv, RecvInv, DropStream
    PROVE  /\ RecvInv' /\ got' \in Seq(Nat) /\ availTailIndex' = 0
           /\ rx' = "closed" /\ rxDead' = TRUE /\ why' = "check"
           /\ sock' \in {"up", "closed", "broken"} /\ (sock' = "up" => sock = "up")
           /\ UNCHANGED <<sendVars, rpos, ioBuf, indexBuf>>
<1> PICK n \in Nat : n = Len(got) + 1
  BY DEF TypeOK
<1>1. /\ rx = "fetch" /\ Looks /\ (HeadWrong \/ (Enough /\ (BodyWrong \/ Refused)))
      /\ got' = IF ~HeadWrong /\ Refused THEN Append(got, Whole) ELSE got
      /\ availTailIndex' = 0
      /\ UNCHANGED <<sendVars, rpos, ioBuf, indexBuf>>
  BY DEF DropStream
<1>2. /\ rx' = "closed" /\ rxDead' = TRUE /\ why' = "check"
      /\ sock' \in {"up", "closed", "broken"} /\ (sock' = "up" => sock = "up")
  BY DEF DropStream, Closing, TypeOK
<1>3. n \in 1 .. Len(sent) /\ (HeadWrong <=> sent[n].kind = "head")
  BY <1>1, LookFacts
<1>4. ~HeadWrong => /\ Whole = n
                    /\ BodyWrong <=> sent[n].kind = "body"
                    /\ Refused <=> sent[n].kind = "refused"
  BY <1>1, LookFacts
<1>5. UNCHANGED <<sent, start, written>> /\ Len(got) \in Nat /\ Len(sent) \in Nat
  BY <1>1 DEF sendVars, TypeOK
<1>6. /\ \/ got' = got /\ sent[n].kind # "ok"
         \/ got' = Append(got, n) /\ sent[n].kind = "refused"
      /\ got' \in Seq(Nat)
  BY <1>1, <1>3, <1>4 DEF TypeOK
<1>7. \/ Len(got') = Len(got) /\ got' = got /\ sent[n].kind # "ok"
      \/ /\ Len(got') = n /\ got'[n] = n /\ sent[n].kind = "refused"
         /\ \A k \in 1 .. Len(got) : got'[k] = got[k]
  BY <1>6 DEF TypeOK
<1>8. GotSent'
  BY <1>3, <1>5, <1>7 DEF GotSent, RecvInv
<1>9. InBuffer'
  <2>1. /\ indexBuf + availTailIndex <= BufSize /\ indexBuf \in Nat
        /\ availTailIndex \in Nat /\ BufSize \in Nat
    BY FramingAssumption DEF RecvInv, InBuffer, TypeOK
  <2>2. indexBuf' + availTailIndex' <= BufSize
    BY <1>1, <2>1
  <2>3. QED
    BY <2>2 DEF InBuffer
<1>10. NoFalseAlarm'
  <2>1. n \in 1 .. Len(sent') /\ n \in {Len(got'), Len(got') + 1} /\ sent'[n].kind # "ok"
    BY <1>3, <1>5, <1>7
  <2>2. QED
    BY <1>2, <2>1 DEF NoFalseAlarm
<1>11. InOrder'
  <2> SUFFICES ASSUME NEW k \in 1 .. Len(got') PROVE got'[k] = k /\ k <= Len(sent')
    BY DEF InOrder
  <2>1. CASE k \in 1 .. Len(got)
    BY <1>5, <1>7, <2>1 DEF RecvInv, InOrder
  <2>2. CASE k \notin 1 .. Len(got)
    BY <1>3, <1>5, <1>7, <2>2
  <2>3. QED
    BY <2>1, <2>2
<1>12. InvalidStops'
  <2> SUFFICES ASSUME NEW k \in 1 .. Len(got')
               PROVE  \/ sent'[k].kind = "ok"
                      \/ sent'[k].kind = "refused" /\ k = Len(got') /\ rx' = "closed"
    BY DEF InvalidStops
  <2>1. CASE k \in 1 .. Len(got)
    BY <1>1, <1>5, <2>1, OpenGood
  <2>2. CASE k \notin 1 .. Len(got)
    BY <1>2, <1>3, <1>5, <1>7, <2>2
  <2>3. QED
    BY <2>1, <2>2
<1>13. NothingLeftWaiting' /\ Received'
  BY <1>2 DEF NothingLeftWaiting, Received
<1>14. QED
  BY <1>1, <1>2, <1>6, <1>8, <1>9, <1>10, <1>11, <1>12, <1>13 DEF RecvInv

\* The loop of FetchIOBuf ends.
LEMMA EndRecv ==
    ASSUME TypeOK, StreamInv, RecvInv, FetchEnd
    PROVE  RecvInv' /\ ioBuf' \in [1 .. BufSize -> Nat \X Nat]
<1> PICK n \in Nat : n = Len(got) + 1
  BY DEF TypeOK
<1>1. /\ rx = "fetch" /\ (~Looks \/ (Looks /\ ~HeadWrong /\ ~Enough))
      /\ ioBuf' = IF indexBuf > 0 /\ availTailIndex > 0 THEN Moved ELSE ioBuf
      /\ indexBuf' = 0 /\ rx' = "idle"
      /\ UNCHANGED <<sendVars, sock, rxDead, rpos, availTailIndex, got, why>>
  BY DEF FetchEnd
<1>2. UNCHANGED <<sent, start, written>> /\ \A k : End(k)' = End(k)
  BY <1>1 DEF sendVars, End
<1>3. /\ availTailIndex \in Nat /\ indexBuf \in Nat /\ BufSize \in Nat
      /\ indexBuf + availTailIndex <= BufSize
      /\ ioBuf \in [1 .. BufSize -> Nat \X Nat]
  BY FramingAssumption DEF TypeOK, RecvInv, InBuffer
<1>4. /\ ioBuf' \in [1 .. BufSize -> Nat \X Nat]
      /\ \A i \in 1 .. availTailIndex : ioBuf'[i] = ioBuf[indexBuf + i]
  <2>1. CASE indexBuf > 0 /\ availTailIndex > 0
    <3>1. ioBuf' = Moved
      BY <1>1, <2>1
    <3>2. \A i \in 1 .. BufSize :
            (IF i <= availTailIndex THEN ioBuf[indexBuf + i] ELSE NoByte) \in Nat \X Nat
      <4> SUFFICES ASSUME NEW i \in 1 .. BufSize
                   PROVE  (IF i <= availTailIndex THEN ioBuf[indexBuf + i] ELSE NoByte)
                            \in Nat \X Nat
        OBVIOUS
      <4>1. CASE i <= availTailIndex
        <5>1. indexBuf + i \in 1 .. BufSize
          BY <1>3, <4>1
        <5>2. QED
          BY <1>3, <4>1, <5>1
      <4>2. CASE ~(i <= availTailIndex)
        BY <4>2 DEF NoByte
      <4>3. QED
        BY <4>1, <4>2
    <3>3. ioBuf' \in [1 .. BufSize -> Nat \X Nat]
      BY <3>1, <3>2 DEF Moved
    <3>4. \A i \in 1 .. availTailIndex : ioBuf'[i] = ioBuf[indexBuf + i]
      BY <1>3, <3>1 DEF Moved
    <3>5. QED
      BY <3>3, <3>4
  <2>2. CASE ~(indexBuf > 0)
    <3>1. ioBuf' = ioBuf /\ indexBuf = 0
      BY <1>1, <1>3, <2>2
    <3>2. \A i \in 1 .. availTailIndex : indexBuf + i = i
      BY <3>1
    <3>3. QED
      BY <1>3, <3>1, <3>2
  <2>3. CASE ~(availTailIndex > 0)
    BY <1>1, <1>3, <2>3
  <2>4. QED
    BY <2>1, <2>2, <2>3
<1>5. Received'
  <2>1. End(Len(got))' = End(Len(got))
    BY <1>1, <1>2
  <2>2. \A i \in 1 .. availTailIndex' :
          ioBuf'[indexBuf' + i] = written'[End(Len(got)) + i]
    <3> SUFFICES ASSUME NEW i \in 1 .. availTailIndex
                 PROVE  ioBuf'[0 + i] = written[End(Len(got)) + i]
      BY <1>1, <1>2
    <3>1. 0 + i = i
      OBVIOUS
    <3>2. ioBuf[indexBuf + i] = written[End(Len(got)) + i]
      BY <1>1 DEF RecvInv, Received
    <3>3. QED
      BY <1>4, <3>1, <3>2
  <2>3. rpos' <= Len(written') /\ rpos' = End(Len(got)) + availTailIndex' /\ why' = "open"
    BY <1>1, <1>2 DEF RecvInv, Received
  <2>4. QED
    BY <1>1, <2>1, <2>2, <2>3 DEF Received
<1>6. NothingLeftWaiting'
  <2> SUFFICES ASSUME ~rxDead, availTailIndex > HeadSize
               PROVE  Len(got) < Len(sent) /\ availTailIndex < Total(sent[Len(got) + 1])
    BY <1>1, <1>2 DEF NothingLeftWaiting
  <2>1. Looks
    BY DEF Looks
  <2>2. ~HeadWrong /\ ~Enough
    BY <1>1, <2>1
  <2>3. n \in 1 .. Len(sent) /\ Needed = Total(sent[n]) /\ Needed \in Nat
    BY <1>1, <2>1, LookFacts
  <2>4. ~(Needed <= availTailIndex)
    BY <2>2 DEF Enough
  <2>5. Len(got) \in Nat /\ Len(sent) \in Nat
    BY DEF TypeOK
  <2>6. QED
    BY <1>3, <2>3, <2>4, <2>5
<1>7. InBuffer'
  BY <1>1, <1>3 DEF InBuffer
<1>8. InOrder' /\ GotSent'
  BY <1>1, <1>2 DEF RecvInv, InOrder, GotSent
<1>9. NoFalseAlarm'
  BY <1>1 DEF RecvInv, Received, NoFalseAlarm
<1>10. InvalidStops'
  <2>1. \A k \in 1 .. Len(got) : sent[k].kind = "ok"
    BY <1>1, OpenGood
  <2>2. QED
    BY <1>1, <1>2, <2>1 DEF InvalidStops
<1>11. QED
  BY <1>4, <1>5, <1>6, <1>7, <1>8, <1>9, <1>10 DEF RecvInv

\* A read puts the next bytes of the stream behind those that wait.
LEMMA ReadRecv ==
    ASSUME TypeOK, StreamInv, RecvInv, NEW k \in Nat, ReadStream(k)
    PROVE  /\ RecvInv' /\ ioBuf' \in [1 .. BufSize -> Nat \X Nat]
           /\ availTailIndex' \in Nat /\ rpos' \in Nat
<1> PICK a \in Nat : a = availTailIndex
  BY DEF TypeOK
<1> PICK c \in Nat : c = End(Len(got))
  BY EndType DEF StreamInv, Adjacent, RecvInv, GotSent, TypeOK
<1>1. /\ rx = "idle" /\ k <= BufSize - a /\ rpos + k <= Len(written)
      /\ ioBuf' = Stored(k) /\ availTailIndex' = a + k
      /\ rpos' = rpos + k /\ indexBuf' = 0 /\ rx' = "fetch"
      /\ UNCHANGED <<sendVars, sock, rxDead, got, why>>
  BY DEF ReadStream, Room
<1>2. UNCHANGED <<sent, start, written>> /\ \A n : End(n)' = End(n)
  BY <1>1 DEF sendVars, End
<1>3. /\ indexBuf = 0 /\ rpos = c + a /\ why = "open"
      /\ \A i \in 1 .. a : ioBuf[indexBuf + i] = written[c + i]
      /\ rpos \in Nat /\ BufSize \in Nat /\ Len(written) \in Nat
      /\ written \in Seq(Nat \X Nat) /\ ioBuf \in [1 .. BufSize -> Nat \X Nat]
  <2>1. /\ indexBuf = 0 /\ rpos = c + a /\ why = "open"
        /\ \A i \in 1 .. a : ioBuf[indexBuf + i] = written[c + i]
    BY <1>1 DEF RecvInv, Received
  <2>2. /\ rpos \in Nat /\ BufSize \in Nat
        /\ written \in Seq(Nat \X Nat) /\ ioBuf \in [1 .. BufSize -> Nat \X Nat]
    BY FramingAssumption DEF TypeOK
  <2>3. QED
    BY <2>1, <2>2, LenProperties
<1>4. a + k <= BufSize
  BY <1>1, <1>3
<1>5. ioBuf' = [i \in 1 .. BufSize |-> IF i > a /\ i <= a + k
                                      THEN written[rpos + i - a] ELSE ioBuf[i]]
  BY <1>1 DEF Stored
<1>6. ioBuf' \in [1 .. BufSize -> Nat \X Nat]
  <2>1. ASSUME NEW i \in 1 .. BufSize
        PROVE  (IF i > a /\ i <= a + k THEN written[rpos + i - a] ELSE ioBuf[i])
                 \in Nat \X Nat
    <3>1. CASE i > a /\ i <= a + k
      <4>0. i \in Nat /\ a \in Nat /\ k \in Nat /\ rpos \in Nat /\ Len(written) \in Nat
        BY <1>3
      <4>1. rpos + i - a \in 1 .. Len(written)
        <5>1. rpos + k <= Len(written)
          BY <1>1
        <5>2. QED
          BY <3>1, <4>0, <5>1
      <4>2. written[rpos + i - a] \in Nat \X Nat
        BY <1>3, <4>1, LenProperties
      <4>3. QED
        BY <3>1, <4>2
    <3>2. CASE ~(i > a /\ i <= a + k)
      BY <1>3, <3>2
    <3>3. QED
      BY <3>1, <3>2
  <2>2. QED
    BY <1>5, <2>1
<1>7. \A i \in 1 .. a + k : ioBuf'[0 + i] = written[c + i]
  <2> SUFFICES ASSUME NEW i \in 1 .. a + k PROVE ioBuf'[i] = written[c + i]
    OBVIOUS
  <2>1. i \in 1 .. BufSize
    BY <1>3, <1>4
  <2>2. CASE i > a
    <3>1. rpos + i - a = c + i
      BY <1>3
    <3>2. QED
      BY <1>5, <2>1, <2>2, <3>1
  <2>3. CASE ~(i > a)
    <3>1. i \in 1 .. a /\ indexBuf + i = i
      BY <1>3, <2>3
    <3>2. QED
      BY <1>3, <1>5, <2>1, <2>3, <3>1
  <2>4. QED
    BY <2>2, <2>3
<1>8. Received'
  <2>1. End(Len(got))' = c
    BY <1>1, <1>2
  <2>2. rpos' <= Len(written') /\ rpos' = c + availTailIndex'
    BY <1>1, <1>2, <1>3
  <2>3. QED
    BY <1>1, <1>2, <1>3, <1>7, <2>1, <2>2 DEF Received
<1>9. InBuffer' /\ NothingLeftWaiting'
  <2>1. indexBuf' + availTailIndex' <= BufSize
    BY <1>1, <1>4
  <2>2. QED
    BY <1>1, <2>1 DEF InBuffer, NothingLeftWaiting
<1>10. InOrder' /\ GotSent' /\ NoFalseAlarm'
  BY <1>1, <1>2, <1>3 DEF RecvInv, InOrder, GotSent, NoFalseAlarm
<1>11. InvalidStops'
  <2>1. \A j \in 1 .. Len(got) : sent[j].kind = "ok"
    BY <1>1, OpenGood
  <2>2. QED
    BY <1>1, <1>2, <2>1 DEF InvalidStops
<1>12. availTailIndex' \in Nat /\ rpos' \in Nat
  <2>1. a + k \in Nat /\ rpos + k \in Nat
    BY <1>3
  <2>2. QED
    BY <1>1, <2>1
<1>13. QED
  BY <1>6, <1>8, <1>9, <1>10, <1>11, <1>12 DEF RecvInv

\* ReadStream gives up without a packet.
LEMMA FailRecv ==
    ASSUME TypeOK, RecvInv, NEW r \in {"eof", "heartbeat", "nobufs", "dead"}, ReadFails(r)
    PROVE  RecvInv'
<1>1. /\ rx = "idle" /\ Reason(r)
      /\ rx' = "closed" /\ rxDead' = TRUE /\ why' = r
      /\ UNCHANGED <<sendVars, rpos, ioBuf, availTailIndex, indexBuf, got>>
  BY DEF ReadFails, Closing
<1>2. UNCHANGED <<sent, start, written>>
  BY <1>1 DEF sendVars
<1>3. NoFalseAlarm'
  <2>1. ASSUME r = "nobufs"
        PROVE  Len(got) < Len(sent) /\ Total(sent[Len(got) + 1]) > BufSize
    <3>1. Room = 0 /\ ~rxDead
      BY <1>1, <2>1 DEF Reason
    <3>2. availTailIndex = BufSize /\ availTailIndex > HeadSize
      BY <3>1, FramingAssumption DEF Room, TypeOK
    <3>3. Len(got) < Len(sent) /\ availTailIndex < Total(sent[Len(got) + 1])
      BY <1>1, <3>1, <3>2 DEF RecvInv, NothingLeftWaiting
    <3>4. Len(got) + 1 \in 1 .. Len(sent)
      BY <3>3 DEF TypeOK
    <3>5. Total(sent[Len(got) + 1]) \in Nat
      BY <3>4, TotalType DEF TypeOK
    <3>6. QED
      BY <3>2, <3>3, <3>5, FramingAssumption
  <2>2. QED
    BY <1>1, <1>2, <2>1 DEF NoFalseAlarm
<1>4. InOrder' /\ GotSent' /\ InBuffer'
  BY <1>1, <1>2 DEF RecvInv, InOrder, GotSent, InBuffer
<1>5. InvalidStops'
  <2>1. \A j \in 1 .. Len(got) : sent[j].kind = "ok"
    BY <1>1, OpenGood
  <2>2. QED
    BY <1>1, <1>2, <2>1 DEF InvalidStops
<1>6. NothingLeftWaiting' /\ Received'
  BY <1>1 DEF NothingLeftWaiting, Received
<1>7. QED
  BY <1>3, <1>4, <1>5, <1>6 DEF RecvInv

\* Another thread frees the session.
LEMMA FreeRecv ==
    ASSUME RecvInv, FreeSession
    PROVE  RecvInv'
<1>1. /\ UNCHANGED <<sent, start, written, rx, rpos, ioBuf, availTailIndex, indexBuf,
                     got, why>>
      /\ rxDead' = TRUE
  BY DEF FreeSession, sendVars, recvVars
<1>2. \A n : End(n)' = End(n)
  BY <1>1 DEF End
<1>3. Received'
  <2>1. End(Len(got))' = End(Len(got))
    BY <1>1, <1>2
  <2>2. QED
    BY <1>1, <2>1 DEF RecvInv, Received
<1>4. NothingLeftWaiting'
  BY <1>1 DEF NothingLeftWaiting
<1>5. InOrder' /\ GotSent' /\ InBuffer' /\ NoFalseAlarm' /\ InvalidStops'
  BY <1>1 DEF RecvInv, InOrder, GotSent, InBuffer, NoFalseAlarm, InvalidStops
<1>6. QED
  BY <1>3, <1>4, <1>5 DEF RecvInv

-----------------------------------------------------------------------------
(* Every step *)

\* A step of a sender.
LEMMA SendKeeps ==
    ASSUME TypeOK, StreamInv, RecvInv, NEW t \in Sender, SendStep(t)
    PROVE  TypeOK' /\ StreamInv' /\ RecvInv'
<1>0. Len(sent) \in Nat /\ Len(written) \in Nat
  BY DEF TypeOK
<1>1. CASE (\E p \in Packet : SendByProtocol(t, p)) \/ WriteEnd(t)
  <2>1. /\ pc' \in [Sender -> {"idle", "lock", "write"}] /\ pkt' \in [Sender -> Packet]
        /\ UNCHANGED <<num, off, sent, start, written, sock, rxDead, recvVars>>
    <3>1. CASE \E p \in Packet : SendByProtocol(t, p)
      BY <3>1 DEF SendByProtocol, TypeOK
    <3>2. CASE WriteEnd(t)
      BY <3>2 DEF WriteEnd, TypeOK
    <3>3. QED
      BY <1>1, <3>1, <3>2
  <2>2. StreamInv' /\ \A n : End(n)' = End(n)
    BY <1>1, IdleStream
  <2>3. RecvInv'
    BY <1>0, <2>1, <2>2, RecvSame
  <2>4. QED
    BY <2>1, <2>2, <2>3 DEF TypeOK, recvVars
<1>2. CASE WriteBegin(t)
  <2>1. /\ StreamInv' /\ sent' \in Seq(Packet) /\ start' \in Seq(Nat)
        /\ Len(sent') = Len(sent) + 1
        /\ \A n \in 1 .. Len(sent) : sent'[n] = sent[n]
        /\ \A n \in 0 .. Len(sent) : End(n)' = End(n)
    BY <1>2, BeginStream
  <2>2. /\ UNCHANGED <<recvVars, rxDead, written, pkt, sock>>
        /\ pc' = [pc EXCEPT ![t] = "write"]
        /\ num' = [num EXCEPT ![t] = Len(sent) + 1]
        /\ off' = [off EXCEPT ![t] = 0]
    BY <1>2 DEF WriteBegin
  <2>3. Len(sent') \in Nat /\ Len(sent') >= Len(sent) /\ Len(sent) + 1 \in Nat
    BY <1>0, <2>1
  <2>4. RecvInv'
    BY <1>0, <2>1, <2>2, <2>3, RecvSame
  <2>5. QED
    BY <2>1, <2>2, <2>3, <2>4 DEF TypeOK, recvVars
<1>3. ASSUME NEW k \in 1 .. SockBuf, WritePiece(t, k)
      PROVE  TypeOK' /\ StreamInv' /\ RecvInv'
  <2>1. k \in Nat
    BY FramingAssumption
  <2>2. /\ written' \in Seq(Nat \X Nat)
        /\ Len(written') = Len(written) + k
        /\ \A j \in 1 .. Len(written) : written'[j] = written[j]
        /\ off' = [off EXCEPT ![t] = off[t] + k]
        /\ UNCHANGED <<pc, pkt, num, sent, start, sock>>
    BY <1>3, <2>1, PieceEffect
  <2>3. UNCHANGED <<recvVars, rxDead>>
    BY <1>3 DEF WritePiece
  <2>4. StreamInv' /\ \A n : End(n)' = End(n)
    BY <1>3, <2>1, PieceStream
  <2>5. Len(written') \in Nat /\ Len(written') >= Len(written)
    BY <1>0, <2>1, <2>2
  <2>6. RecvInv'
    <3>1. Len(sent') = Len(sent) /\ \A n \in 1 .. Len(sent) : sent'[n] = sent[n]
      BY <2>2
    <3>2. \A n \in 0 .. Len(sent) : End(n)' = End(n)
      BY <2>4
    <3>3. \A j \in 1 .. Len(written) : written'[j] = written[j]
      BY <2>2
    <3>4. Len(sent') \in Nat /\ Len(sent') >= Len(sent)
      BY <1>0, <3>1
    <3>5. QED
      BY <2>3, <2>5, <3>1, <3>2, <3>3, <3>4, RecvSame
  <2>7. off' \in [Sender -> Nat]
    <3>1. off[t] + k \in Nat
      BY <2>1 DEF TypeOK
    <3>2. QED
      BY <2>2, <3>1 DEF TypeOK
  <2>8. TypeOK'
    BY <2>2, <2>3, <2>7 DEF TypeOK, recvVars
  <2>9. QED
    BY <2>4, <2>6, <2>8
<1>4. QED
  BY <1>1, <1>2, <1>3 DEF SendStep

\* A step of the receiver, of the connection, or of another thread.
LEMMA RecvKeeps ==
    ASSUME TypeOK, StreamInv, RecvInv,
           \/ CloseSocket \/ Reset \/ FetchStep \/ FreeSession
           \/ \E k \in 0 .. BufSize : ReadStream(k)
           \/ \E r \in {"eof", "heartbeat", "nobufs", "dead"} : ReadFails(r)
    PROVE  TypeOK' /\ StreamInv' /\ RecvInv'
<1>0. Len(sent) \in Nat /\ Len(written) \in Nat
  BY DEF TypeOK
<1>1. UNCHANGED sendVars /\ (sock' = "up" => sock = "up")
  BY DEF CloseSocket, Reset, FetchStep, FreeSession, ReadStream, ReadFails, Closing,
         TakePacket, DropStream, FetchEnd
<1>2. StreamInv' /\ \A n : End(n)' = End(n)
  BY <1>1, StreamSame
<1>3. UNCHANGED <<pc, pkt, num, off, sent, start, written>>
  BY <1>1 DEF sendVars
<1>4. CASE CloseSocket \/ Reset
  <2>1. UNCHANGED <<recvVars, rxDead>> /\ sock' \in {"closed", "broken"}
    BY <1>4 DEF CloseSocket, Reset
  <2>2. RecvInv'
    BY <1>0, <1>2, <1>3, <2>1, RecvSame
  <2>3. QED
    BY <1>2, <1>3, <2>1, <2>2 DEF TypeOK, recvVars
<1>5. CASE TakePacket
  <2>1. UNCHANGED <<sock, rxDead, rx, rpos, ioBuf, why>>
    BY <1>5 DEF TakePacket
  <2>2. QED
    BY <1>2, <1>3, <1>5, <2>1, TakeRecv DEF TypeOK
<1>6. CASE DropStream
  <2>1. /\ RecvInv' /\ got' \in Seq(Nat) /\ availTailIndex' = 0
        /\ rx' = "closed" /\ rxDead' = TRUE /\ why' = "check"
        /\ sock' \in {"up", "closed", "broken"}
        /\ UNCHANGED <<rpos, ioBuf, indexBuf>>
    BY <1>6, DropRecv
  <2>2. QED
    BY <1>2, <1>3, <2>1 DEF TypeOK
<1>7. CASE FetchEnd
  <2>1. /\ UNCHANGED <<sock, rxDead, rpos, availTailIndex, got, why>>
        /\ indexBuf' = 0 /\ rx' = "idle"
    BY <1>7 DEF FetchEnd
  <2>2. QED
    BY <1>2, <1>3, <1>7, <2>1, EndRecv DEF TypeOK
<1>8. CASE FreeSession
  <2>1. UNCHANGED <<sock, recvVars>> /\ rxDead' = TRUE
    BY <1>8 DEF FreeSession
  <2>2. QED
    BY <1>2, <1>3, <1>8, <2>1, FreeRecv DEF TypeOK, recvVars
<1>9. ASSUME NEW k \in 0 .. BufSize, ReadStream(k)
      PROVE  TypeOK' /\ StreamInv' /\ RecvInv'
  <2>1. k \in Nat
    BY FramingAssumption
  <2>2. UNCHANGED <<sock, rxDead, got, why>> /\ indexBuf' = 0 /\ rx' = "fetch"
    BY <1>9 DEF ReadStream
  <2>3. QED
    BY <1>2, <1>3, <1>9, <2>1, <2>2, ReadRecv DEF TypeOK
<1>10. ASSUME NEW r \in {"eof", "heartbeat", "nobufs", "dead"}, ReadFails(r)
       PROVE  TypeOK' /\ StreamInv' /\ RecvInv'
  <2>1. /\ UNCHANGED <<rpos, ioBuf, availTailIndex, indexBuf, got>>
        /\ rx' = "closed" /\ rxDead' = TRUE /\ why' = r
        /\ sock' = "broken" \/ sock' = sock
    BY <1>10 DEF ReadFails, Closing
  <2>2. QED
    BY <1>2, <1>3, <1>10, <2>1, FailRecv DEF TypeOK
<1>11. QED
  BY <1>4, <1>5, <1>6, <1>7, <1>8, <1>9, <1>10 DEF FetchStep

\* FramingInv is an inductive invariant of the stream.
THEOREM FramingInvariance == Spec => []FramingInv
<1>1. FramingInv <=> TypeOK /\ StreamInv /\ RecvInv
  BY DEF FramingInv, StreamInv, RecvInv
<1>2. FramingInv /\ [Next]_vars => FramingInv'
  <2> SUFFICES ASSUME TypeOK, StreamInv, RecvInv, [Next]_vars
               PROVE  TypeOK' /\ StreamInv' /\ RecvInv'
    BY DEF FramingInv, StreamInv, RecvInv
  <2>1. CASE Next
    BY <2>1, SendKeeps, RecvKeeps DEF Next
  <2>2. CASE UNCHANGED vars
    <3>1. /\ UNCHANGED <<pc, pkt, num, off, sent, start, written, sock, rxDead>>
          /\ UNCHANGED <<rx, rpos, ioBuf, availTailIndex, indexBuf, got, why>>
          /\ UNCHANGED sendVars /\ UNCHANGED <<recvVars, rxDead>>
      BY <2>2 DEF vars, sendVars, recvVars
    <3>2. TypeOK'
      BY <3>1 DEF TypeOK
    <3>3. StreamInv' /\ \A n : End(n)' = End(n)
      BY <3>1, StreamSame
    <3>4. Len(sent) \in Nat /\ Len(written) \in Nat
      BY DEF TypeOK
    <3>5. RecvInv'
      BY <3>1, <3>3, <3>4, RecvSame
    <3>6. QED
      BY <3>2, <3>3, <3>5
  <2>3. QED
    BY <2>1, <2>2
<1>3. QED
  BY <1>2, InitFraming, PTL DEF Spec

\* Type correctness; in particular availTailIndex never becomes negative when
\* FetchIOBuf takes packets off.
THEOREM FramingTypeCorrect == Spec => []TypeOK
<1>1. FramingInv => TypeOK
  BY DEF FramingInv
<1>2. QED
  BY <1>1, FramingInvariance, PTL

\* FetchCommand gets the packets whole, once, and in the order of the mutex of
\* WriteUvTcpFd.
THEOREM FramingInOrder == Spec => []InOrder
<1>1. FramingInv => InOrder
  BY DEF FramingInv
<1>2. QED
  BY <1>1, FramingInvariance, PTL

\* FetchIOBuf gives up a stream only for an invalid packet, or one that is too
\* large for ioBuf.
THEOREM FramingNoFalseAlarm == Spec => []NoFalseAlarm
<1>1. FramingInv => NoFalseAlarm
  BY DEF FramingInv
<1>2. QED
  BY <1>1, FramingInvariance, PTL

\* Nothing behind an invalid packet is dispatched by FetchIOBuf.
THEOREM FramingInvalidStops == Spec => []InvalidStops
<1>1. FramingInv => InvalidStops
  BY DEF FramingInv
<1>2. QED
  BY <1>1, FramingInvariance, PTL

\* FetchIOBuf returns to the loop with less than a packet in ioBuf.
THEOREM FramingNothingLeft == Spec => []NothingLeftWaiting
<1>1. FramingInv => NothingLeftWaiting
  BY DEF FramingInv
<1>2. QED
  BY <1>1, FramingInvariance, PTL

\* AllocCallback and FetchIOBuf stay inside ioBuf.
THEOREM FramingInBuffer == Spec => []InBuffer
<1>1. FramingInv => InBuffer
  BY DEF FramingInv
<1>2. QED
  BY <1>1, FramingInvariance, PTL

\* Whatever pieces the stream comes in, the packets are dispatched whole, once
\* and in order, and none is left waiting (FetchIOBuf).
THEOREM FramingStreamIntact == Spec => []StreamIntact
<1>1. InOrder /\ NothingLeftWaiting => StreamIntact
  BY DEF StreamIntact
<1>2. QED
  BY <1>1, FramingInOrder, FramingNothingLeft, PTL

\* ioBuf is never left, and exactly what is invalid is refused (OnRead).
THEOREM FramingChecked == Spec => []CheckedStream
<1>1. TypeOK /\ InBuffer /\ NoFalseAlarm /\ InvalidStops => CheckedStream
  BY DEF CheckedStream
<1>2. QED
  BY <1>1, FramingTypeCorrect, FramingInBuffer, FramingNoFalseAlarm, FramingInvalidStops, PTL
=============================================================================
