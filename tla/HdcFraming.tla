----------------------------- MODULE HdcFraming -----------------------------
(***************************************************************************)
(* One direction of a plain TCP session: threads of the sending side write *)
(* packets (Send, SendByProtocol, WriteUvTcpFd) that reach the worker of   *)
(* the other side in pieces of any size, where AllocCallback, ReadStream,  *)
(* FetchIOBuf and OnRead put them together again in ioBuf and hand each    *)
(* one to FetchCommand.  A byte is the pair of the number of its packet,   *)
(* in the order of writing, and its place in the packet.                   *)
(***************************************************************************)
EXTENDS Naturals, Sequences

CONSTANTS
    Sender,      \* threads that send to this session
    Packet,      \* records [kind, size]: size is headSize + dataSize
    HeadSize,    \* sizeof(PayloadHead)
    BufSize,     \* HDC_SOCKETPAIR_SIZE, the size of ioBuf
    SockBuf,     \* bytes the connection holds before send() says EAGAIN
    MaxPackets   \* bound: packets sent

\* kind: "ok"; "head" when OnRead refuses the flag or the sizes; "body" when
\* DecryptPayload refuses vCode or checksum; "refused" when FetchCommand
\* returns false.
Kind == {"ok", "head", "body", "refused"}

ASSUME FramingAssumption ==
    /\ Packet \subseteq [kind : Kind, size : Nat]
    /\ \A p \in Packet : p.kind # "head" => p.size > 0
    /\ HeadSize \in Nat \ {0}
    /\ BufSize \in Nat /\ BufSize > HeadSize
    /\ SockBuf \in Nat \ {0}
    /\ MaxPackets \in Nat

VARIABLES
    pc,       \* sender: idle, lock (waits for writeTCPMutex), write
    pkt,      \* sender -> the packet it sends
    num,      \* sender -> its number in the stream
    off,      \* sender -> bytes of it that send() has taken
    sent,     \* packets in the order of the mutex
    start,    \* history: where in the stream each of them begins
    written,  \* history: the bytes the connection has taken
    sock,     \* up, closed (by the sending side), broken
    rx,       \* receiver: idle (in its loop), fetch (in FetchIOBuf), closed
    rxDead,   \* receiver's isDead
    rpos,     \* bytes of written that the receiver has read
    ioBuf, availTailIndex,
    indexBuf,
    got,      \* history: packets given to FetchCommand (0: a garbled one)
    why       \* history: why the receiver closed

sendVars == <<pc, pkt, num, off, sent, start, written>>
recvVars == <<rx, rpos, ioBuf, availTailIndex, indexBuf, got, why>>
vars == <<sendVars, sock, rxDead, recvVars>>

Total(p) == HeadSize + p.size
NoByte == <<0, 0>>
\* The stream position behind the first n packets.
End(n) == IF n = 0 THEN 0 ELSE start[n] + Total(sent[n])

TypeOK ==
    /\ pc \in [Sender -> {"idle", "lock", "write"}]
    /\ pkt \in [Sender -> Packet]
    /\ num \in [Sender -> Nat]
    /\ off \in [Sender -> Nat]
    /\ sent \in Seq(Packet)
    /\ start \in Seq(Nat)
    /\ written \in Seq(Nat \X Nat)
    /\ sock \in {"up", "closed", "broken"}
    /\ rx \in {"idle", "fetch", "closed"}
    /\ rxDead \in BOOLEAN
    /\ rpos \in Nat
    /\ ioBuf \in [1 .. BufSize -> Nat \X Nat]
    /\ availTailIndex \in Nat
    /\ indexBuf \in Nat
    /\ got \in Seq(Nat)
    /\ why \in {"open", "eof", "heartbeat", "nobufs", "dead", "check"}

Init ==
    /\ pc = [t \in Sender |-> "idle"]
    /\ pkt \in [Sender -> Packet]
    /\ num = [t \in Sender |-> 0]
    /\ off = [t \in Sender |-> 0]
    /\ sent = <<>> /\ start = <<>> /\ written = <<>>
    /\ sock = "up"
    /\ rx = "idle" /\ rxDead = FALSE
    /\ rpos = 0
    /\ ioBuf = [i \in 1 .. BufSize |-> NoByte]
    /\ availTailIndex = 0 /\ indexBuf = 0
    /\ got = <<>> /\ why = "open"

-----------------------------------------------------------------------------
(* The sending side *)

\* Send and SendByProtocol up to the mutex of WriteUvTcpFd.  A session is dead
\* before its socket is closed, and a dead session takes no packet.
SendByProtocol(t, p) ==
    /\ pc[t] = "idle"
    /\ sock # "closed"
    /\ Len(sent) < MaxPackets
    /\ pc' = [pc EXCEPT ![t] = "lock"]
    /\ pkt' = [pkt EXCEPT ![t] = p]
    /\ UNCHANGED <<num, off, sent, start, written, sock, rxDead, recvVars>>

\* writeTCPMutex, and a WriteUvTcpFd without it.
MutexForgotten(t) == TRUE
MutexFree(t) == \A u \in Sender : pc[u] # "write"

\* WriteUvTcpFd has the mutex: its packet is the next one of the stream.
WriteBegin(t) ==
    /\ pc[t] = "lock"
    /\ MutexFree(t)
    /\ sock = "up" /\ Len(sent) < MaxPackets
    /\ pc' = [pc EXCEPT ![t] = "write"]
    /\ num' = [num EXCEPT ![t] = Len(sent) + 1]
    /\ off' = [off EXCEPT ![t] = 0]
    /\ sent' = Append(sent, pkt[t])
    /\ start' = Append(start, Len(written))
    /\ UNCHANGED <<pkt, written, sock, rxDead, recvVars>>

\* send() takes k bytes; while there is no room it says EAGAIN and is called
\* again.
WritePiece(t, k) ==
    /\ pc[t] = "write"
    /\ sock = "up"
    /\ k \in 1 .. Total(pkt[t]) - off[t]
    /\ Len(written) + k <= rpos + SockBuf
    /\ written' = written \o [i \in 1 .. k |-> <<num[t], off[t] + i>>]
    /\ off' = [off EXCEPT ![t] = @ + k]
    /\ UNCHANGED <<pc, pkt, num, sent, start, sock, rxDead, recvVars>>

\* All bytes are taken, or send() fails for good; the mutex is released.
WriteEnd(t) ==
    /\ \/ pc[t] = "write" /\ (off[t] = Total(pkt[t]) \/ sock # "up")
       \/ pc[t] = "lock" /\ (sock # "up" \/ Len(sent) = MaxPackets)
    /\ pc' = [pc EXCEPT ![t] = "idle"]
    /\ UNCHANGED <<pkt, num, off, sent, start, written, sock, rxDead, recvVars>>

\* The sending side frees its session, which waits for its senders.
CloseSocket ==
    /\ sock = "up"
    /\ \A t \in Sender : pc[t] = "idle"
    /\ sock' = "closed"
    /\ UNCHANGED <<sendVars, rxDead, recvVars>>

\* The connection is reset.
Reset ==
    /\ sock = "up"
    /\ sock' = "broken"
    /\ UNCHANGED <<sendVars, rxDead, recvVars>>

-----------------------------------------------------------------------------
(* The receiving side *)

\* AllocCallback offers the room behind availTailIndex; ReadStream enters
\* FetchIOBuf with what came (nothing only when recv has nothing).
Room == BufSize - availTailIndex
Stored(k) == [i \in 1 .. BufSize |->
                IF i > availTailIndex /\ i <= availTailIndex + k
                THEN written[rpos + i - availTailIndex] ELSE ioBuf[i]]
ReadStream(k) ==
    /\ rx = "idle"
    /\ Room > 0
    /\ k <= Room /\ rpos + k <= Len(written)
    /\ k = 0 => rpos = Len(written) /\ sock = "up"
    /\ ioBuf' = Stored(k)
    /\ availTailIndex' = availTailIndex + k
    /\ rpos' = rpos + k
    /\ indexBuf' = 0
    /\ rx' = "fetch"
    /\ UNCHANGED <<sendVars, sock, rxDead, got, why>>

\* ReadStream gives up: TryCloseHandle, FreeSession.  The socket's end makes
\* the other side's writes fail; and a version without TryCloseHandle.
LeftOpen(reason) ==
    /\ rx' = "closed"
    /\ rxDead' = TRUE
    /\ why' = reason
    /\ UNCHANGED sock
Closing(reason) ==
    /\ rx' = "closed"
    /\ rxDead' = TRUE
    /\ why' = reason
    /\ sock' = IF sock = "up" THEN "broken" ELSE sock

\* nread < 0 (end of file, reset, no buffer), or no heartbeat for too long.
Reason(r) ==
    \/ r = "eof" /\ sock # "up" /\ (rpos = Len(written) \/ sock = "broken")
    \/ r = "heartbeat"
    \/ r = "nobufs" /\ Room = 0 /\ ~rxDead
    \/ r = "dead" /\ Room = 0 /\ rxDead
ReadFails(r) ==
    /\ rx = "idle"
    /\ Reason(r)
    /\ Closing(r)
    /\ UNCHANGED <<sendVars, rpos, ioBuf, availTailIndex, indexBuf, got>>

\* The loop of FetchIOBuf looks for a packet.
Looks == ~rxDead /\ availTailIndex > HeadSize

\* The packet whose first l bytes lie at indexBuf, 0 if other bytes do.
PacketAt(l) == LET n == ioBuf[indexBuf + 1][1]
               IN  IF \A i \in 1 .. l : ioBuf[indexBuf + i] = <<n, i>> THEN n ELSE 0

\* What OnRead finds: a packet it refuses, too little, or a whole packet.  The
\* size in the head decides how many bytes it takes.
HeadWrong == PacketAt(HeadSize) = 0 \/ sent[PacketAt(HeadSize)].kind = "head"
Needed == Total(sent[PacketAt(HeadSize)])
\* tobeReadLen is compared with what is there without the head.
Enough == Needed <= availTailIndex
Whole == PacketAt(Needed)
\* DecryptPayload checks vCode and checksum.
BodyWrong == Whole # 0 /\ sent[Whole].kind = "body"
Refused == Whole # 0 /\ sent[Whole].kind = "refused"

\* A whole packet: FetchCommand gets it.
TakePacket ==
    /\ rx = "fetch"
    /\ Looks /\ ~HeadWrong /\ Enough /\ ~BodyWrong /\ ~Refused
    /\ got' = Append(got, Whole)
    /\ availTailIndex' = availTailIndex - Needed
    /\ indexBuf' = indexBuf + Needed
    /\ UNCHANGED <<sendVars, sock, rxDead, rx, rpos, ioBuf, why>>

\* OnRead < 0: drop the buffer, close.
DropStream ==
    /\ rx = "fetch"
    /\ Looks
    /\ HeadWrong \/ (Enough /\ (BodyWrong \/ Refused))
    /\ got' = IF ~HeadWrong /\ Refused THEN Append(got, Whole) ELSE got
    /\ availTailIndex' = 0
    /\ Closing("check")
    /\ UNCHANGED <<sendVars, rpos, ioBuf, indexBuf>>

\* The loop ends: what is left moves to the front (or is not moved).
NotMoved == ioBuf
Moved == [i \in 1 .. BufSize |-> IF i <= availTailIndex THEN ioBuf[indexBuf + i]
                                 ELSE NoByte]
FetchEnd ==
    /\ rx = "fetch"
    /\ ~Looks \/ (Looks /\ ~HeadWrong /\ ~Enough)
    /\ ioBuf' = IF indexBuf > 0 /\ availTailIndex > 0 THEN Moved ELSE ioBuf
    /\ indexBuf' = 0
    /\ rx' = "idle"
    /\ UNCHANGED <<sendVars, sock, rxDead, rpos, availTailIndex, got, why>>

\* Another thread, or the handler of a packet, frees the session.
FreeSession ==
    /\ ~rxDead
    /\ rxDead' = TRUE
    /\ UNCHANGED <<sendVars, sock, recvVars>>

-----------------------------------------------------------------------------
SendStep(t) == \/ \E p \in Packet : SendByProtocol(t, p)
               \/ WriteBegin(t)
               \/ \E k \in 1 .. SockBuf : WritePiece(t, k)
               \/ WriteEnd(t)

FetchStep == TakePacket \/ DropStream \/ FetchEnd

Next == \/ \E t \in Sender : SendStep(t)
        \/ CloseSocket
        \/ Reset
        \/ \E k \in 0 .. BufSize : ReadStream(k)
        \/ \E r \in {"eof", "heartbeat", "nobufs", "dead"} : ReadFails(r)
        \/ FetchStep
        \/ FreeSession

Spec == Init /\ [][Next]_vars

\* The worker's loop polls its socket and ends what it begins; a thread in
\* WriteUvTcpFd goes on calling send, and a free mutex is given to one that waits.
FramingFair ==
    /\ WF_vars(\E k \in 1 .. BufSize : ReadStream(k))
    /\ WF_vars(\E r \in {"eof", "nobufs", "dead"} : ReadFails(r))
    /\ WF_vars(FetchStep)
    /\ \A t \in Sender : /\ WF_vars(WriteBegin(t))
                         /\ WF_vars(\E k \in 1 .. SockBuf : WritePiece(t, k))
                         /\ WF_vars(WriteEnd(t))

-----------------------------------------------------------------------------
(* Properties *)

\* Packets reach FetchCommand whole, once, and in the order in which the
\* senders had the mutex, whatever pieces they came in (session.cpp:1162).
InOrder == \A k \in 1 .. Len(got) : got[k] = k /\ k <= Len(sent)

\* A stream is given up as invalid only because of an invalid packet, and for
\* want of room only because of one that is larger than ioBuf: merged, split
\* and interleaved sends never look like "malicious data packages"
\* (session.cpp:1173).
NoFalseAlarm ==
    /\ why = "check" => \E n \in 1 .. Len(sent) :
                          n \in {Len(got), Len(got) + 1} /\ sent[n].kind # "ok"
    /\ why = "nobufs" => /\ Len(got) < Len(sent)
                         /\ Total(sent[Len(got) + 1]) > BufSize

\* An invalid packet ends the stream: it is not dispatched, and nothing behind
\* it is, not even what the same read brought in ("Preventing malicious data
\* packages", session.cpp:1173); nor is anything behind a refused command.
InvalidStops ==
    \A k \in 1 .. Len(got) :
        k <= Len(sent) => \/ sent[k].kind = "ok"
                          \/ sent[k].kind = "refused" /\ k = Len(got) /\ rx = "closed"

\* A whole packet never waits in ioBuf for the next read: when the worker goes
\* back to its loop, only a part of one is left ("It may be multi-time IO to
\* merge in a BUF, need to loop processing", session.cpp:1177).
NothingLeftWaiting ==
    rx = "idle" /\ ~rxDead /\ availTailIndex > HeadSize
        => Len(got) < Len(sent) /\ availTailIndex < Total(sent[Len(got) + 1])

\* Neither recv nor the loop of FetchIOBuf leaves ioBuf.
InBuffer == indexBuf + availTailIndex <= BufSize

\* A packet that is completely written reaches FetchCommand, unless the
\* receiver gives up or is freed.
Delivered ==
    \A n \in 1 .. MaxPackets :
        []<>(n <= Len(sent) /\ Len(written) >= End(n) /\ sent[n].size > 0
                => Len(got) >= n \/ rxDead)

\* Every thread gets out of WriteUvTcpFd, though it loops on EAGAIN without
\* looking at isDead: the other side reads or closes.
SenderReturns == \A t \in Sender : []<>(pc[t] = "idle")

\* The receiver dispatches what was sent, whole, once and in order, and leaves
\* no whole packet waiting (ReadStream, FetchIOBuf).
StreamIntact == InOrder /\ NothingLeftWaiting

\* ioBuf is used within its bounds, and a stream is given up for what is invalid,
\* exactly (FetchIOBuf, OnRead).
CheckedStream == TypeOK /\ InBuffer /\ NoFalseAlarm /\ InvalidStops

\* Nothing that is sent is stuck, at either end.
StreamMoves == Delivered /\ SenderReturns

-----------------------------------------------------------------------------
(* The inductive invariant behind the invariants above. *)

\* The packet under way, and where the stream ends.
Writing ==
    /\ \A t, u \in Sender : pc[t] = "write" /\ pc[u] = "write" => t = u
    /\ \A t \in Sender : pc[t] = "write" =>
         /\ Len(sent) > 0 /\ num[t] = Len(sent) /\ pkt[t] = sent[Len(sent)]
         /\ off[t] <= Total(pkt[t])
         /\ Len(written) = start[Len(sent)] + off[t]
    /\ sock = "up" /\ (\A t \in Sender : pc[t] # "write")
         => Len(written) = End(Len(sent))
    /\ Len(written) <= End(Len(sent))

\* The packets lie in the stream one behind the other.
Adjacent ==
    /\ Len(start) = Len(sent)
    /\ \A n \in 1 .. Len(sent) : start[n] = End(n - 1) /\ start[n] <= Len(written)
    /\ \A n, m \in 1 .. Len(sent) : m < n => End(m) <= start[n]

Bytes == \A n \in 1 .. Len(sent) : \A i \in 1 .. Total(sent[n]) :
            start[n] + i <= Len(written) => written[start[n] + i] = <<n, i>>

\* The receiver is between packets, and ioBuf holds the stream from there on.
Received ==
    rx # "closed" =>
      /\ rpos <= Len(written)
      /\ rpos = End(Len(got)) + availTailIndex
      /\ \A i \in 1 .. availTailIndex :
           ioBuf[indexBuf + i] = written[End(Len(got)) + i]
      /\ rx = "idle" => indexBuf = 0
      /\ why = "open"

GotSent == Len(got) <= Len(sent)

FramingInv == /\ TypeOK
              /\ InOrder
              /\ NoFalseAlarm
              /\ InvalidStops
              /\ NothingLeftWaiting
              /\ InBuffer
              /\ Writing
              /\ Adjacent
              /\ Bytes
              /\ Received
              /\ GotSent
=============================================================================
