--------------------------- MODULE Bip324Stream ----------------------------
(***************************************************************************)
(* One direction of ark-core/src/bip324/mod.rs `Bip324Stream`: the writer's *)
(* poll_write / poll_flush at one end, the reader's poll_read at the other, *)
(* and the TCP connection between them.                                    *)
(*                                                                         *)
(* A ciphertext byte is a cell                                             *)
(*     [ctr, from, size, ignore, off]                                      *)
(* the off-th byte of the packet sealed when the sender's cipher counter   *)
(* was ctr, which carries bytes from+1 .. from+size of the stream (none if *)
(* it is a decoy). Opening a buffer succeeds only if it holds the right    *)
(* cells in the right order and the receiver's counter is ctr: ciphers     *)
(* whose counters disagree use other keys or nonces (Bip324Ciphers).      *)
(*                                                                         *)
(* A definition `XBug` is X with a slip a maintainer could make; the runs  *)
(* of README.md use it in the place of X to show what a property catches.  *)
(***************************************************************************)
EXTENDS Naturals, Sequences

CONSTANTS
    LenBytes,    \* LENGTH_FIELD_LEN
    Overhead,    \* HEADER_LEN + CHACHA20POLY1305_EXPANSION
    NetCap,      \* bytes TCP holds between the two ends (kernel buffers)
    MaxWrite,    \* largest buffer a caller passes to poll_write
    MaxRead,     \* largest buffer a caller passes to poll_read
    MaxBytes,    \* bound on the plaintext bytes of a behaviour
    MaxPackets   \* bound on the packets of a behaviour, decoys included

ASSUME StreamAssumption ==
    /\ LenBytes \in Nat \ {0}
    /\ Overhead \in Nat \ {0}
    /\ NetCap \in Nat \ {0}
    /\ MaxWrite \in Nat \ {0}
    /\ MaxRead \in Nat \ {0}
    /\ MaxBytes \in Nat \ {0}
    /\ MaxPackets \in Nat \ {0}

VARIABLES
    \* the writer's Bip324Stream
    flushBuf,    \* flush_buf: the sealed packet in flight, <<>> for None
    flushPos,    \* flush_pos
    sendL,       \* send_l.chunk_counter
    sendP,       \* send_p.packet_counter
    \* TCP
    tx,          \* every byte TCP has accepted, in order
    rcvd,        \* how many of them the reader's end has taken
    link,        \* "up", "fin" (the writer's end was dropped) or "reset"
    \* the reader's Bip324Stream
    want,        \* room in the ReadBuf of the poll_read in progress, 0 if none
    recvState,   \* RecvState: "Idle", "ReadingLength" or "ReadingBody"
    recvBuf,     \* its buf[..filled]
    aeadLen,     \* its aead_len, 0 outside ReadingBody
    recvL,       \* recv_l.chunk_counter
    recvP,       \* recv_p.packet_counter
    readBuf,     \* read_buf
    readPos,     \* read_pos
    outcome,     \* "open", or the error poll_read ended with
    \* what the two callers saw
    written,     \* bytes poll_write has accepted
    flushed,     \* `written` at the last poll_flush that returned Ok
    delivered    \* bytes poll_read has returned

writerVars == <<flushBuf, flushPos, sendL, sendP>>
recvVars == <<recvState, recvBuf, aeadLen, recvL, recvP, readBuf, readPos>>
ghostVars == <<written, flushed, delivered>>
vars == <<flushBuf, flushPos, sendL, sendP, tx, rcvd, link, want, recvState,
          recvBuf, aeadLen, recvL, recvP, readBuf, readPos, outcome,
          written, flushed, delivered>>

Bytes(from, n) == [i \in 1..n |-> from + i]

\* Serving without avail.len().min(buf.remaining()).
MinBug(a, b) == a

Min(a, b) == IF a < b THEN a ELSE b

Cell == [ctr : Nat, from : Nat, size : Nat, ignore : 0..1, off : Nat]

PacketLen(size) == LenBytes + Overhead + size

CellOf(ctr, from, size, ignore, off) ==
    [ctr |-> ctr, from |-> from, size |-> size, ignore |-> ignore, off |-> off]

\* v2_enc_packet: the length field is sealed with send_l, the rest with send_p.
Seal(lctr, pctr, from, size, ignore) ==
    [i \in 1..PacketLen(size) |->
        CellOf(IF i <= LenBytes THEN lctr ELSE pctr, from, size, ignore, i)]

\* buf holds consecutive bytes of the packet sealed at ctr, from byte `first`.
Genuine(buf, first, ctr) ==
    \A i \in 1..Len(buf) : buf[i].ctr = ctr /\ buf[i].off = first + i - 1

-----------------------------------------------------------------------------
Init ==
    /\ flushBuf = <<>> /\ flushPos = 0 /\ sendL = 0 /\ sendP = 0
    /\ tx = <<>> /\ rcvd = 0 /\ link = "up"
    /\ want = 0
    /\ recvState = "Idle" /\ recvBuf = <<>> /\ aeadLen = 0
    /\ recvL = 0 /\ recvP = 0
    /\ readBuf = <<>> /\ readPos = 0
    /\ outcome = "open"
    /\ written = 0 /\ flushed = 0 /\ delivered = <<>>

-----------------------------------------------------------------------------
(* The writer's end. *)

Room == NetCap - (Len(tx) - rcvd)

\* TCP takes the next k bytes of packet p from position pos: the loop of
\* drive_pending_write, which ends when the packet is drained (flush_buf is
\* cleared) or when poll_write on the socket is Pending.
Drive(p, pos, k) ==
    /\ k <= Len(p) - pos
    /\ k <= Room
    /\ tx' = tx \o SubSeq(p, pos + 1, pos + k)
    /\ IF pos + k = Len(p)
       THEN flushBuf' = <<>> /\ flushPos' = 0
       ELSE flushBuf' = p /\ flushPos' = pos + k

\* poll_write while an earlier packet is still in flight, and TCP does not
\* take all of it: Pending, and the caller's bytes are not accepted.
PollWritePending(k) ==
    /\ link = "up"
    /\ k < Len(flushBuf) - flushPos
    /\ Drive(flushBuf, flushPos, k)
    /\ UNCHANGED <<sendL, sendP, rcvd, link, want, recvVars, outcome, ghostVars>>

\* poll_write otherwise: nothing is in flight any more (PollFlush drains it
\* the way poll_write does), the caller's n bytes are sealed as ONE packet,
\* committed to flush_buf, and as much of it as TCP takes leaves at once.
\* poll_write returns Ok(n) whether or not the socket was Pending.
PollWrite(n, k) ==
    /\ link = "up"
    /\ flushBuf = <<>>
    /\ n > 0                   \* an empty buf returns Ok(0) and seals nothing
    /\ written + n <= MaxBytes
    /\ sendP < MaxPackets
    /\ Drive(Seal(sendL, sendP, written, n, 0), 0, k)
    /\ sendL' = sendL + 1
    /\ sendP' = sendP + 1
    /\ written' = written + n
    /\ UNCHANGED <<rcvd, link, want, recvVars, outcome, flushed, delivered>>

\* The sending peer may seal a decoy: BIP 324 allows one between any two
\* packets. ArkTunnel's own writer never does.
PeerDecoy(n, k) ==
    /\ link = "up"
    /\ flushBuf = <<>>
    /\ sendP < MaxPackets
    /\ Drive(Seal(sendL, sendP, written, n, 1), 0, k)
    /\ sendL' = sendL + 1
    /\ sendP' = sendP + 1
    /\ UNCHANGED <<rcvd, link, want, recvVars, outcome, ghostVars>>

\* poll_flush reports Ok although the socket was Pending.
PollFlushBug(k) ==
    /\ link = "up"
    /\ Drive(flushBuf, flushPos, k)
    /\ flushed' = written
    /\ UNCHANGED <<sendL, sendP, rcvd, link, want, recvVars, outcome, written,
                   delivered>>

\* poll_flush flushes the socket but not flush_buf.
PollFlushIdleBug(k) ==
    /\ link = "up"
    /\ k = 1
    /\ flushed' = written
    /\ UNCHANGED <<writerVars, tx, rcvd, link, want, recvVars, outcome, written,
                   delivered>>

\* poll_flush, and poll_shutdown, which only calls it. Ok once flush_buf is
\* drained.
PollFlush(k) ==
    /\ link = "up"
    /\ Drive(flushBuf, flushPos, k)
    /\ flushed' = IF flushPos + k = Len(flushBuf) THEN written ELSE flushed
    /\ UNCHANGED <<sendL, sendP, rcvd, link, want, recvVars, outcome, written,
                   delivered>>

\* The writer's stream is dropped: what is left of flush_buf is never sent,
\* and TCP sends FIN after the bytes it has accepted.
DropWriter ==
    /\ link = "up"
    /\ link' = "fin"
    /\ flushBuf' = <<>>
    /\ flushPos' = 0
    /\ UNCHANGED <<sendL, sendP, tx, rcvd, want, recvVars, outcome, ghostVars>>

\* The connection is reset: the bytes in flight are lost.
Reset ==
    /\ link = "up"
    /\ link' = "reset"
    /\ tx' = SubSeq(tx, 1, rcvd)
    /\ UNCHANGED <<writerVars, rcvd, want, recvVars, outcome, ghostVars>>

-----------------------------------------------------------------------------
(* The reader's end: poll_read, one action per arm of its loop. `want` > 0  *)
(* while a poll is running; a poll that returns Pending keeps no state of   *)
(* its own, only what RecvState keeps.                                      *)

\* The start of poll_read: serve buffered plaintext, or enter the loop, whose
\* Idle arm moves on to ReadingLength.
PollRead(n) ==
    /\ outcome = "open"
    /\ want = 0
    /\ IF readPos < Len(readBuf)
       THEN LET k == Min(n, Len(readBuf) - readPos) IN
            /\ delivered' = delivered \o SubSeq(readBuf, readPos + 1, readPos + k)
            /\ readPos' = readPos + k
            /\ UNCHANGED <<want, recvState, recvBuf>>
       ELSE /\ want' = n
            /\ IF recvState = "Idle"
               THEN recvState' = "ReadingLength" /\ recvBuf' = <<>>
               ELSE UNCHANGED <<recvState, recvBuf>>
            /\ UNCHANGED <<readPos, delivered>>
    /\ UNCHANGED <<writerVars, tx, rcvd, link, aeadLen, recvL, recvP, readBuf,
                   outcome, written, flushed>>

Avail == Len(tx) - rcvd

\* The socket's poll_read yields k bytes, appended to what is buffered.
Taken(k) == recvBuf \o SubSeq(tx, rcvd + 1, rcvd + k)

\* The lengths v2_receive_length can return for buf: the true one, or, if the
\* keystreams disagree, anything.
DecryptedSizes(buf, ctr) ==
    IF Genuine(buf, 1, ctr) THEN {buf[1].size} ELSE 0..MaxWrite

\* The ReadingLength arm: on the third byte the length is decrypted at once.
ReadLength(k) ==
    /\ want > 0
    /\ recvState = "ReadingLength"
    /\ k <= Avail
    /\ Len(recvBuf) + k <= LenBytes
    /\ rcvd' = rcvd + k
    /\ IF Len(recvBuf) + k < LenBytes
       THEN recvBuf' = Taken(k) /\ UNCHANGED <<recvState, aeadLen, recvL>>
       ELSE /\ \E size \in DecryptedSizes(Taken(k), recvL) :
                   aeadLen' = Overhead + size
            /\ recvL' = recvL + 1
            /\ recvState' = "ReadingBody"
            /\ recvBuf' = <<>>
    /\ UNCHANGED <<writerVars, tx, link, want, recvP, readBuf, readPos, outcome,
                   ghostVars>>

\* v2_receive_contents accepts body: it is the whole AEAD part of the packet
\* sealed at the receiver's counter.
Authentic(body) ==
    /\ Genuine(body, LenBytes + 1, recvP)
    /\ Len(body) = Overhead + body[1].size

\* The ReadingBody arm. The full body is decrypted at once: an authentication
\* failure is an error and advances nothing, a decoy is dropped and the loop
\* goes on from Idle, a packet is served to the caller and ends the poll.
\* Ready with no bytes means end of stream to the caller: outcome "zero".
ReadBody(k) ==
    /\ want > 0
    /\ recvState = "ReadingBody"
    /\ k <= Avail
    /\ Len(recvBuf) + k <= aeadLen
    /\ rcvd' = rcvd + k
    /\ LET body == Taken(k)
           size == body[1].size
           served == Min(want, size)
       IN
       \/ /\ Len(body) < aeadLen
          /\ recvBuf' = body
          /\ UNCHANGED <<recvState, aeadLen, recvP, readBuf, readPos, want, outcome,
                         delivered>>
       \/ /\ Len(body) = aeadLen
          /\ ~Authentic(body)
          /\ recvBuf' = body
          /\ outcome' = "auth"
          /\ want' = 0
          /\ UNCHANGED <<recvState, aeadLen, recvP, readBuf, readPos, delivered>>
       \/ /\ Len(body) = aeadLen
          /\ Authentic(body)
          /\ recvP' = recvP + 1
          /\ recvBuf' = <<>>
          /\ aeadLen' = 0
          /\ IF body[1].ignore = 1
             THEN /\ recvState' = "ReadingLength"
                  /\ UNCHANGED <<readBuf, readPos, want, outcome, delivered>>
             ELSE /\ recvState' = "Idle"
                  /\ readBuf' = Bytes(body[1].from, size)
                  /\ readPos' = served
                  /\ delivered' = delivered \o Bytes(body[1].from, served)
                  /\ want' = 0
                  /\ outcome' = IF served = 0 THEN "zero" ELSE outcome
    /\ UNCHANGED <<writerVars, tx, link, recvL, written, flushed>>

\* The bytes taken are kept in a future that Pending drops.
ReadPendingBug ==
    /\ want > 0
    /\ Avail = 0
    /\ link = "up"
    /\ want' = 0
    /\ recvBuf' = <<>>
    /\ UNCHANGED <<writerVars, tx, rcvd, link, recvState, aeadLen, recvL, recvP,
                   readBuf, readPos, outcome, ghostVars>>

\* The socket has nothing: poll_read returns Pending, and the caller may drop
\* the read and poll again later with another buffer.
ReadPending ==
    /\ want > 0
    /\ Avail = 0
    /\ link = "up"
    /\ want' = 0
    /\ UNCHANGED <<writerVars, tx, rcvd, link, recvVars, outcome, ghostVars>>

\* The end of the connection is reported before the bytes that precede it.
ReadClosedBug ==
    /\ want > 0
    /\ link # "up"
    /\ outcome' = IF link = "fin" THEN "eof" ELSE "reset"
    /\ want' = 0
    /\ UNCHANGED <<writerVars, tx, rcvd, link, recvVars, ghostVars>>

\* The socket reports end of file or an error: poll_read fails, at a packet
\* boundary too ("connection closed during BIP324 length read").
ReadClosed ==
    /\ want > 0
    /\ Avail = 0
    /\ link # "up"
    /\ outcome' = IF link = "fin" THEN "eof" ELSE "reset"
    /\ want' = 0
    /\ UNCHANGED <<writerVars, tx, rcvd, link, recvVars, ghostVars>>

-----------------------------------------------------------------------------
Writer ==
    \/ \E n \in 0..MaxWrite, k \in 0..NetCap : PollWrite(n, k)
    \/ \E k \in 0..NetCap : PollWritePending(k) \/ PollFlush(k)
    \/ DropWriter

Peer == \E n \in 0..MaxWrite, k \in 0..NetCap : PeerDecoy(n, k)

Reader ==
    \/ \E n \in 1..MaxRead : PollRead(n)
    \/ \E k \in 1..NetCap : ReadLength(k) \/ ReadBody(k)
    \/ ReadPending
    \/ ReadClosed

Next == Writer \/ Peer \/ Reset \/ Reader

Spec == Init /\ [][Next]_vars

\* The runtime polls a task again when its socket is ready, and tokio's copy
\* loop flushes the stream whenever its own source has nothing to read.
Fairness ==
    /\ WF_vars(\E k \in 1..NetCap : PollFlush(k))
    /\ WF_vars(Reader)

FairSpec == Spec /\ Fairness

-----------------------------------------------------------------------------
(* Properties *)

TypeOK ==
    /\ flushBuf \in Seq(Cell) /\ flushPos \in Nat
    /\ sendL \in Nat /\ sendP \in Nat
    /\ tx \in Seq(Cell) /\ rcvd \in 0..Len(tx)
    /\ link \in {"up", "fin", "reset"}
    /\ want \in 0..MaxRead
    /\ recvState \in {"Idle", "ReadingLength", "ReadingBody"}
    /\ recvBuf \in Seq(Cell) /\ aeadLen \in Nat
    /\ recvL \in Nat /\ recvP \in Nat
    /\ readBuf \in Seq(Nat) /\ readPos \in 0..Len(readBuf)
    /\ outcome \in {"open", "eof", "reset", "auth", "zero"}
    /\ written \in 0..MaxBytes /\ flushed \in Nat
    /\ delivered \in Seq(Nat)

(* CANCEL SAFETY (mod.rs:24-29): however TCP fragments the stream and       *)
(* wherever polls are abandoned, every packet opens under the receiver's   *)
(* ciphers, and no read reports end of stream by returning no bytes.       *)
NeverDesynchronised == outcome \notin {"auth", "zero"}

(* The reader has received exactly the first bytes the writer's poll_write *)
(* accepted: none lost, repeated, reordered or invented, although          *)
(* poll_write reports bytes as written while they still sit in flush_buf.  *)
DeliveredIsPrefix ==
    /\ Len(delivered) <= written
    /\ \A i \in 1..Len(delivered) : delivered[i] = i

(* A writer that flushed before dropping its stream loses nothing: the     *)
(* reader is told of the end only after every byte flushed.                *)
FlushOutlivesWriter == outcome = "eof" => flushed <= Len(delivered)

-----------------------------------------------------------------------------
(* The inductive invariant behind the properties above.                    *)

\* Plaintext bytes a packet adds to the stream.
Carried(c) == IF c.ignore = 1 THEN 0 ELSE c.size

\* Bytes of the packet of cell x that follow x, and the d-th of them.
Left(x) == PacketLen(x.size) - x.off
After(x, d) == CellOf(x.ctr, x.from, x.size, x.ignore, x.off + d)

\* The first p bytes of t end a packet, and the next packet is sealed at ctr
\* and starts after `from` bytes of the stream.
BoundaryAt(t, p, ctr, from) ==
    IF p = 0
    THEN ctr = 0 /\ from = 0
    ELSE Left(t[p]) = 0 /\ ctr = t[p].ctr + 1 /\ from = t[p].from + Carried(t[p])

\* Every byte on the wire lies in a packet sealed so far, whose bytes were
\* written, and which is not empty unless it is a decoy.
WireCells ==
    \A i \in 1..Len(tx) :
        /\ tx[i].off > 0
        /\ Left(tx[i]) \in Nat
        /\ tx[i].from + Carried(tx[i]) <= written
        /\ tx[i].ctr < sendP
        /\ tx[i].ignore = 1 \/ tx[i].size > 0

\* In the first n bytes of t, those of one packet follow each other.
Runs(t, n) ==
    \A i \in 1..n : \A d \in 0..Left(t[i]) : i + d <= n => t[i + d] = After(t[i], d)

\* In the first n bytes of t, where a packet ends the next one starts.
Boundaries(t, n) ==
    \A i \in 1..n :
        (i = 1 \/ Left(t[i - 1]) = 0) =>
            t[i].off = 1 /\ BoundaryAt(t, i - 1, t[i].ctr, t[i].from)

\* The first n bytes of t end with z, or with a whole packet if z is no byte
\* but the place before the first byte of a packet.
Reached(t, n, z) ==
    /\ z.off = 0 => BoundaryAt(t, n, z.ctr, z.from)
    /\ z.off > 0 => n > 0 /\ t[n] = z

\* The place before the first byte of the packet of x.
Lead(x) == CellOf(x.ctr, x.from, x.size, x.ignore, 0)

\* p is the whole packet that follows z.
IsPacket(p, z) ==
    /\ Len(p) = Left(z)
    /\ \A i \in 1..Len(p) : p[i] = After(z, i)

\* The packet p after z was sealed last, and TCP has its first pos bytes.
Sending(p, pos, z) ==
    /\ IsPacket(p, z)
    /\ pos < Len(p)
    /\ sendP = z.ctr + 1
    /\ written = z.from + Carried(z)
    /\ z.ignore = 1 \/ z.size > 0
    /\ Reached(tx, Len(tx), After(z, pos))

WriterInv ==
    /\ sendL = sendP
    /\ flushBuf = <<>> => flushPos = 0
    /\ (link = "up" /\ flushBuf = <<>>) => BoundaryAt(tx, Len(tx), sendP, written)
    /\ (link = "up" /\ flushBuf # <<>>) => Sending(flushBuf, flushPos, Lead(flushBuf[1]))

\* Plaintext bytes the reader has opened.
Opened == Len(delivered) + (Len(readBuf) - readPos)

\* Where the field being received starts in tx.
FieldStart == rcvd - Len(recvBuf)

\* The packet being received started where the last one ended, and RecvState
\* holds what was taken of its current field.
ReaderInv ==
    /\ Len(recvBuf) <= rcvd
    /\ \A i \in 1..Len(recvBuf) : recvBuf[i] = tx[FieldStart + i]
    /\ recvState = "Idle" => recvBuf = <<>>
    /\ recvState = "ReadingLength" => Len(recvBuf) < LenBytes
    /\ recvState # "ReadingBody" =>
           recvL = recvP /\ BoundaryAt(tx, FieldStart, recvP, Opened)
    /\ recvState = "ReadingBody" =>
           /\ recvL = recvP + 1
           /\ FieldStart > 0
           /\ tx[FieldStart].off = LenBytes
           /\ tx[FieldStart].ctr = recvP
           /\ tx[FieldStart].from = Opened
           /\ aeadLen = Overhead + tx[FieldStart].size
           /\ Len(recvBuf) < aeadLen

\* The reader's plaintext buffer continues what it has delivered.
PlaintextInv ==
    /\ \A i \in 1..Len(delivered) : delivered[i] = i
    /\ \A i \in 1..Len(readBuf) : readBuf[i] = i + Len(delivered) - readPos
    /\ readPos <= Len(delivered)
    /\ Opened <= written
    /\ want > 0 => readPos = Len(readBuf) /\ recvState # "Idle"

\* Plaintext bytes in the packets that are whole in the first n bytes of t.
Whole(t, n) ==
    IF n = 0 THEN 0 ELSE IF Left(t[n]) = 0 THEN t[n].from + Carried(t[n]) ELSE t[n].from

\* Flushed bytes are in packets TCP has in full.
FlushInv ==
    /\ outcome = "eof" => link = "fin"
    /\ flushed <= written
    /\ link # "reset" => flushed <= Whole(tx, Len(tx))

IInv ==
    /\ TypeOK
    /\ NeverDesynchronised
    /\ FlushOutlivesWriter
    /\ WireCells
    /\ Runs(tx, Len(tx))
    /\ Boundaries(tx, Len(tx))
    /\ WriterInv
    /\ ReaderInv
    /\ PlaintextInv
    /\ FlushInv

(* The stream implements the reliable byte channel the relay relies on.    *)
Chan == INSTANCE ByteChannel
ImplementsByteChannel == Chan!ChanSpec

(* While the connection lives and both ends are polled, every byte the     *)
(* writer accepted reaches the reader, also when poll_write returned with  *)
(* the packet still in flush_buf.                                          *)
AcceptedIsDelivered ==
    \A n \in 1..MaxBytes :
        written >= n ~> (Len(delivered) >= n \/ link # "up")
=============================================================================
