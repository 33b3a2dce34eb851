----------------------------- MODULE RlpxStream ----------------------------
(***************************************************************************)
(* One direction of ark-core/src/rlpx/mod.rs `RlpxStream`: the writer's    *)
(* poll_write / poll_flush at one end, the reader's poll_read at the other, *)
(* and the TCP connection between them.                                    *)
(*                                                                         *)
(* A ciphertext byte is a cell [seq, from, size, off]: byte `off` of the   *)
(* seq-th frame, which carries bytes from+1 .. from+size of the stream.    *)
(* The receiver's AES-CTR and MAC states advance once per header and once  *)
(* per body, so `ingress` counts both: 2*seq before the header of frame    *)
(* seq, 2*seq + 1 between its header and its body. A MAC matches only the  *)
(* right cells at the right count.                                         *)
(***************************************************************************)
EXTENDS Naturals, Sequences

CONSTANTS
    HeaderLen,   \* wire bytes of a frame header with its MAC (32)
    Block,       \* frame data is padded to a multiple of this (16)
    MacLen,      \* bytes of the frame MAC (16)
    SizeMod,     \* the header's size field wraps here (2^24)
    NetCap,      \* bytes TCP holds between the two ends
    MaxWrite,    \* largest buffer passed to poll_write
    MaxRead,     \* largest buffer passed to poll_read
    MaxBytes     \* bound on the plaintext bytes of a behaviour

ASSUME RlpxAssumption ==
    /\ HeaderLen \in Nat \ {0}
    /\ Block \in Nat \ {0}
    /\ MacLen \in Nat \ {0}
    /\ SizeMod \in Nat /\ SizeMod >= Block
    /\ NetCap \in Nat \ {0}
    /\ MaxWrite \in Nat \ {0}
    /\ MaxRead \in Nat \ {0}
    /\ MaxBytes \in Nat \ {0}

VARIABLES
    writeBuf,    \* write_buf: how many of the last bytes written it holds
    flushBuf,    \* flush_buf: the encoded frame in flight, <<>> for None
    flushPos,    \* flush_pos
    egress,      \* frames encoded
    tx,          \* every byte TCP has accepted, in order
    rcvd,        \* how many of them the reader's end has taken
    link,        \* "up", "fin" (the writer's end was dropped) or "reset"
    ingress,     \* headers and bodies decoded
    readBuf,     \* read_buf
    readPos,     \* read_pos
    outcome,     \* "open", or the error poll_read ended with
    torn,        \* whether a Pending read has dropped bytes it had taken
    written,     \* bytes poll_write has accepted
    delivered    \* bytes poll_read has returned

readerVars == <<rcvd, ingress, readBuf, readPos, outcome, torn, delivered>>
vars == <<writeBuf, flushBuf, flushPos, egress, tx, rcvd, link, ingress,
          readBuf, readPos, outcome, torn, written, delivered>>

Bytes(from, n) == [i \in 1..n |-> from + i]

\* As in Bip324Stream, an XBug is X with a slip.
MinBug(a, b) == a

Min(a, b) == IF a < b THEN a ELSE b

\* The body of a frame: data padded to a whole number of blocks, then the MAC.
BodyLen(size) == ((size + Block - 1) \div Block) * Block + MacLen

\* The cipher and MAC states do not advance from frame to frame.
EncodeBug(seq, from, size) ==
    [i \in 1..HeaderLen + BodyLen(size) |->
        [seq |-> 0, from |-> from, size |-> size, off |-> i]]

\* encode_frame
Encode(seq, from, size) ==
    [i \in 1..HeaderLen + BodyLen(size) |->
        [seq |-> seq, from |-> from, size |-> size, off |-> i]]

-----------------------------------------------------------------------------
Init ==
    /\ writeBuf = 0 /\ flushBuf = <<>> /\ flushPos = 0 /\ egress = 0
    /\ tx = <<>> /\ rcvd = 0 /\ link = "up"
    /\ ingress = 0 /\ readBuf = <<>> /\ readPos = 0
    /\ outcome = "open" /\ torn = FALSE
    /\ written = 0 /\ delivered = <<>>

-----------------------------------------------------------------------------
(* The writer's end. *)

\* poll_write only appends to write_buf, which nothing bounds.
PollWrite(n) ==
    /\ link = "up"
    /\ written + n <= MaxBytes
    /\ writeBuf' = writeBuf + n
    /\ written' = written + n
    /\ UNCHANGED <<flushBuf, flushPos, egress, tx, link, readerVars>>

\* Steps 1 and 2 of poll_flush: write_buf is encoded only if no frame is in
\* flight, and the frame in flight goes to TCP until it is drained (Ok) or the
\* socket is not ready (Pending). poll_shutdown is poll_flush.
PollFlush(k) ==
    /\ link = "up"
    /\ LET fresh == flushBuf = <<>> /\ writeBuf > 0
           frame == IF fresh THEN Encode(egress, written - writeBuf, writeBuf) ELSE flushBuf
           pos == flushPos + k
       IN
       /\ pos <= Len(frame)
       /\ k <= NetCap - (Len(tx) - rcvd)
       /\ tx' = tx \o SubSeq(frame, flushPos + 1, pos)
       /\ writeBuf' = IF fresh THEN 0 ELSE writeBuf
       /\ egress' = IF fresh THEN egress + 1 ELSE egress
       /\ \/ pos < Len(frame) /\ flushBuf' = frame /\ flushPos' = pos
          \/ pos = Len(frame) /\ flushBuf' = <<>> /\ flushPos' = 0
    /\ UNCHANGED <<link, written, readerVars>>

DropWriter ==
    /\ link = "up"
    /\ link' = "fin"
    /\ writeBuf' = 0 /\ flushBuf' = <<>> /\ flushPos' = 0
    /\ UNCHANGED <<egress, tx, written, readerVars>>

Reset ==
    /\ link = "up"
    /\ link' = "reset"
    /\ tx' = SubSeq(tx, 1, rcvd)
    /\ UNCHANGED <<writeBuf, flushBuf, flushPos, egress, written, readerVars>>

-----------------------------------------------------------------------------
(* The reader's end. *)

Avail == Len(tx) - rcvd

\* Bytes first .. first+n-1 of one frame come next and the MAC verifies them.
Verifies(first, n, count) ==
    \A i \in 1..n :
        LET c == tx[rcvd + first + i - 1] IN
        /\ c.off = first + i - 1
        /\ 2 * c.seq + (IF c.off > HeaderLen THEN 1 ELSE 0) = count

\* poll_read, buffered plaintext first.
PollReadBuffered(n) ==
    /\ outcome = "open"
    /\ readPos < Len(readBuf)
    /\ LET k == Min(n, Len(readBuf) - readPos) IN
       /\ delivered' = delivered \o SubSeq(readBuf, readPos + 1, readPos + k)
       /\ readPos' = readPos + k
    /\ UNCHANGED <<writeBuf, flushBuf, flushPos, egress, tx, rcvd, link, ingress,
                   readBuf, outcome, torn, written>>

\* decode_frame_header succeeds, and the size it returns: three bytes of it.
HeaderVerifies == Avail >= HeaderLen /\ Verifies(1, HeaderLen, ingress)
HeaderSize == tx[rcvd + 1].size % SizeMod

BodyArrived == Avail >= HeaderLen + BodyLen(HeaderSize)

\* decode_frame_data succeeds: it was given the whole body, at the right count.
BodyVerifies ==
    /\ Verifies(HeaderLen + 1, BodyLen(HeaderSize), ingress + 1)
    /\ BodyLen(HeaderSize) = BodyLen(tx[rcvd + 1].size)

NeedFrame ==
    /\ outcome = "open"
    /\ readPos = Len(readBuf)
    /\ UNCHANGED <<writeBuf, flushBuf, flushPos, egress, tx, link, written>>

\* The socket has less than recv_frame needs.
Incomplete == Avail < HeaderLen \/ (HeaderVerifies /\ ~BodyArrived)

\* poll_read polls a recv_frame future of its own. If the socket runs dry first,
\* the future is dropped with the bytes it has taken, and with the header it
\* may have decoded.
PollReadPending ==
    /\ NeedFrame
    /\ link = "up"
    /\ Incomplete
    /\ rcvd' = Len(tx)
    /\ torn' = (torn \/ Avail > 0)
    /\ ingress' = IF Avail < HeaderLen THEN ingress ELSE ingress + 1
    /\ UNCHANGED <<readBuf, readPos, outcome, delivered>>

\* The socket ends inside a frame, or before one: read_exact fails.
PollReadClosed ==
    /\ NeedFrame
    /\ link # "up"
    /\ Incomplete
    /\ outcome' = IF link = "fin" THEN "eof" ELSE "reset"
    /\ UNCHANGED <<rcvd, ingress, readBuf, readPos, torn, delivered>>

\* The header MAC or the frame MAC does not match.
PollReadBadMac ==
    /\ NeedFrame
    /\ Avail >= HeaderLen
    /\ ~HeaderVerifies \/ (BodyArrived /\ ~BodyVerifies)
    /\ outcome' = "auth"
    /\ UNCHANGED <<rcvd, ingress, readBuf, readPos, torn, delivered>>

\* A whole frame is there and verifies: it is served to the caller.
PollReadFrame(n) ==
    /\ NeedFrame
    /\ HeaderVerifies
    /\ BodyArrived
    /\ BodyVerifies
    /\ LET k == Min(n, HeaderSize)
           from == tx[rcvd + 1].from
       IN
       /\ readBuf' = Bytes(from, HeaderSize)
       /\ readPos' = k
       /\ delivered' = delivered \o Bytes(from, k)
       /\ outcome' = IF k = 0 THEN "zero" ELSE outcome
    /\ rcvd' = rcvd + HeaderLen + BodyLen(HeaderSize)
    /\ ingress' = ingress + 2
    /\ UNCHANGED torn

-----------------------------------------------------------------------------
Next ==
    \/ \E n \in 1..MaxWrite : PollWrite(n)
    \/ \E k \in 0..NetCap : PollFlush(k)
    \/ DropWriter
    \/ Reset
    \/ \E n \in 1..MaxRead : PollReadBuffered(n) \/ PollReadFrame(n)
    \/ PollReadPending
    \/ PollReadClosed
    \/ PollReadBadMac

Spec == Init /\ [][Next]_vars

-----------------------------------------------------------------------------
(* Properties *)

(* Whatever TCP does to the frames and however reads are abandoned, the    *)
(* reader never gets wrong bytes: a stream that has lost its place fails   *)
(* a MAC, it is never read on.                                             *)
DeliveredIsPrefix ==
    /\ Len(delivered) <= written
    /\ \A i \in 1..Len(delivered) : delivered[i] = i

(* The cancel safety mod.rs of bip324 asks of poll_read, "must not drop    *)
(* partially-read bytes on Poll::Pending" (bip324/mod.rs:24): every frame  *)
(* the peer sealed opens.                                                  *)
NeverDesynchronised == outcome \notin {"auth", "zero"}

(* A frame the peer sealed fails to open for two reasons only: an earlier   *)
(* read was Pending with part of a frame in hand, or write_buf grew past   *)
(* what the three size bytes of a header can say (framing.rs:61-65).       *)
OnlyTornOrOversized ==
    (outcome \in {"auth", "zero"} /\ link # "reset") =>
        torn \/ \E i \in 1..Len(tx) : tx[i].size >= SizeMod
=============================================================================
