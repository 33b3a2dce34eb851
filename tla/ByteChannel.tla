---------------------------- MODULE ByteChannel ----------------------------
(***************************************************************************)
(* What ArkTunnel's encrypted transports promise the relay above them: one *)
(* direction of a reliable byte stream (`AsyncRead + AsyncWrite`).         *)
(*                                                                         *)
(* Bytes are identified by their position in the stream: the k-th byte the *)
(* writer hands over is the number k, so that order, loss and duplication  *)
(* are all visible in `delivered`.                                         *)
(***************************************************************************)
EXTENDS Naturals, Sequences

CONSTANT MaxBytes          \* bound on the bytes a behaviour may write

VARIABLES
    written,     \* bytes accepted from the writer by poll_write
    flushed,     \* `written` when poll_flush last returned Ok
    delivered,   \* the bytes handed to the reader, in order
    link,        \* the TCP connection: "up", "fin" (writer dropped) or "reset"
    outcome      \* what the reader was last told: "open", "eof" or "reset"

chanVars == <<written, flushed, delivered, link, outcome>>

\* n consecutive bytes of the stream after the first `from`.
Bytes(from, n) == [i \in 1..n |-> from + i]

ChanInit ==
    /\ written = 0
    /\ flushed = 0
    /\ delivered = <<>>
    /\ link = "up"
    /\ outcome = "open"

Accept(n) ==
    /\ link = "up"
    /\ written + n <= MaxBytes
    /\ written' = written + n
    /\ UNCHANGED <<flushed, delivered, link, outcome>>

\* A flush promises that the bytes written so far outlive the writer.
Flush ==
    /\ link = "up"
    /\ flushed' = written
    /\ UNCHANGED <<written, delivered, link, outcome>>

\* The reader gets the next bytes of the stream, and at least one of them: a
\* read of zero bytes means end of stream to every caller.
Deliver(n) ==
    /\ outcome = "open"
    /\ Len(delivered) + n <= written
    /\ delivered' = delivered \o Bytes(Len(delivered), n)
    /\ UNCHANGED <<written, flushed, link, outcome>>

Disconnect ==
    /\ link = "up"
    /\ link' \in {"fin", "reset"}
    /\ UNCHANGED <<written, flushed, delivered, outcome>>

\* The end of the stream is reported only after every flushed byte; a reset
\* may lose any suffix.
EndOfStream ==
    /\ outcome = "open"
    /\ \/ link = "fin" /\ flushed <= Len(delivered) /\ outcome' = "eof"
       \/ link = "reset" /\ outcome' = "reset"
    /\ UNCHANGED <<written, flushed, delivered, link>>

ChanNext ==
    \/ \E n \in 1..MaxBytes : Accept(n) \/ Deliver(n)
    \/ Flush
    \/ Disconnect
    \/ EndOfStream

ChanSpec == ChanInit /\ [][ChanNext]_chanVars
=============================================================================
