------------------------------- MODULE Session ------------------------------
(***************************************************************************)
(* From a transport to a session: the client's activation                  *)
(* (ark-client/src/proxy.rs), the server's side of it                      *)
(* (ark-server/src/run.rs) and the ARK-frame protocol they speak           *)
(* (ark-core/src/arkframe.rs), over a transport that is two byte channels  *)
(* (ByteChannel).                                                          *)
(*                                                                         *)
(* From server to client a byte is [kind, n]: byte n of an ack, a status,  *)
(* or byte n of the target's data; its value matters when it is read as a  *)
(* status. From client to server an item is what one write sends: only     *)
(* read_exact without a deadline reads there.                              *)
(***************************************************************************)
EXTENDS Naturals, Sequences

CONSTANTS
    AckLen       \* V2_ACK_LEN

ASSUME SessionAssumption == AckLen \in Nat \ {0}

VARIABLES
    shaped,      \* whether the client's Shape asks for capabilities
    silent,      \* whether the server is a v0.1.x that sends no ack
    overlong,    \* whether build_request refuses the target (a domain of over
                 \* 253 bytes); a UDP_ASSOCIATE request is always built
    client,      \* the client's step
    taken,       \* how many bytes read_exact of the ack has taken
    late,        \* whether V2_ACK_DEADLINE has expired
    up,          \* client to server: items in the transport
    down,        \* server to client: bytes in the transport
    server,      \* the server's step
    dialled,     \* whether the server has dialled the target, or bound for UDP
    refused      \* whether it could not

setup == <<shaped, silent, overlong>>
sessionVars == <<shaped, silent, overlong, client, taken, late, up, down, server,
                 dialled, refused>>

Item(kind, n) == [kind |-> kind, n |-> n]

StatusOk == 0

\* What a byte says as a status byte: the last byte of an ack is its capability
\* bits, the others are those of the magic and the version, never zero. Data
\* may be any byte, zero for one.
AckValue(i) == IF i = AckLen THEN 3 ELSE 1
Value(b) == CASE b.kind = "ack" -> AckValue(b.n) [] b.kind = "status" -> b.n [] OTHER -> 0

Ack == [i \in 1..AckLen |-> Item("ack", i)]

SessionInit ==
    /\ shaped \in BOOLEAN /\ silent \in BOOLEAN /\ overlong \in BOOLEAN
    /\ client = "transport" /\ taken = 0 /\ late = FALSE
    /\ up = <<>> /\ down = <<>>
    /\ server = "marker" /\ dialled = FALSE /\ refused = FALSE

-----------------------------------------------------------------------------
(* The client: activate_proxied_stream, open_udp_associate_stream          *)

\* ARK1 and the UUID, with a v2 hello behind it when capabilities are asked.
SendMarker ==
    /\ client = "transport"
    /\ client' = IF shaped THEN "ack" ELSE "request"
    /\ up' = Append(up, Item("marker", IF shaped THEN 1 ELSE 0))
    /\ UNCHANGED <<setup, taken, late, down, server, dialled, refused>>

\* read_exact of the ack takes a byte; with the last one, or with the end of
\* the stream, the client goes on.
TakeAck ==
    /\ client = "ack"
    /\ down # <<>>
    /\ down' = Tail(down)
    /\ taken' = taken + 1
    /\ client' = IF taken' = AckLen THEN "request" ELSE "ack"
    /\ UNCHANGED <<setup, late, up, server, dialled, refused>>

AckEnds ==
    /\ client = "ack"
    /\ down = <<>> /\ server = "ended"
    /\ client' = "request"
    /\ UNCHANGED <<setup, taken, late, up, down, server, dialled, refused>>

\* An XBug is X with a slip. No deadline: only a server that ends ends the wait.
AckDeadlineBug ==
    /\ client = "ack" /\ server = "ended"
    /\ late' = TRUE
    /\ taken' = 0
    /\ client' = "request"
    /\ UNCHANGED <<setup, up, down, server, dialled, refused>>

\* The deadline expires: the bytes taken are dropped with the future.
AckDeadline ==
    /\ client = "ack"
    /\ late' = TRUE
    /\ taken' = 0
    /\ client' = "request"
    /\ UNCHANGED <<setup, up, down, server, dialled, refused>>

SendRequest ==
    /\ client = "request"
    /\ IF overlong
       THEN client' = "failed" /\ UNCHANGED up
       ELSE client' = "status" /\ up' = Append(up, Item("request", 0))
    /\ UNCHANGED <<setup, taken, late, down, server, dialled, refused>>

\* Any status opens the session.
ReadStatusBug ==
    /\ client = "status"
    /\ down # <<>>
    /\ down' = Tail(down)
    /\ client' = "open"
    /\ UNCHANGED <<setup, taken, late, up, server, dialled, refused>>

ReadStatus ==
    /\ client = "status"
    /\ down # <<>>
    /\ down' = Tail(down)
    /\ client' = IF Value(Head(down)) = StatusOk THEN "open" ELSE "failed"
    /\ UNCHANGED <<setup, taken, late, up, server, dialled, refused>>

\* The server has gone: a read finds the end of the stream, or a write or read
\* fails after a reset, whatever is still on its way.
ClientLoses ==
    /\ client \in {"transport", "request", "status"}
    /\ server = "ended"
    /\ client' = "failed"
    /\ UNCHANGED <<setup, taken, late, up, down, server, dialled, refused>>

\* The client drops the stream, or is killed.
ClientGoes ==
    /\ client # "gone"
    /\ client' = "gone"
    /\ UNCHANGED <<setup, taken, late, up, down, server, dialled, refused>>

-----------------------------------------------------------------------------
(* The server: the marker, server_negotiate_v2, serve_arkframe and the two *)
(* commands. That the UUID is known is Server's business.                  *)

\* Every client is sent an ack.
NegotiateBug ==
    /\ server = "marker"
    /\ up # <<>>
    /\ server' = "request"
    /\ up' = Tail(up)
    /\ down' = IF ~silent THEN down \o Ack ELSE down
    /\ UNCHANGED <<setup, client, taken, late, dialled, refused>>

\* The handshake returns the marker and what was in its packet; a hello is
\* answered at once.
Negotiate ==
    /\ server = "marker"
    /\ up # <<>>
    /\ server' = "request"
    /\ up' = Tail(up)
    /\ down' = IF Head(up).n = 1 /\ ~silent THEN down \o Ack ELSE down
    /\ UNCHANGED <<setup, client, taken, late, dialled, refused>>

ReadRequest ==
    /\ server = "request"
    /\ up # <<>>
    /\ server' = "dial"
    /\ up' = Tail(up)
    /\ UNCHANGED <<setup, client, taken, late, down, dialled, refused>>

\* The target answers, or the UDP socket is bound.
Dialled ==
    /\ server = "dial"
    /\ server' = "relay"
    /\ dialled' = TRUE
    /\ down' = Append(down, Item("status", StatusOk))
    /\ UNCHANGED <<setup, client, taken, late, up, refused>>

\* It does not: status_for_io_error maps no error to STATUS_OK.
DialFails ==
    /\ server = "dial"
    /\ server' = "ended"
    /\ refused' = TRUE
    /\ down' = Append(down, Item("status", 1))
    /\ UNCHANGED <<setup, client, taken, late, up, dialled>>

\* The server drops the stream, or is stopped.
ServerEnds ==
    /\ server # "ended"
    /\ server' = "ended"
    /\ UNCHANGED <<setup, client, taken, late, up, down, dialled, refused>>

-----------------------------------------------------------------------------
Activation ==
    \/ TakeAck \/ AckEnds \/ AckDeadline \/ SendRequest \/ ReadStatus \/ ClientLoses

Serve == Negotiate \/ ReadRequest \/ Dialled \/ DialFails

-----------------------------------------------------------------------------
(* Properties *)

(* An activation fails for a reason: the target refused, the request could *)
(* not be built, the server went away, or the ack came too late.           *)
FailsForAReason ==
    client = "failed" =>
        refused \/ server = "ended" \/ overlong \/ (late /\ ~silent)

(* "a v0.1.x server is silent and the client logs `server did not ack      *)
(* ARK-frame v2; falling back to v1` and proceeds" (README.md:248-250), on *)
(* a deadline and not on what the server is: the session of a client that  *)
(* falls back does not fail for having asked.                              *)
FallbackWorks ==
    client = "failed" => refused \/ server = "ended" \/ overlong
=============================================================================
