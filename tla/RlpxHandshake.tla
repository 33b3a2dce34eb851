---------------------------- MODULE RlpxHandshake ---------------------------
(***************************************************************************)
(* ark-core/src/rlpx/handshake.rs: the RLPx handshake of this code with    *)
(* itself and with Ethereum nodes, at both ends. The "front" leg is a peer *)
(* and the server; for a peer that is no client the server opens the       *)
(* "back" leg to the local geth (relay_to_local_geth).                     *)
(*                                                                         *)
(* Nonces and ephemeral keys are named by the end that draws them; a       *)
(* signature yields the key that made it. A hash is the tuple it is taken  *)
(* of. read_exact waits for all it wants, so that a message arrives whole  *)
(* or not at all.                                                          *)
(***************************************************************************)
EXTENDS Naturals, Sequences

I == "initiator"
R == "responder"
Legs == {"front", "back"}

\* How a message comes: EIP-8, or without a size and as flat fields. "long" is
\* EIP-8 of 1024 to 1279 bytes, whose first byte is the one of a point; "high"
\* is flat and begins with 0xc0 or one from 0xf7 on; "geth1" is what nodes sent
\* before EIP-8 (307 bytes); "other" is another protocol's.
Eip8 == {"eip8", "long"}
Flat == {"flat", "high", "geth1"}
Forms == Eip8 \cup Flat \cup {"other"}

\* Who connects: a client, which may have another key for the server's, or a
\* node, which may claim ARK1 and go on with something else.
Peers ==
    [client : {TRUE}, form : {"eip8"}, keyed : BOOLEAN, ark1 : {TRUE}, extra : BOOLEAN]
    \cup [client : {FALSE}, form : Forms, keyed : {TRUE}, ark1 : BOOLEAN, extra : {FALSE}]

VARIABLES
    peer,        \* who connects
    geth,        \* the form of geth's ack
    at,          \* per leg and end: where it is
    wire,        \* per leg and end: what it has sent and the other has not read
    session,     \* per leg and end: its frame states
    left,        \* per leg: the ends that have closed
    marker       \* what the server found behind ARK1 and the UUID

hsVars == <<peer, geth, at, wire, session, left, marker>>

NoSession == [egress |-> <<>>, ingress |-> <<>>, out |-> 0, in |-> 0]

HandshakeInit ==
    /\ peer \in Peers
    /\ geth \in IF peer.client THEN {"eip8"} ELSE {"eip8", "flat"}
    /\ at = [front |-> [initiator |-> "auth", responder |-> "auth"],
             back |-> [initiator |-> "idle", responder |-> "auth"]]
    /\ wire = [l \in Legs |-> [e \in {I, R} |-> <<>>]]
    /\ session = [l \in Legs |-> [e \in {I, R} |-> NoSession]]
    /\ left = [l \in Legs |-> {}]
    /\ marker = "none"

-----------------------------------------------------------------------------
(* Messages, keys and frames                                               *)

\* The form of the message an end sends, and whether its Hello has ARK1: the
\* server's, and the client's Hello, which it also sends to geth.
FormOf(l, e) ==
    IF l = "front" THEN IF e = I THEN peer.form ELSE "eip8" ELSE IF e = I THEN "eip8" ELSE geth
HasArk1(l, e) == e = I /\ (l = "front" => peer.ark1)

Message(l, e) == [from |-> e, form |-> FormOf(l, e)]

\* What enters the MAC of a message: what was sent, with its size.
WireOf(m) == IF m.form \in Eip8 THEN <<"size", m>> ELSE <<m>>

\* The peek: a first byte of 0x04 is a flat message's, of one length.
TakenForFlat(m) == m.form \in Flat \cup {"long"}

\* ecies_decrypt takes the whole of a message only, with the size as AAD or
\* without.
Decrypts(m) == IF TakenForFlat(m) THEN m.form \in {"flat", "high"} ELSE m.form = "eip8"

\* decode_auth_body tells the layouts apart by a first byte that a signature
\* may have as well; decode_ack_body by one that no key's is here.
DecodesAuth(m) == Decrypts(m) /\ m.form # "high"
DecodesAck(m) == Decrypts(m)

\* derive_rlpx_keys, of the shared point of two ephemeral keys.
Secrets(nonceR, nonceI) == <<{I, R}, nonceR, nonceI>>

\* An XBug is X with a slip: the initiator's MACs are copied to the responder.
SessionOfBug(e, authWire, ackWire) ==
    [egress |-> <<Secrets(R, I), R, authWire>>, ingress |-> <<Secrets(R, I), I, ackWire>>,
     out |-> 0, in |-> 0]

\* An initiator seals with the responder's nonce and the auth it sent.
SessionOf(e, authWire, ackWire) ==
    LET byInitiator == <<Secrets(R, I), R, authWire>>
        byResponder == <<Secrets(R, I), I, ackWire>>
    IN [egress |-> IF e = I THEN byInitiator ELSE byResponder,
        ingress |-> IF e = I THEN byResponder ELSE byInitiator,
        out |-> 0, in |-> 0]

Frame(s, text) == [mac |-> s.egress, n |-> s.out, text |-> text]
Opens(s, f) == f.mac = s.ingress /\ f.n = s.in
Sent(s) == [s EXCEPT !.out = @ + 1]
Read(s) == [s EXCEPT !.in = @ + 1]

Other(e) == IF e = I THEN R ELSE I

-----------------------------------------------------------------------------
(* Either end                                                              *)

Arrived(l, e) == wire[l][Other(e)]

\* An end goes to a place, having read the next message or nothing, written
\* `out`, and with frame states s.
Step(l, e, place, reads, out, s) ==
    /\ at' = [at EXCEPT ![l][e] = place]
    /\ wire' = [wire EXCEPT ![l][e] = @ \o out,
                            ![l][Other(e)] = IF reads THEN Tail(@) ELSE @]
    /\ session' = [session EXCEPT ![l][e] = s]
    /\ UNCHANGED <<peer, geth>>

\* An error: the function returns and its stream is dropped, but for the server,
\* which takes it for a probe and holds the connection.
Fails(l, e) ==
    /\ at' = [at EXCEPT ![l][e] = "failed"]
    /\ left' = IF <<l, e>> = <<"front", R>> THEN left ELSE [left EXCEPT ![l] = @ \cup {e}]
    /\ UNCHANGED <<peer, geth, wire, session, marker>>

Waiting == {"auth", "ack", "hello", "marker"}

\* A read finds the end of the stream, or a write an error.
Loses(l, e) ==
    /\ at[l][e] \in Waiting
    /\ Other(e) \in left[l]
    /\ Fails(l, e)

-----------------------------------------------------------------------------
(* do_initiator_handshake                                                  *)

SendAuth(l) ==
    /\ at[l][I] = "auth"
    /\ Step(l, I, "ack", FALSE, <<Message(l, I)>>, NoSession)
    /\ UNCHANGED <<left, marker>>

\* The ack is read, the keys are derived, and Hello is sent.
ReadAck(l) ==
    /\ at[l][I] = "ack"
    /\ Arrived(l, I) # <<>>
    /\ LET ack == Head(Arrived(l, I))
           s == SessionOf(I, WireOf(Message(l, I)), WireOf(ack))
       IN IF DecodesAck(ack)
          THEN Step(l, I, "hello", TRUE, <<Frame(s, IF HasArk1(l, I) THEN "hello ARK1" ELSE "hello")>>,
                    Sent(s)) /\ UNCHANGED <<left, marker>>
          ELSE Fails(l, I)

\* The responder's Hello is read and ignored.
ReadHello(l) ==
    /\ at[l][I] = "hello"
    /\ Arrived(l, I) # <<>>
    /\ LET s == session[l][I] IN
       IF Opens(s, Head(Arrived(l, I)))
       THEN /\ Step(l, I, IF l = "front" /\ peer.ark1 THEN "marker" ELSE "open", TRUE, <<>>, Read(s))
            /\ UNCHANGED <<left, marker>>
       ELSE Fails(l, I)

\* The marker, with a hello of ARK-frame v2 behind it or without; what a node
\* sends is something else.
SendMarker ==
    /\ at["front"][I] = "marker"
    /\ LET s == session["front"][I]
           text == IF ~peer.client THEN "other" ELSE IF peer.extra THEN "marker+" ELSE "marker"
       IN Step("front", I, "open", FALSE, <<Frame(s, text)>>, Sent(s))
    /\ UNCHANGED <<left, marker>>

-----------------------------------------------------------------------------
(* do_responder_handshake                                                  *)

\* The auth is read, answered in EIP-8, and Hello sent before anything is read.
\* Another protocol's bytes are a size, and never that many.
ReadAuth(l) ==
    /\ at[l][R] = "auth"
    /\ Arrived(l, R) # <<>>
    /\ LET auth == Head(Arrived(l, R))
           s == SessionOf(R, WireOf(auth), WireOf(Message(l, R)))
       IN /\ auth.form # "other"
          /\ IF DecodesAuth(auth) /\ (l = "front" => peer.keyed)
             THEN /\ Step(l, R, "hello", TRUE, <<Message(l, R), Frame(s, "hello")>>, Sent(s))
                  /\ UNCHANGED <<left, marker>>
             ELSE Fails(l, R)

ReadPeerHello(l) ==
    /\ at[l][R] = "hello"
    /\ Arrived(l, R) # <<>>
    /\ LET s == session[l][R]
           f == Head(Arrived(l, R))
       IN IF Opens(s, f)
          THEN /\ Step(l, R, IF f.text = "hello ARK1" /\ l = "front" THEN "marker" ELSE "real",
                       TRUE, <<>>, Read(s))
               /\ UNCHANGED <<left, marker>>
          ELSE Fails(l, R)

\* The marker is taken for a whole frame.
ReadMarkerBug ==
    /\ at["front"][R] = "marker"
    /\ Arrived("front", R) # <<>>
    /\ LET s == session["front"][R]
           f == Head(Arrived("front", R))
       IN IF Opens(s, f) /\ f.text = "marker"
          THEN /\ Step("front", R, "ark", TRUE, <<>>, Read(s))
               /\ marker' = f.text
               /\ UNCHANGED left
          ELSE Fails("front", R)

ReadMarker ==
    /\ at["front"][R] = "marker"
    /\ Arrived("front", R) # <<>>
    /\ LET s == session["front"][R]
           f == Head(Arrived("front", R))
       IN IF Opens(s, f) /\ f.text \in {"marker", "marker+"}
          THEN /\ Step("front", R, "ark", TRUE, <<>>, Read(s))
               /\ marker' = f.text
               /\ UNCHANGED left
          ELSE Fails("front", R)

-----------------------------------------------------------------------------
(* The peer, the server behind the handshake, and geth                     *)

\* A peer leaves at any time, as a client does at its deadline; so does geth.
Leaves(l, e) ==
    /\ <<l, e>> \in {<<"front", I>>, <<"back", R>>}
    /\ e \notin left[l] /\ at[l][e] # "idle"
    /\ at[l][I] # "idle" /\ at["front"][R] # "ark"
    /\ left' = [left EXCEPT ![l] = @ \cup {e}]
    /\ at' = [at EXCEPT ![l][e] = "gone"]
    /\ UNCHANGED <<peer, geth, wire, session, marker>>

\* A probe is held until it leaves.
HoldEndsBug ==
    /\ at["front"][R] = "failed" /\ R \notin left["front"] /\ I \in left["front"]
    /\ left' = [left EXCEPT !["front"] = @ \cup {R}]
    /\ UNCHANGED <<peer, geth, at, wire, session, marker>>

\* tarpit_close: after its time, and silently.
HoldEnds ==
    /\ at["front"][R] = "failed" /\ R \notin left["front"]
    /\ left' = [left EXCEPT !["front"] = @ \cup {R}]
    /\ UNCHANGED <<peer, geth, at, wire, session, marker>>

\* handle_connection finds geth's key and address and reaches it, or it drops
\* the peer.
Relay ==
    /\ at["front"][R] = "real" /\ at["back"][I] = "idle"
    /\ at' = [at EXCEPT !["back"][I] = "auth"]
    /\ UNCHANGED <<peer, geth, wire, session, left, marker>>

NoRelay ==
    /\ at["front"][R] = "real" /\ at["back"][I] = "idle"
    /\ at' = [at EXCEPT !["front"][R] = "ended"]
    /\ left' = [left EXCEPT !["front"] = @ \cup {R}]
    /\ UNCHANGED <<peer, geth, wire, session, marker>>

\* relay_to_local_geth returns: with geth's handshake, or with either stream.
RelayEnds ==
    /\ at["front"][R] = "real"
    /\ \/ at["back"][I] = "failed"
       \/ at["back"][I] = "open" /\ (I \in left["front"] \/ R \in left["back"])
    /\ at' = [at EXCEPT !["front"][R] = "ended", !["back"][I] = "ended"]
    /\ left' = [front |-> left["front"] \cup {R}, back |-> left["back"] \cup {I}]
    /\ UNCHANGED <<peer, geth, wire, session, marker>>

Initiate(l) == SendAuth(l) \/ ReadAck(l) \/ ReadHello(l) \/ Loses(l, I)
Respond(l) == ReadAuth(l) \/ ReadPeerHello(l) \/ Loses(l, R)

HandshakeNext ==
    \/ \E l \in Legs : Initiate(l) \/ Respond(l) \/ \E e \in {I, R} : Leaves(l, e)
    \/ SendMarker \/ ReadMarker \/ HoldEnds \/ Relay \/ NoRelay \/ RelayEnds

\* Tasks that can go on do, on both sides; nobody has to leave, and geth and
\* nodes that answer do so in the end.
HandshakeFairness ==
    /\ \A l \in Legs : WF_hsVars(Initiate(l)) /\ WF_hsVars(Respond(l))
    /\ WF_hsVars(SendMarker) /\ WF_hsVars(ReadMarker) /\ WF_hsVars(HoldEnds)
    /\ WF_hsVars(Relay \/ NoRelay) /\ WF_hsVars(RelayEnds)

-----------------------------------------------------------------------------
(* Properties *)

(* Two ends that have derived keys seal and open with the same, and never  *)
(* with one state in both directions, whichever forms the auth and the ack *)
(* came in.                                                                *)
SessionsAgree ==
    \A l \in Legs :
        LET i == session[l][I]
            r == session[l][R]
        IN /\ i # NoSession => i.egress # i.ingress
           /\ i # NoSession /\ r # NoSession =>
                 i.egress = r.ingress /\ i.ingress = r.egress

\* EIP-8, or the flat form of SPEC.md, by who has the server's key and speaks
\* what it says it does.
Proper == peer.keyed /\ peer.form \in {"eip8", "flat"} /\ (peer.ark1 => peer.client)

(* The server takes a client for a client, with what came behind its       *)
(* marker, and a node without ARK1 for a node; neither end of a proper     *)
(* handshake fails unless the other has left.                              *)
PeersAreRecognised ==
    /\ at["front"][R] = "ark" => peer.client /\ marker = IF peer.extra THEN "marker+" ELSE "marker"
    /\ at["front"][R] = "real" => ~peer.ark1
    /\ Proper => \A e \in {I, R} :
          at["front"][e] = "failed" => at["front"][Other(e)] \in {"gone", "ended"}

(* Nobody who speaks RLPx waits for ever: a peer's handshake ends, or it   *)
(* is told by the end of the stream, and so does the server's with geth.   *)
HandshakesEnd ==
    \A l \in Legs : (at[l][I] \in {"ack", "hello"} /\ FormOf(l, I) # "other")
                        ~> at[l][I] \notin {"ack", "hello"}
=============================================================================
