-------------------------------- MODULE Rlpx --------------------------------
(***************************************************************************)
(* A connection over RLPx: the handshake (RlpxHandshake) and, once it has  *)
(* made a client's session, the direction from client to server of the     *)
(* stream (RlpxStream), whose frames are counted from there.               *)
(***************************************************************************)
EXTENDS RlpxHandshake, RlpxStream

RlpxInit == HandshakeInit /\ Init

\* The functions have returned at both ends, and RlpxStream::new wraps what
\* they returned.
Established == at["front"][I] = "open" /\ at["front"][R] = "ark"

Shaking == HandshakeNext /\ UNCHANGED vars
Streaming == Established /\ Next /\ UNCHANGED hsVars

RlpxNext == Shaking \/ Streaming

RlpxSpec == RlpxInit /\ [][RlpxNext]_<<hsVars, vars>> /\ HandshakeFairness
=============================================================================
