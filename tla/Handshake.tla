------------------------------ MODULE Handshake -----------------------------
(***************************************************************************)
(* ark-core/src/bip324/handshake.rs: the BIP 324 handshake of a client and *)
(* a server over TCP, the recognition of other peers, and the splice of    *)
(* ark-server/src/run.rs for a Bitcoin v1 node.                            *)
(*                                                                         *)
(* Every byte on the wire is a record [kind, n]: byte n of a public key    *)
(* ("key") or of a v1 stream ("v1"), garbage or a terminator's byte, or a  *)
(* whole packet, whose framing Bip324Stream models; n of a version packet  *)
(* is the garbage it authenticates. Garbage looks like the first byte of a *)
(* terminator, so that only a sliding comparison finds where it ends.      *)
(***************************************************************************)
EXTENDS Naturals, Sequences

CONSTANTS
    KeyLen,      \* bytes of an ElligatorSwift public key
    PrefixLen,   \* bytes of V1_PREFIX
    MaxGarbage,  \* MAX_GARBAGE_LEN
    NetCap,      \* bytes TCP holds in one direction
    V1Len        \* bound on the bytes a v1 node sends

\* write_all of key and garbage runs at both ends before either reads on: one
\* direction must be able to hold the longest garbage this code sends.
ASSUME HandshakeAssumption ==
    /\ PrefixLen \in Nat \ {0}
    /\ KeyLen \in Nat /\ PrefixLen < KeyLen
    /\ MaxGarbage \in Nat \ {0}
    /\ NetCap \in Nat \ {0} /\ NetCap + 1 >= MaxGarbage
    /\ V1Len \in Nat /\ V1Len >= PrefixLen

Initiator == "initiator"
Responder == "responder"
Ends == {Initiator, Responder}
Other(e) == IF e = Initiator THEN Responder ELSE Initiator

VARIABLES
    peer,        \* who the initiator is: "client" (this code), "v1" or "v2" (a
                 \* Bitcoin node of that protocol)
    at,          \* per end: the step of its handshake function it is in
    garbage,     \* per end: how many bytes of garbage it sends
    out,         \* per end: the bytes write_all has yet to hand to TCP
    wire,        \* per end: the bytes it has sent that are in TCP
    got,         \* per end: the bytes the current read has taken
    skipped,     \* per end: the garbage skip_garbage returned, in bytes
    gone,        \* whether the initiator has closed its socket
    node         \* the bytes bitcoind has received from the splice

net == <<out, wire, got>>
vars == <<peer, at, garbage, out, wire, got, skipped, gone, node>>

Byte(kind, n) == [kind |-> kind, n |-> n]
Run(kind, len) == [i \in 1..len |-> Byte(kind, i)]

\* The garbage terminators derive_session_keys gives to one end.
SendTerminator(e) == <<Byte("garbage", 0), Byte(e, 0)>>
RecvTerminator(e) == SendTerminator(Other(e))
TermLen == 2

KeyAndGarbage(e, len) == Run("key", KeyLen) \o [i \in 1..len |-> Byte("garbage", 0)]

Version(e) == <<Byte("version", garbage[e])>>

-----------------------------------------------------------------------------
\* What a peer writes before it reads: this code's garbage is shorter than the
\* longest the protocol allows (`% MAX_GARBAGE_LEN`).
Opening(p, len) == IF p = "v1" THEN Run("v1", V1Len) ELSE KeyAndGarbage(Initiator, len)

Lengths(p) == IF p = "v2" THEN 0..MaxGarbage ELSE 0..MaxGarbage - 1

Init ==
    /\ peer \in {"client", "v1", "v2"}
    /\ \E i \in Lengths(peer), r \in Lengths("client") :
          /\ garbage = [e \in Ends |-> IF e = Initiator THEN i ELSE r]
          /\ out = [e \in Ends |-> IF e = Initiator THEN Opening(peer, i) ELSE <<>>]
    /\ at = [e \in Ends |-> IF e = Initiator THEN "key" ELSE "prefix"]
    /\ wire = [e \in Ends |-> <<>>]
    /\ got = [e \in Ends |-> <<>>]
    /\ skipped = [e \in Ends |-> 0]
    /\ gone = FALSE
    /\ node = <<>>

-----------------------------------------------------------------------------
(* TCP, write_all and read_exact                                           *)

\* write_all hands the next byte to TCP. Bytes stay there when the initiator
\* closes, except those it has not handed over.
Put(e) ==
    /\ out[e] # <<>>
    /\ Len(wire[e]) < NetCap
    /\ wire' = [wire EXCEPT ![e] = Append(@, Head(out[e]))]
    /\ out' = [out EXCEPT ![e] = Tail(@)]
    /\ UNCHANGED <<peer, at, garbage, got, skipped, gone, node>>

Last(s, len) == SubSeq(s, Len(s) - len + 1, Len(s))

\* An XBug is X with a slip. Here, the terminator counts as garbage.
FoundBug(e) ==
    /\ TermLen <= Len(got[e]) /\ Len(got[e]) < MaxGarbage
    /\ Last(got[e], TermLen) = RecvTerminator(e)

\* skip_garbage has read the terminator: it compares the last TermLen bytes
\* before each of MaxGarbage reads, and not after the last.
Found(e) ==
    /\ TermLen <= Len(got[e]) /\ Len(got[e]) < TermLen + MaxGarbage
    /\ Last(got[e], TermLen) = RecvTerminator(e)

Exhausted(e) == Len(got[e]) = TermLen + MaxGarbage

\* The bytes read_exact wants in the step an end is in.
Needed(e) ==
    CASE at[e] = "prefix" -> PrefixLen
      [] at[e] = "key" -> IF e = Initiator THEN KeyLen ELSE KeyLen - PrefixLen
      [] at[e] \in {"version", "marker"} -> 1
      [] OTHER -> 0

Wants(e) ==
    /\ out[e] = <<>>
    /\ IF at[e] = "skip" THEN ~Found(e) /\ ~Exhausted(e) ELSE Len(got[e]) < Needed(e)

Take(e) ==
    /\ Wants(e)
    /\ wire[Other(e)] # <<>>
    /\ got' = [got EXCEPT ![e] = Append(@, Head(wire[Other(e)]))]
    /\ wire' = [wire EXCEPT ![Other(e)] = Tail(@)]
    /\ UNCHANGED <<peer, at, garbage, out, skipped, gone, node>>

\* A read in step s is complete.
Has(e, s) == at[e] = s /\ out[e] = <<>> /\ ~Wants(e)

\* The end goes to step s and writes `bytes` first.
Go(e, s, bytes) ==
    /\ at' = [at EXCEPT ![e] = s]
    /\ out' = [out EXCEPT ![e] = bytes]
    /\ got' = [got EXCEPT ![e] = <<>>]

-----------------------------------------------------------------------------
(* Both handshake functions                                                *)

\* The terminator is kept until the responder's has come.
InitiatorReadsKeyBug ==
    /\ Has(Initiator, "key")
    /\ peer # "v1"
    /\ Go(Initiator, "skip", <<>>)
    /\ UNCHANGED <<peer, garbage, wire, skipped, gone, node>>

InitiatorReadsKey ==
    /\ Has(Initiator, "key")
    /\ peer # "v1"
    /\ Go(Initiator, "skip", SendTerminator(Initiator))
    /\ UNCHANGED <<peer, garbage, wire, skipped, gone, node>>

\* The prefix is V1_PREFIX: the bytes read are handed on with the socket.
ResponderSeesV1 ==
    /\ Has(Responder, "prefix")
    /\ got[Responder] = Run("v1", PrefixLen)
    /\ at' = [at EXCEPT ![Responder] = "splice"]
    /\ UNCHANGED <<peer, garbage, net, skipped, gone, node>>

\* It is not: these were the first bytes of a key.
ResponderSeesKey ==
    /\ Has(Responder, "prefix")
    /\ got[Responder] # Run("v1", PrefixLen)
    /\ Go(Responder, "key", <<>>)
    /\ UNCHANGED <<peer, garbage, wire, skipped, gone, node>>

ResponderReadsKey ==
    /\ Has(Responder, "key")
    /\ Go(Responder, "skip", KeyAndGarbage(Responder, garbage[Responder]))
    /\ UNCHANGED <<peer, garbage, wire, skipped, gone, node>>

\* skip_garbage returns what came before the terminator.
SkipGarbage(e) ==
    /\ Has(e, "skip")
    /\ Found(e)
    /\ skipped' = [skipped EXCEPT ![e] = Len(got[e]) - TermLen]
    /\ Go(e, "version", IF e = Initiator THEN Version(e) ELSE SendTerminator(e) \o Version(e))
    /\ UNCHANGED <<peer, garbage, wire, gone, node>>

\* The version packet opens under the garbage that was skipped.
Opens(e) == got[e] = <<Byte("version", skipped[e])>>

ReadVersion(e) ==
    /\ Has(e, "version")
    /\ Opens(e)
    /\ Go(e, IF e = Initiator THEN "idle" ELSE "marker", <<>>)
    /\ UNCHANGED <<peer, garbage, wire, skipped, gone, node>>

\* An error of the handshake function: the initiator closes its socket, the
\* responder's caller takes the peer for a probe.
Fails(e) ==
    \/ Has(e, "skip") /\ ~Found(e)
    \/ Has(e, "version") /\ ~Opens(e)

HandshakeFails(e) ==
    /\ Fails(e)
    /\ Go(e, IF e = Initiator THEN "failed" ELSE "probe", <<>>)
    /\ gone' = (gone \/ e = Initiator)
    /\ UNCHANGED <<peer, garbage, wire, skipped, node>>

\* The first application packet: the client's marker, whenever its pool hands
\* the stream to a session, or a Bitcoin node's message, or a decoy of its.
Speak(kind) ==
    /\ at[Initiator] = "idle"
    /\ out[Initiator] = <<>>
    /\ kind \in IF peer = "client" THEN {"marker"} ELSE {"message", "decoy"}
    /\ Go(Initiator, IF kind = "decoy" THEN "idle" ELSE "active", <<Byte(kind, 0)>>)
    /\ UNCHANGED <<peer, garbage, wire, skipped, gone, node>>

ReadMarker ==
    /\ Has(Responder, "marker")
    /\ LET kind == got[Responder][1].kind IN
       Go(Responder,
          CASE kind = "decoy" -> "marker" [] kind = "marker" -> "served" [] OTHER -> "probe",
          <<>>)
    /\ UNCHANGED <<peer, garbage, wire, skipped, gone, node>>

-----------------------------------------------------------------------------
(* The initiator leaves, and the splice                                    *)

\* The initiator gives up, for its deadline or any other reason.
Leave ==
    /\ ~gone
    /\ gone' = TRUE
    /\ at' = [at EXCEPT ![Initiator] = "left"]
    /\ out' = [out EXCEPT ![Initiator] = <<>>]
    /\ UNCHANGED <<peer, garbage, wire, got, skipped, node>>

Handshaking == at[Responder] \in {"prefix", "key", "skip", "version", "marker"}

\* The responder's next read or write fails: after a reset, or at the end of
\* the bytes the initiator has left behind.
PeerLost ==
    /\ gone
    /\ Handshaking
    /\ Go(Responder, "probe", <<>>)
    /\ UNCHANGED <<peer, garbage, wire, skipped, gone, node>>

\* The bytes peeked are not replayed.
SpliceStartsBug ==
    /\ at[Responder] = "splice"
    /\ at' = [at EXCEPT ![Responder] = "splicing"]
    /\ UNCHANGED <<peer, garbage, net, skipped, gone, node>>

\* splice_real_peer connects to bitcoind and replays the bytes peeked.
SpliceStarts ==
    /\ at[Responder] = "splice"
    /\ at' = [at EXCEPT ![Responder] = "splicing"]
    /\ node' = got[Responder]
    /\ UNCHANGED <<peer, garbage, net, skipped, gone>>

\* No splice is configured, or bitcoind cannot be reached.
SpliceDropped ==
    /\ at[Responder] = "splice"
    /\ Go(Responder, "dropped", <<>>)
    /\ UNCHANGED <<peer, garbage, wire, skipped, gone, node>>

SplicePumps ==
    /\ at[Responder] = "splicing"
    /\ wire[Initiator] # <<>>
    /\ node' = Append(node, Head(wire[Initiator]))
    /\ wire' = [wire EXCEPT ![Initiator] = Tail(@)]
    /\ UNCHANGED <<peer, at, garbage, out, got, skipped, gone>>

-----------------------------------------------------------------------------
Step(e) == Put(e) \/ Take(e) \/ SkipGarbage(e) \/ ReadVersion(e) \/ HandshakeFails(e)

Respond ==
    \/ ResponderSeesV1 \/ ResponderSeesKey \/ ResponderReadsKey \/ ReadMarker
    \/ PeerLost \/ SpliceStarts \/ SpliceDropped \/ SplicePumps

Next ==
    \/ \E e \in Ends : Step(e)
    \/ InitiatorReadsKey
    \/ Respond
    \/ \E kind \in {"marker", "message", "decoy"} : Speak(kind)
    \/ Leave

Spec == Init /\ [][Next]_vars

\* TCP delivers, and the runtime runs both tasks. A pooled stream may wait for
\* a session as long as it likes.
FairSpec ==
    /\ Spec
    /\ \A e \in Ends : WF_vars(Step(e))
    /\ WF_vars(InitiatorReadsKey)
    /\ WF_vars(Respond)

-----------------------------------------------------------------------------
(* Properties *)

(* A client of this code that stays is never refused and never taken for a *)
(* probe, whatever garbage both sides send and wherever TCP splits it; and *)
(* both agree on the garbage, which the version packets authenticate.      *)
ClientIsRecognised ==
    peer = "client" =>
        /\ at[Initiator] # "failed"
        /\ at[Responder] = "probe" => gone
        /\ \A e \in Ends : at[e] \in {"idle", "marker"} => skipped[e] = garbage[Other(e)]

(* "The splice MUST forward all bytes bidirectionally without              *)
(* modification" (SPEC.md:162): bitcoind receives the node's bytes from    *)
(* the first, those consumed to recognise it included.                     *)
SpliceIsVerbatim == node = Run("v1", Len(node))

(* Nobody waits for ever: a client's handshake comes to the marker and a   *)
(* v1 node's bytes reach bitcoind, unless they leave or no bitcoind is     *)
(* there. Both ends write their key and garbage before they read on.       *)
EveryPeerIsAnswered ==
    /\ (peer = "client") ~> (gone \/ at[Responder] \in {"marker", "served"})
    /\ (peer = "v1") ~> (gone \/ at[Responder] = "dropped" \/ Len(node) = V1Len)
=============================================================================
