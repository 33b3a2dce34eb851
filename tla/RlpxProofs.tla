----------------------------- MODULE RlpxProofs -----------------------------
(***************************************************************************)
(* A connection over RLPx, for every value of the constants. The handshake *)
(* for every peer and every form of the messages: two ends that have keys  *)
(* have the same, and the server takes a peer for what it is. The stream,  *)
(* once a client's session is established: the reader gets a prefix of     *)
(* what was written, and a frame fails to open for two reasons only.       *)
(*                                                                         *)
(* The invariant of the handshake lists what may be on the wire by where   *)
(* the two ends are, and says that the frame states an end holds are those *)
(* it would derive from the messages of both. The invariant of the stream  *)
(* says that the bytes of the wire follow each other, frame by frame, and  *)
(* where in them the reader is that has dropped none.                      *)
(***************************************************************************)
EXTENDS Rlpx, SequenceLemmas

Ends == {I, R}
Places == {"idle", "auth", "ack", "hello", "marker", "open", "real", "ark",
           "failed", "gone", "ended"}

\* The frame states an end derives, its Hello, and the frame behind the peer's.
Derived(l, e) == SessionOf(e, WireOf(Message(l, I)), WireOf(Message(l, R)))
HelloOf(l, e) ==
    [mac |-> Derived(l, e).egress, n |-> 0, text |-> IF HasArk1(l, e) THEN "hello ARK1" ELSE "hello"]
MarkerOf(l) ==
    [mac |-> Derived(l, I).egress, n |-> 1,
     text |-> IF ~peer.client THEN "other" ELSE IF peer.extra THEN "marker+" ELSE "marker"]

\* What may be in either direction, and what is by where the two ends are.
WireInv(l) ==
    /\ wire[l][I] \in {<<>>, <<Message(l, I)>>, <<HelloOf(l, I)>>,
                       <<HelloOf(l, I), MarkerOf(l)>>, <<MarkerOf(l)>>}
    /\ wire[l][R] \in {<<>>, <<Message(l, R), HelloOf(l, R)>>, <<HelloOf(l, R)>>}
    /\ at[l][I] \in {"idle", "auth"} =>
          wire[l][I] = <<>> /\ wire[l][R] = <<>> /\ at[l][R] \in {"auth", "gone"}
    /\ at[l][I] = "ack" =>
          \/ wire[l][I] = <<Message(l, I)>> /\ wire[l][R] = <<>>
          \/ wire[l][I] = <<>> /\ wire[l][R] = <<Message(l, R), HelloOf(l, R)>>
    /\ at[l][I] = "hello" =>
          wire[l][R] = <<HelloOf(l, R)>> /\ wire[l][I] \in {<<>>, <<HelloOf(l, I)>>}
    /\ at[l][I] = "marker" =>
          wire[l][R] = <<>> /\ wire[l][I] \in {<<>>, <<HelloOf(l, I)>>}
    /\ at[l][R] = "auth" =>
          /\ at[l][I] \in {"idle", "auth", "ack", "gone"}
          /\ wire[l][I] \in {<<>>, <<Message(l, I)>>} /\ wire[l][R] = <<>>
    /\ at[l][R] = "hello" =>
          /\ wire[l][I] \in {<<>>, <<HelloOf(l, I)>>, <<HelloOf(l, I), MarkerOf(l)>>}
          /\ at[l][I] = "ack" => wire[l][I] = <<>>
          /\ at[l][I] \in {"hello", "marker"} => wire[l][I] = <<HelloOf(l, I)>>
    /\ at[l][R] = "marker" =>
          wire[l][I] \in {<<>>, <<MarkerOf(l)>>} /\ at[l][I] # "ack"

\* The frame states of an end are those it derives; while it waits, they count
\* what it has sent and read.
Sessions(l, e) ==
    [egress : {Derived(l, e).egress}, ingress : {Derived(l, e).ingress}, out : Nat, in : Nat]

SessionInv(l) ==
    /\ at[l][I] \in {"idle", "auth", "ack"} => session[l][I] = NoSession
    /\ at[l][R] = "auth" => session[l][R] = NoSession
    /\ \A e \in Ends :
          /\ session[l][e] = NoSession \/ session[l][e] \in Sessions(l, e)
          /\ at[l][e] = "hello" =>
                session[l][e] # NoSession /\ session[l][e].out = 1 /\ session[l][e].in = 0
          /\ at[l][e] = "marker" =>
                session[l][e] # NoSession /\ session[l][e].out = 1 /\ session[l][e].in = 1

\* Who is taken for what, at the front.
FrontInv ==
    /\ at["front"][R] # "gone" /\ at["front"][I] # "ended"
    /\ at["front"][I] = "marker" \/ at["front"][R] \in {"marker", "ark"} => peer.ark1
    /\ PeersAreRecognised

Ended == {"failed", "gone", "ended"}

TypeInv ==
    /\ peer \in Peers /\ geth \in {"eip8", "flat"}
    /\ at \in [Legs -> [Ends -> Places]]
    /\ DOMAIN wire = Legs /\ \A l \in Legs : DOMAIN wire[l] = Ends
    /\ DOMAIN session = Legs /\ \A l \in Legs : DOMAIN session[l] = Ends
    /\ left \in [Legs -> SUBSET Ends]
    /\ \A l \in Legs, e \in Ends : e \in left[l] => at[l][e] \in Ended

HandshakeInv ==
    /\ TypeInv
    /\ \A l \in Legs : WireInv(l) /\ SessionInv(l)
    /\ FrontInv

-----------------------------------------------------------------------------
\* The names that are compared.
LEMMA Names ==
    /\ I # R /\ I \in Ends /\ R \in Ends /\ Other(I) = R /\ Other(R) = I
    /\ "front" \in Legs /\ "back" \in Legs
    /\ \A e \in Ends : Other(e) \in Ends /\ Other(e) # e
BY DEF I, R, Ends, Other, Legs

\* Sequences of one and two messages.
LEMMA Short ==
    ASSUME NEW x, NEW y
    PROVE  /\ Head(<<x>>) = x /\ Tail(<<x>>) = <<>> /\ Head(<<x, y>>) = x /\ Tail(<<x, y>>) = <<y>>
           /\ <<>> \o <<x>> = <<x>> /\ <<x>> \o <<y>> = <<x, y>> /\ <<>> \o <<x, y>> = <<x, y>>
           /\ <<>> \o <<>> = <<>> /\ <<x>> \o <<>> = <<x>> /\ <<x, y>> \o <<>> = <<x, y>>
           /\ <<x>> # <<>> /\ <<x, y>> # <<>> /\ <<x>> # <<x, y>> /\ <<y>> # <<x, y>>
<1>1. <<>> \in Seq({x, y}) /\ <<x>> \in Seq({x, y}) /\ <<y>> \in Seq({x, y}) /\ <<x, y>> \in Seq({x, y})
  OBVIOUS
<1>2. Len(<<>>) = 0 /\ Len(<<x>>) = 1 /\ Len(<<y>>) = 1 /\ Len(<<x, y>>) = 2
  OBVIOUS
<1>3. Head(<<x>>) = x /\ Head(<<x, y>>) = x
  OBVIOUS
<1>4. Tail(<<x>>) = <<>> /\ Tail(<<x, y>>) = <<y>>
  OBVIOUS
<1>5. <<>> \o <<x>> = <<x>> /\ <<>> \o <<x, y>> = <<x, y>> /\ <<>> \o <<>> = <<>>
  BY <1>1
<1>6. <<x>> \o <<>> = <<x>> /\ <<x, y>> \o <<>> = <<x, y>>
  BY <1>1
<1>7. <<x>> \o <<y>> = <<x, y>>
  <2>1. <<x>> \o <<y>> \in Seq({x, y}) /\ Len(<<x>> \o <<y>>) = 2
    BY <1>1, <1>2
  <2>2. (<<x>> \o <<y>>)[1] = x /\ (<<x>> \o <<y>>)[2] = y
    BY <1>1, <1>2
  <2>3. \A w \in Seq({x, y}) : Len(w) = 2 => w = <<w[1], w[2]>>
    OBVIOUS
  <2> QED BY <2>1, <2>2, <2>3
<1> QED BY <1>1, <1>2, <1>3, <1>4, <1>5, <1>6, <1>7

\* Nobody changes who talks to whom, so that what is derived stays.
LEMMA Fixed ==
    ASSUME peer' = peer, geth' = geth
    PROVE  \A l, e : /\ Message(l, e)' = Message(l, e) /\ Derived(l, e)' = Derived(l, e)
                     /\ HelloOf(l, e)' = HelloOf(l, e) /\ MarkerOf(l)' = MarkerOf(l)
                     /\ Sessions(l, e)' = Sessions(l, e)
BY DEF Sessions, Message, FormOf, Derived, SessionOf, WireOf, HelloOf, HasArk1, MarkerOf

LEMMA LegFixed ==
    ASSUME NEW l, peer' = peer, geth' = geth
    PROVE  /\ Message(l, I)' = Message(l, I) /\ Message(l, R)' = Message(l, R)
           /\ HelloOf(l, I)' = HelloOf(l, I) /\ HelloOf(l, R)' = HelloOf(l, R)
           /\ MarkerOf(l)' = MarkerOf(l)
BY Fixed

\* A leg on which nothing happens.
LEMMA OtherLeg ==
    ASSUME NEW l, WireInv(l), SessionInv(l), peer' = peer, geth' = geth,
           at'[l][I] = at[l][I], at'[l][R] = at[l][R], wire'[l] = wire[l], session'[l] = session[l]
    PROVE  WireInv(l)' /\ SessionInv(l)'
<1>1. WireInv(l)'
  BY LegFixed DEF WireInv
<1>2. SessionInv(l)'
  BY Fixed DEF SessionInv, Ends
<1> QED BY <1>1, <1>2

\* End e of leg l goes to a place, and the other leg is left alone.
Moved(l, e, place) ==
    /\ TypeInv' /\ peer' = peer /\ geth' = geth
    /\ at'[l][e] = place /\ at'[l][Other(e)] = at[l][Other(e)]
    /\ \A k \in Legs \ {l} : at'[k] = at[k] /\ wire'[k] = wire[k] /\ session'[k] = session[k]

\* The frames of each end open at the other, and not at the end itself.
LEMMA Opened ==
    ASSUME NEW l, NEW e \in Ends
    PROVE  /\ Derived(l, e).egress = Derived(l, Other(e)).ingress
           /\ Derived(l, e).ingress = Derived(l, Other(e)).egress
           /\ Derived(l, e).egress # Derived(l, e).ingress
           /\ Derived(l, e).egress # <<>>
           /\ Derived(l, e).out = 0 /\ Derived(l, e).in = 0
           /\ Derived(l, e) \in Sessions(l, e)
BY DEF Derived, SessionOf, Sessions, Other, Ends, I, R

LEMMA Counting ==
    ASSUME NEW l, NEW e \in Ends, NEW s \in Sessions(l, e)
    PROVE  /\ s # NoSession
           /\ Sent(s) \in Sessions(l, e) /\ Sent(s).out = s.out + 1 /\ Sent(s).in = s.in
           /\ Read(s) \in Sessions(l, e) /\ Read(s).out = s.out /\ Read(s).in = s.in + 1
<1>1. s # NoSession
  BY Opened DEF Sessions, NoSession
<1> QED BY <1>1 DEF Sessions, Sent, Read

\* A leg moves, and nothing of the other does.
LEMMA LegMoves ==
    ASSUME HandshakeInv, NEW l \in Legs, TypeInv', peer' = peer, geth' = geth,
           \A k \in Legs \ {l} : at'[k] = at[k] /\ wire'[k] = wire[k] /\ session'[k] = session[k],
           WireInv(l)', SessionInv(l)', FrontInv'
    PROVE  HandshakeInv'
BY OtherLeg DEF HandshakeInv

\* What the server knows of the peer changes only at the front.
LEMMA FrontStays ==
    ASSUME FrontInv, at'["front"] = at["front"], marker' = marker, peer' = peer
    PROVE  FrontInv'
BY DEF FrontInv, PeersAreRecognised, Proper

\* An end that was not at its end goes on, at the front.
LEMMA FrontMoves ==
    ASSUME FrontInv, NEW e \in Ends, NEW place \in Places \ Ended,
           at'["front"][e] = place, at'["front"][Other(e)] = at["front"][Other(e)],
           at["front"][e] \notin Ended, marker' = marker, peer' = peer,
           place = "marker" => peer.ark1,
           e = R => place # "ark" /\ (place = "real" => ~peer.ark1)
    PROVE  FrontInv'
BY Names DEF FrontInv, PeersAreRecognised, Proper, Ended, Ends

\* An end goes on: what is left to show is what its leg is then like.
LEMMA GoesOn ==
    ASSUME HandshakeInv, NEW l \in Legs, NEW e \in Ends, NEW place \in Places \ Ended,
           Moved(l, e, place), marker' = marker, at[l][e] \notin Ended,
           l = "front" => /\ place = "marker" => peer.ark1
                          /\ e = R => place # "ark" /\ (place = "real" => ~peer.ark1),
           WireInv(l)', SessionInv(l)'
    PROVE  HandshakeInv'
<1>1. FrontInv'
  <2>1. CASE l = "front"
    BY <2>1, FrontMoves DEF HandshakeInv, Moved
  <2>2. CASE l # "front"
    BY <2>2, FrontStays, Names DEF HandshakeInv, Moved
  <2> QED BY <2>1, <2>2
<1> QED BY <1>1, LegMoves DEF Moved

LEMMA SendAuthStep ==
    ASSUME HandshakeInv, NEW l \in Legs, SendAuth(l)
    PROVE  HandshakeInv'
<1>1. /\ at[l][I] = "auth" /\ UNCHANGED <<left, marker>>
      /\ Step(l, I, "ack", FALSE, <<Message(l, I)>>, NoSession)
  BY DEF SendAuth
<1>2. WireInv(l) /\ SessionInv(l) /\ TypeInv
  BY DEF HandshakeInv
<1>3. /\ at'[l][I] = "ack" /\ at'[l][R] = at[l][R]
      /\ wire'[l][I] = wire[l][I] \o <<Message(l, I)>> /\ wire'[l][R] = wire[l][R]
      /\ session'[l][I] = NoSession /\ session'[l][R] = session[l][R]
      /\ Moved(l, I, "ack")
  BY <1>1, <1>2, Names DEF Step, TypeInv, Moved, Places, Ended
<1>4. wire[l][I] = <<>> /\ wire[l][R] = <<>> /\ at[l][R] \in {"auth", "gone"}
  BY <1>1, <1>2 DEF WireInv
<1>5. wire'[l][I] = <<Message(l, I)>>
  BY <1>3, <1>4, Short
<1>6. WireInv(l)'
  BY <1>3, <1>4, <1>5, Fixed DEF WireInv, Moved
<1>7. SessionInv(l)'
  BY <1>2, <1>3, <1>4, Fixed, Names DEF SessionInv, Ends, Moved
<1> QED BY <1>1, <1>3, <1>6, <1>7, GoesOn, Names DEF Places, Ended

\* An ack always decodes: the responders of both legs send EIP-8, or the flat
\* form of old nodes.
LEMMA ReadAckStep ==
    ASSUME HandshakeInv, NEW l \in Legs, ReadAck(l)
    PROVE  HandshakeInv'
<1> DEFINE s == Derived(l, I)
<1>1. WireInv(l) /\ SessionInv(l) /\ TypeInv
  BY DEF HandshakeInv
<1>2. at[l][I] = "ack" /\ wire[l][R] # <<>>
  BY Names DEF ReadAck, Arrived
<1>3. wire[l][I] = <<>> /\ wire[l][R] = <<Message(l, R), HelloOf(l, R)>>
  BY <1>1, <1>2 DEF WireInv
<1>4. Head(Arrived(l, I)) = Message(l, R)
  BY <1>3, Short, Names DEF Arrived
<1>5. DecodesAck(Message(l, R))
  BY <1>1, Names DEF DecodesAck, Decrypts, TakenForFlat, Message, FormOf, Flat, Eip8, TypeInv
<1>6. /\ Step(l, I, "hello", TRUE, <<HelloOf(l, I)>>, Sent(s))
      /\ UNCHANGED <<left, marker>>
  <2>1. /\ Step(l, I, "hello", TRUE,
                <<Frame(s, IF HasArk1(l, I) THEN "hello ARK1" ELSE "hello")>>, Sent(s))
        /\ UNCHANGED <<left, marker>>
    BY <1>4, <1>5 DEF ReadAck, Derived
  <2>2. Frame(s, IF HasArk1(l, I) THEN "hello ARK1" ELSE "hello") = HelloOf(l, I)
    BY Opened, Names DEF Frame, HelloOf
  <2> QED BY <2>1, <2>2
<1>7. /\ at'[l][I] = "hello" /\ at'[l][R] = at[l][R]
      /\ wire'[l][I] = wire[l][I] \o <<HelloOf(l, I)>> /\ wire'[l][R] = Tail(wire[l][R])
      /\ session'[l][I] = Sent(s) /\ session'[l][R] = session[l][R]
      /\ Moved(l, I, "hello")
  BY <1>1, <1>2, <1>6, Names DEF Step, TypeInv, Moved, Places, Ended
<1>8. wire'[l][I] = <<HelloOf(l, I)>> /\ wire'[l][R] = <<HelloOf(l, R)>>
  BY <1>3, <1>7, Short
<1>9. at[l][R] \notin {"auth", "marker"}
  BY <1>2, <1>3, <1>1, Short DEF WireInv
<1>10. WireInv(l)'
  BY <1>7, <1>8, <1>9, Fixed DEF WireInv, Moved
<1>11. Sent(s) \in Sessions(l, I) /\ Sent(s).out = 1 /\ Sent(s).in = 0 /\ Sent(s) # NoSession
  BY Opened, Counting, Names
<1>12. SessionInv(l)'
  BY <1>1, <1>7, <1>11, Fixed, Names DEF SessionInv, Ends, Moved
<1> QED BY <1>2, <1>6, <1>7, <1>10, <1>12, GoesOn, Names DEF Places, Ended

\* The responder's Hello always opens.
LEMMA ReadHelloStep ==
    ASSUME HandshakeInv, NEW l \in Legs, ReadHello(l)
    PROVE  HandshakeInv'
<1>1. WireInv(l) /\ SessionInv(l) /\ TypeInv
  BY DEF HandshakeInv
<1>2. at[l][I] = "hello"
  BY DEF ReadHello
<1>3. wire[l][R] = <<HelloOf(l, R)>> /\ wire[l][I] \in {<<>>, <<HelloOf(l, I)>>}
  BY <1>1, <1>2 DEF WireInv
<1>4. PICK s : s = session[l][I]
  OBVIOUS
<1>5. s \in Sessions(l, I) /\ s.out = 1 /\ s.in = 0
  BY <1>1, <1>2, <1>4, Names DEF SessionInv
<1>6. PICK place : place = IF l = "front" /\ peer.ark1 THEN "marker" ELSE "open"
  OBVIOUS
<1>7. Head(Arrived(l, I)) = HelloOf(l, R)
  BY <1>3, Short, Names DEF Arrived
<1>8. Opens(s, HelloOf(l, R))
  BY <1>5, Opened, Names DEF Opens, HelloOf, Sessions
<1>9. Step(l, I, place, TRUE, <<>>, Read(s)) /\ UNCHANGED <<left, marker>>
  BY <1>4, <1>6, <1>7, <1>8 DEF ReadHello
<1>10. /\ at'[l][I] = place /\ at'[l][R] = at[l][R]
       /\ wire'[l][I] = wire[l][I] \o <<>> /\ wire'[l][R] = Tail(wire[l][R])
       /\ session'[l][I] = Read(s) /\ session'[l][R] = session[l][R]
       /\ Moved(l, I, place)
  BY <1>1, <1>2, <1>6, <1>9, Names DEF Step, TypeInv, Moved, Places, Ended
<1>11. wire'[l][I] = wire[l][I] /\ wire'[l][R] = <<>>
  BY <1>3, <1>10, Short
<1>12. at[l][R] # "auth" /\ place \in {"marker", "open"}
  BY <1>1, <1>2, <1>6 DEF WireInv
<1>13. WireInv(l)'
  <2>1. peer' = peer /\ geth' = geth
    BY <1>10 DEF Moved
  <2>2. CASE place = "marker"
    BY <1>1, <1>2, <1>3, <1>10, <1>11, <1>12, <2>1, <2>2, LegFixed DEF WireInv
  <2>3. CASE place = "open"
    BY <1>1, <1>2, <1>3, <1>10, <1>11, <1>12, <2>1, <2>3, LegFixed DEF WireInv
  <2> QED BY <1>12, <2>2, <2>3
<1>14. Read(s) \in Sessions(l, I) /\ Read(s).out = 1 /\ Read(s).in = 1 /\ Read(s) # NoSession
  BY <1>5, Counting, Names
<1>15. SessionInv(l)'
  BY <1>1, <1>10, <1>12, <1>14, Fixed, Names DEF SessionInv, Ends, Moved
<1> QED BY <1>2, <1>6, <1>9, <1>10, <1>13, <1>15, GoesOn, Names DEF Places, Ended

LEMMA SendMarkerStep ==
    ASSUME HandshakeInv, SendMarker
    PROVE  HandshakeInv'
<1>0. PICK l : l = "front"
  OBVIOUS
<1>1. WireInv(l) /\ SessionInv(l) /\ TypeInv /\ l \in Legs
  BY <1>0, Names DEF HandshakeInv
<1>2. at[l][I] = "marker"
  BY <1>0 DEF SendMarker
<1>3. wire[l][R] = <<>> /\ wire[l][I] \in {<<>>, <<HelloOf(l, I)>>}
  BY <1>1, <1>2 DEF WireInv
<1>4. PICK s : s = session[l][I]
  OBVIOUS
<1>5. s \in Sessions(l, I) /\ s.out = 1 /\ s.in = 1
  BY <1>1, <1>2, <1>4, Names DEF SessionInv
<1>6. /\ Step(l, I, "open", FALSE, <<MarkerOf(l)>>, Sent(s))
      /\ UNCHANGED <<left, marker>>
  BY <1>0, <1>4, <1>5 DEF SendMarker, Frame, MarkerOf, Sessions
<1>7. /\ at'[l][I] = "open" /\ at'[l][R] = at[l][R]
      /\ wire'[l][I] = wire[l][I] \o <<MarkerOf(l)>> /\ wire'[l][R] = wire[l][R]
      /\ session'[l][I] = Sent(s) /\ session'[l][R] = session[l][R]
      /\ Moved(l, I, "open")
  BY <1>1, <1>2, <1>6, Names DEF Step, TypeInv, Moved, Places, Ended
<1>8. \/ wire[l][I] = <<>> /\ wire'[l][I] = <<MarkerOf(l)>>
      \/ wire[l][I] = <<HelloOf(l, I)>> /\ wire'[l][I] = <<HelloOf(l, I), MarkerOf(l)>>
  BY <1>3, <1>7, Short, ZenonT(30)
<1>9. at[l][R] # "auth" /\ (at[l][R] = "marker" => wire[l][I] = <<>>)
  <2>1. <<HelloOf(l, I)>> # <<MarkerOf(l)>>
    <3>1. HelloOf(l, I).n = 0 /\ MarkerOf(l).n = 1
      BY DEF HelloOf, MarkerOf
    <3> QED BY <3>1
  <2> QED BY <1>1, <1>2, <1>3, <2>1 DEF WireInv
<1>10. WireInv(l)'
  <2>1. peer' = peer /\ geth' = geth
    BY <1>7 DEF Moved
  <2>2. CASE wire[l][I] = <<>> /\ wire'[l][I] = <<MarkerOf(l)>>
    BY <1>1, <1>2, <1>3, <1>7, <1>9, <2>1, <2>2, LegFixed, Short DEF WireInv
  <2>3. CASE wire[l][I] = <<HelloOf(l, I)>> /\ wire'[l][I] = <<HelloOf(l, I), MarkerOf(l)>>
    BY <1>1, <1>2, <1>3, <1>7, <1>9, <2>1, <2>3, LegFixed, Short DEF WireInv
  <2> QED BY <1>8, <2>2, <2>3
<1>11. Sent(s) \in Sessions(l, I) /\ Sent(s) # NoSession
  BY <1>5, Counting, Names
<1>12. SessionInv(l)'
  BY <1>1, <1>7, <1>9, <1>11, Fixed, Names DEF SessionInv, Ends, Moved
<1> QED BY <1>1, <1>2, <1>6, <1>7, <1>10, <1>12, GoesOn, Names DEF Places, Ended

\* An end fails. The other is not one that has still to send its first message,
\* or has left.
LEMMA FailsStep ==
    ASSUME HandshakeInv, NEW l \in Legs, NEW e \in Ends, Fails(l, e), at[l][e] \in Waiting,
           e = I => at[l][R] # "auth",
           e = R => at[l][I] \notin {"idle", "auth"},
           l = "front" /\ Proper => at[l][Other(e)] \in Ended \ {"failed"}
    PROVE  HandshakeInv'
<1>1. WireInv(l) /\ SessionInv(l) /\ TypeInv /\ FrontInv
  BY DEF HandshakeInv
<1>2. /\ at'[l][e] = "failed" /\ at'[l][Other(e)] = at[l][Other(e)]
      /\ wire' = wire /\ session' = session /\ marker' = marker
      /\ Moved(l, e, "failed")
  BY <1>1, Names DEF Fails, TypeInv, Moved, Places, Ended
<1>3. WireInv(l)'
  BY <1>1, <1>2, Fixed, Names DEF WireInv, Moved, Waiting, Ends
<1>4. SessionInv(l)'
  BY <1>1, <1>2, Fixed, Names DEF SessionInv, Ends, Moved
<1>5. FrontInv'
  <2>1. CASE l = "front"
    BY <1>1, <1>2, <2>1, Names DEF FrontInv, PeersAreRecognised, Proper, Moved, Ended, Ends
  <2>2. CASE l # "front"
    BY <1>1, <1>2, <2>2, FrontStays, Names DEF Moved
  <2> QED BY <2>1, <2>2
<1> QED BY <1>2, <1>3, <1>4, <1>5, LegMoves DEF Moved

\* An end whose peer has left fails: neither fails first.
LEMMA LosesStep ==
    ASSUME HandshakeInv, NEW l \in Legs, NEW e \in Ends, Loses(l, e)
    PROVE  HandshakeInv'
<1>1. at[l][e] \in Waiting /\ Other(e) \in left[l] /\ Fails(l, e)
  BY DEF Loses
<1>2. at[l][Other(e)] \in Ended
  BY <1>1, Names DEF HandshakeInv, TypeInv
<1>3. l = "front" /\ Proper => at[l][Other(e)] # "failed"
  <2>1. \A f \in Ends : f = Other(Other(f))
    BY DEF Ends, Other
  <2> QED BY <1>1, <2>1, Names DEF HandshakeInv, FrontInv, PeersAreRecognised, Waiting, Ends
<1>4. (e = I => at[l][R] # "auth") /\ (e = R => at[l][I] \notin {"idle", "auth"})
  BY <1>2, Names DEF Ended
<1> QED BY <1>1, <1>2, <1>3, <1>4, FailsStep

LEMMA ReadAuthStep ==
    ASSUME HandshakeInv, NEW l \in Legs, ReadAuth(l)
    PROVE  HandshakeInv'
<1>1. WireInv(l) /\ SessionInv(l) /\ TypeInv
  BY DEF HandshakeInv
<1>2. at[l][R] = "auth" /\ wire[l][I] # <<>>
  BY Names DEF ReadAuth, Arrived
<1>3. wire[l][I] = <<Message(l, I)>> /\ wire[l][R] = <<>> /\ at[l][I] \in {"ack", "gone"}
  BY <1>1, <1>2 DEF WireInv
<1>4. Head(Arrived(l, R)) = Message(l, I)
  BY <1>3, Short, Names DEF Arrived
<1>5. PICK s : s = Derived(l, R)
  OBVIOUS
<1>6. CASE DecodesAuth(Message(l, I)) /\ (l = "front" => peer.keyed)
  <2>1. /\ Step(l, R, "hello", TRUE, <<Message(l, R), HelloOf(l, R)>>, Sent(s))
        /\ UNCHANGED <<left, marker>>
    <3>1. /\ Step(l, R, "hello", TRUE, <<Message(l, R), Frame(s, "hello")>>, Sent(s))
          /\ UNCHANGED <<left, marker>>
      BY <1>4, <1>5, <1>6 DEF ReadAuth, Derived
    <3>2. Frame(s, "hello") = HelloOf(l, R)
      BY <1>5, Opened, Names DEF Frame, HelloOf, HasArk1
    <3> QED BY <3>1, <3>2
  <2>2. /\ at'[l][R] = "hello" /\ at'[l][I] = at[l][I]
        /\ wire'[l][R] = wire[l][R] \o <<Message(l, R), HelloOf(l, R)>>
        /\ wire'[l][I] = Tail(wire[l][I])
        /\ session'[l][R] = Sent(s) /\ session'[l][I] = session[l][I]
        /\ Moved(l, R, "hello")
    BY <1>1, <1>2, <2>1, Names DEF Step, TypeInv, Moved, Places, Ended
  <2>3. wire'[l][R] = <<Message(l, R), HelloOf(l, R)>> /\ wire'[l][I] = <<>>
    BY <1>3, <2>2, Short
  <2>4. peer' = peer /\ geth' = geth
    BY <2>2 DEF Moved
  <2>5. WireInv(l)'
    BY <1>3, <2>2, <2>3, <2>4, LegFixed DEF WireInv
  <2>6. Sent(s) \in Sessions(l, R) /\ Sent(s).out = 1 /\ Sent(s).in = 0 /\ Sent(s) # NoSession
    BY <1>5, Opened, Counting, Names
  <2>7. SessionInv(l)'
    BY <1>1, <1>3, <2>2, <2>4, <2>6, Fixed, Names DEF SessionInv, Ends
  <2> QED BY <1>2, <2>1, <2>2, <2>5, <2>7, GoesOn, Names DEF Places, Ended
<1>7. CASE ~(DecodesAuth(Message(l, I)) /\ (l = "front" => peer.keyed))
  <2>1. Fails(l, R)
    BY <1>4, <1>7 DEF ReadAuth
  <2>2. l = "front" => ~Proper
    BY <1>7, Names DEF Proper, DecodesAuth, Decrypts, TakenForFlat, Message, FormOf, Flat, Eip8
  <2> QED BY <1>2, <1>3, <2>1, <2>2, FailsStep, Names DEF Waiting
<1> QED BY <1>6, <1>7

\* The initiator's Hello always opens.
LEMMA ReadPeerHelloStep ==
    ASSUME HandshakeInv, NEW l \in Legs, ReadPeerHello(l)
    PROVE  HandshakeInv'
<1>1. WireInv(l) /\ SessionInv(l) /\ TypeInv
  BY DEF HandshakeInv
<1>2. at[l][R] = "hello" /\ wire[l][I] # <<>>
  BY Names DEF ReadPeerHello, Arrived
<1>3. wire[l][I] \in {<<HelloOf(l, I)>>, <<HelloOf(l, I), MarkerOf(l)>>} /\ at[l][I] # "ack"
  BY <1>1, <1>2 DEF WireInv
<1>4. PICK s : s = session[l][R]
  OBVIOUS
<1>5. s \in Sessions(l, R) /\ s.out = 1 /\ s.in = 0
  BY <1>1, <1>2, <1>4, Names DEF SessionInv
<1>6. PICK place : place = IF HelloOf(l, I).text = "hello ARK1" /\ l = "front" THEN "marker" ELSE "real"
  OBVIOUS
<1>7. Head(Arrived(l, R)) = HelloOf(l, I)
  BY <1>3, Short, Names DEF Arrived
<1>8. Opens(s, HelloOf(l, I))
  BY <1>5, Opened, Names DEF Opens, HelloOf, Sessions
<1>9. Step(l, R, place, TRUE, <<>>, Read(s)) /\ UNCHANGED <<left, marker>>
  BY <1>4, <1>6, <1>7, <1>8 DEF ReadPeerHello
<1>10. /\ at'[l][R] = place /\ at'[l][I] = at[l][I]
       /\ wire'[l][R] = wire[l][R] \o <<>> /\ wire'[l][I] = Tail(wire[l][I])
       /\ session'[l][R] = Read(s) /\ session'[l][I] = session[l][I]
       /\ Moved(l, R, place)
  BY <1>1, <1>2, <1>6, <1>9, Names DEF Step, TypeInv, Moved, Places, Ended
<1>11. wire'[l][I] \in {<<>>, <<MarkerOf(l)>>} /\ wire'[l][R] = wire[l][R]
  <2>1. wire'[l][R] = wire[l][R]
    BY <1>1, <1>10, Short DEF WireInv
  <2>2. CASE wire[l][I] = <<HelloOf(l, I)>>
    BY <1>10, <2>1, <2>2, Short
  <2>3. CASE wire[l][I] = <<HelloOf(l, I), MarkerOf(l)>>
    BY <1>10, <2>1, <2>3, Short
  <2> QED BY <1>3, <2>2, <2>3
<1>12. /\ place \in {"marker", "real"} /\ at[l][I] \notin {"idle", "auth"}
       /\ at[l][I] \in {"hello", "marker"} => wire'[l][I] = <<>>
  BY <1>1, <1>2, <1>6, <1>10, Short DEF WireInv
<1>13. WireInv(l)'
  <2>1. peer' = peer /\ geth' = geth
    BY <1>10 DEF Moved
  <2> QED BY <1>1, <1>3, <1>10, <1>11, <1>12, <2>1, LegFixed DEF WireInv
<1>14. Read(s) \in Sessions(l, R) /\ Read(s).out = 1 /\ Read(s).in = 1 /\ Read(s) # NoSession
  BY <1>5, Counting, Names
<1>15. SessionInv(l)'
  BY <1>1, <1>10, <1>12, <1>14, Fixed, Names DEF SessionInv, Ends, Moved
<1>16. l = "front" => (place = "marker" <=> peer.ark1) /\ place # "ark"
  BY <1>1, <1>6, Names DEF HelloOf, HasArk1, TypeInv, Peers
<1> QED BY <1>2, <1>9, <1>10, <1>12, <1>13, <1>15, <1>16, GoesOn, Names DEF Places, Ended

\* Only a client's marker is taken for one.
LEMMA ReadMarkerStep ==
    ASSUME HandshakeInv, ReadMarker
    PROVE  HandshakeInv'
<1>0. PICK l : l = "front"
  OBVIOUS
<1>1. WireInv(l) /\ SessionInv(l) /\ TypeInv /\ FrontInv /\ l \in Legs
  BY <1>0, Names DEF HandshakeInv
<1>2. at[l][R] = "marker" /\ wire[l][I] # <<>>
  BY <1>0, Names DEF ReadMarker, Arrived
<1>3. wire[l][I] = <<MarkerOf(l)>> /\ at[l][I] \notin {"idle", "auth", "ack"}
  BY <1>1, <1>2 DEF WireInv
<1>4. PICK s : s = session[l][R]
  OBVIOUS
<1>5. s \in Sessions(l, R) /\ s.out = 1 /\ s.in = 1
  BY <1>1, <1>2, <1>4, Names DEF SessionInv
<1>6. Head(Arrived(l, R)) = MarkerOf(l)
  BY <1>3, Short, Names DEF Arrived
<1>7. Opens(s, MarkerOf(l))
  BY <1>5, Opened, Names DEF Opens, MarkerOf, Sessions
<1>8. peer.ark1
  BY <1>0, <1>1, <1>2 DEF FrontInv
<1>9. CASE peer.client
  <2>1. PICK text : text = MarkerOf(l).text
    OBVIOUS
  <2>2. text = (IF peer.extra THEN "marker+" ELSE "marker") /\ text \in {"marker", "marker+"}
    BY <1>9, <2>1 DEF MarkerOf
  <2>3. Step(l, R, "ark", TRUE, <<>>, Read(s)) /\ left' = left /\ marker' = text
    BY <1>0, <1>4, <1>6, <1>7, <2>1, <2>2 DEF ReadMarker
  <2>4. /\ at'[l][R] = "ark" /\ at'[l][I] = at[l][I]
        /\ wire'[l][R] = wire[l][R] \o <<>> /\ wire'[l][I] = Tail(wire[l][I])
        /\ session'[l][R] = Read(s) /\ session'[l][I] = session[l][I]
        /\ Moved(l, R, "ark")
    BY <1>1, <1>2, <2>3, Names DEF Step, TypeInv, Moved, Places, Ended
  <2>5. wire'[l][I] = <<>> /\ wire'[l][R] = wire[l][R]
    BY <1>1, <1>3, <2>4, Short DEF WireInv
  <2>6. peer' = peer /\ geth' = geth
    BY <2>4 DEF Moved
  <2>7. WireInv(l)'
    BY <1>1, <1>3, <2>4, <2>5, <2>6, LegFixed DEF WireInv
  <2>8. Read(s) \in Sessions(l, R)
    BY <1>5, Counting, Names
  <2>9. SessionInv(l)'
    BY <1>1, <2>4, <2>6, <2>8, Fixed, Names DEF SessionInv, Ends
  <2>10. FrontInv'
    BY <1>0, <1>1, <1>2, <1>8, <1>9, <2>2, <2>3, <2>4, <2>6, Names
       DEF FrontInv, PeersAreRecognised, Proper, Ends
  <2> QED BY <1>1, <2>4, <2>7, <2>9, <2>10, LegMoves DEF Moved
<1>10. CASE ~peer.client
  <2>1. MarkerOf(l).text \notin {"marker", "marker+"}
    BY <1>10 DEF MarkerOf
  <2>2. Fails(l, R)
    BY <1>0, <1>6, <2>1 DEF ReadMarker
  <2>3. ~Proper
    BY <1>8, <1>10 DEF Proper
  <2> QED BY <1>1, <1>2, <1>3, <2>2, <2>3, FailsStep, Names DEF Waiting
<1> QED BY <1>9, <1>10

-----------------------------------------------------------------------------
\* A peer of the server, or geth, leaves.
LEMMA LeavesStep ==
    ASSUME HandshakeInv, NEW l \in Legs, NEW e \in Ends, Leaves(l, e)
    PROVE  HandshakeInv'
<1>1. WireInv(l) /\ SessionInv(l) /\ TypeInv /\ FrontInv
  BY DEF HandshakeInv
<1>2. /\ (l = "front" /\ e = I) \/ (l = "back" /\ e = R)
      /\ at[l][I] # "idle" /\ wire' = wire /\ session' = session /\ marker' = marker
      /\ at'[l][e] = "gone" /\ at'[l][Other(e)] = at[l][Other(e)]
      /\ Moved(l, e, "gone")
  <2>1. (l = "front" /\ e = I) \/ (l = "back" /\ e = R)
    BY Names DEF Leaves
  <2>2. /\ at[l][I] # "idle" /\ UNCHANGED <<peer, geth, wire, session, marker>>
        /\ at' = [at EXCEPT ![l][e] = "gone"] /\ left' = [left EXCEPT ![l] = @ \cup {e}]
    BY DEF Leaves
  <2>3. at'[l][e] = "gone" /\ at'[l][Other(e)] = at[l][Other(e)] /\ \A k \in Legs \ {l} : at'[k] = at[k]
    BY <1>1, <2>2, Names DEF TypeInv
  <2>4. TypeInv'
    BY <1>1, <2>2, Names DEF TypeInv, Places, Ended
  <2> QED BY <2>1, <2>2, <2>3, <2>4 DEF Moved
<1>3. peer' = peer /\ geth' = geth
  BY <1>2 DEF Moved
<1>4. WireInv(l)'
  BY <1>1, <1>2, <1>3, LegFixed, Names DEF WireInv
<1>5. SessionInv(l)'
  BY <1>1, <1>2, <1>3, Fixed, Names DEF SessionInv, Ends
<1>6. FrontInv'
  <2>1. CASE l = "front"
    BY <1>1, <1>2, <1>3, <2>1, Names DEF FrontInv, PeersAreRecognised, Proper, Ends
  <2>2. CASE l # "front"
    BY <1>1, <1>2, <1>3, <2>2, FrontStays, Names DEF Moved
  <2> QED BY <2>1, <2>2
<1> QED BY <1>2, <1>4, <1>5, <1>6, LegMoves DEF Moved

\* Steps after which the messages and the frame states are as they were, and
\* the server has only ended what it was at, or turned to geth.
LEMMA NothingSent ==
    ASSUME HandshakeInv, UNCHANGED <<peer, geth, wire, session, marker>>, TypeInv',
           at'["front"][I] = at["front"][I], at'["back"][R] = at["back"][R],
           \/ at'["front"][R] = at["front"][R]
           \/ at["front"][R] = "real" /\ at'["front"][R] = "ended",
           at'["back"][I] \in {at["back"][I], "auth", "ended"},
           at'["back"][I] = "auth" => at["back"][I] \in {"idle", "auth"},
           at'["back"][I] = "ended" => at["back"][I] = "ended" \/ at["back"][R] # "auth"
    PROVE  HandshakeInv'
<1>1. /\ WireInv("front") /\ SessionInv("front") /\ WireInv("back") /\ SessionInv("back")
      /\ FrontInv
  BY Names DEF HandshakeInv
<1>2. WireInv("front")'
  <2>1. CASE at'["front"][R] = at["front"][R]
    BY <1>1, <2>1, OtherLeg
  <2>2. CASE at["front"][R] = "real" /\ at'["front"][R] = "ended"
    BY <1>1, <2>2, LegFixed, Names DEF WireInv
  <2> QED BY <2>1, <2>2
<1>3. WireInv("back")'
  BY <1>1, LegFixed, Names DEF WireInv
<1>4. SessionInv("front")' /\ SessionInv("back")'
  BY <1>1, Fixed, Names DEF SessionInv, Ends
<1>5. FrontInv'
  BY <1>1, Names DEF FrontInv, PeersAreRecognised, Proper, Ends
<1> QED BY <1>2, <1>3, <1>4, <1>5 DEF HandshakeInv, Legs

LEMMA ServerStep ==
    ASSUME HandshakeInv, HoldEnds \/ Relay \/ NoRelay \/ RelayEnds
    PROVE  HandshakeInv'
<1>1. TypeInv /\ WireInv("back")
  BY Names DEF HandshakeInv
<1>2. TypeInv'
  <2>1. CASE HoldEnds
    BY <1>1, <2>1, Names DEF HoldEnds, TypeInv, Places, Ended
  <2>2. CASE Relay
    BY <1>1, <2>2, Names DEF Relay, TypeInv, Places, Ended
  <2>3. CASE NoRelay
    BY <1>1, <2>3, Names DEF NoRelay, TypeInv, Places, Ended
  <2>4. CASE RelayEnds
    <3>1. /\ at' = [at EXCEPT !["front"][R] = "ended", !["back"][I] = "ended"]
          /\ left' = [front |-> left["front"] \cup {R}, back |-> left["back"] \cup {I}]
          /\ UNCHANGED <<peer, geth, wire, session>>
      BY <2>4 DEF RelayEnds
    <3>2. at' \in [Legs -> [Ends -> Places]]
      BY <1>1, <3>1, Names DEF TypeInv, Places
    <3>3. left' \in [Legs -> SUBSET Ends]
      BY <1>1, <3>1, Names DEF TypeInv, Legs
    <3>4. \A l \in Legs, e \in Ends : e \in left'[l] => at'[l][e] \in Ended
      BY <1>1, <3>1, Names DEF TypeInv, Ended, Legs, Ends
    <3> QED BY <1>1, <3>1, <3>2, <3>3, <3>4 DEF TypeInv
  <2> QED BY <2>1, <2>2, <2>3, <2>4
<1>3. UNCHANGED <<peer, geth, wire, session, marker>>
  BY DEF HoldEnds, Relay, NoRelay, RelayEnds
<1>4. CASE HoldEnds
  <2>1. at' = at
    BY <1>4 DEF HoldEnds
  <2>2. at["back"][I] # "auth" => at["back"][I] # "auth"
    OBVIOUS
  <2> QED BY <1>2, <1>3, <2>1, NothingSent
<1>5. CASE Relay
  BY <1>1, <1>2, <1>3, <1>5, NothingSent, Names DEF Relay, TypeInv
<1>6. CASE NoRelay
  BY <1>1, <1>2, <1>3, <1>6, NothingSent, Names DEF NoRelay, TypeInv
<1>7. CASE RelayEnds
  <2>1. at["back"][R] # "auth"
    BY <1>1, <1>7 DEF RelayEnds, WireInv
  <2>2. /\ at'["front"][I] = at["front"][I] /\ at'["back"][R] = at["back"][R]
        /\ at["front"][R] = "real" /\ at'["front"][R] = "ended" /\ at'["back"][I] = "ended"
    BY <1>1, <1>7, Names DEF RelayEnds, TypeInv
  <2> QED BY <1>2, <1>3, <2>1, <2>2, NothingSent
<1> QED BY <1>4, <1>5, <1>6, <1>7

LEMMA InitHandshake == RlpxInit => HandshakeInv
<1> SUFFICES ASSUME RlpxInit PROVE HandshakeInv
  OBVIOUS
<1>1. HandshakeInit
  BY DEF RlpxInit
<1>2. TypeInv
  <2>1. /\ peer \in Peers /\ geth \in {"eip8", "flat"}
        /\ left = [l \in Legs |-> {}]
        /\ wire = [l \in Legs |-> [e \in Ends |-> <<>>]]
        /\ session = [l \in Legs |-> [e \in Ends |-> NoSession]]
    BY <1>1 DEF HandshakeInit, Ends
  <2>2. at \in [Legs -> [Ends -> Places]]
    BY <1>1 DEF HandshakeInit, Places, Ends, Legs, I, R
  <2> QED BY <2>1, <2>2 DEF TypeInv
<1>3. \A l \in Legs : /\ wire[l][I] = <<>> /\ wire[l][R] = <<>>
                      /\ session[l][I] = NoSession /\ session[l][R] = NoSession
                      /\ at[l][I] \in {"idle", "auth"} /\ at[l][R] = "auth"
  BY <1>1 DEF HandshakeInit, Ends, Legs, I, R
<1>4. \A l \in Legs : WireInv(l) /\ SessionInv(l)
  BY <1>3 DEF WireInv, SessionInv, Ends
<1>5. FrontInv
  BY <1>3, Names DEF FrontInv, PeersAreRecognised, Ends
<1> QED BY <1>2, <1>4, <1>5 DEF HandshakeInv

LEMMA HandshakeStep ==
    ASSUME HandshakeInv, [RlpxNext]_<<hsVars, vars>>
    PROVE  HandshakeInv'
<1>1. ASSUME NEW l \in Legs, Initiate(l)
      PROVE  HandshakeInv'
  BY <1>1, SendAuthStep, ReadAckStep, ReadHelloStep, LosesStep, Names DEF Initiate
<1>2. ASSUME NEW l \in Legs, Respond(l)
      PROVE  HandshakeInv'
  BY <1>2, ReadAuthStep, ReadPeerHelloStep, LosesStep, Names DEF Respond
<1>3. ASSUME NEW l \in Legs, NEW e \in {I, R}, Leaves(l, e)
      PROVE  HandshakeInv'
  BY <1>3, LeavesStep DEF Ends
<1>4. CASE UNCHANGED hsVars
  <2>1. TypeInv'
    BY <1>4 DEF HandshakeInv, TypeInv, hsVars
  <2> QED BY <1>4, <2>1, NothingSent DEF hsVars
<1>5. CASE HandshakeNext
  BY <1>1, <1>2, <1>3, <1>5, SendMarkerStep, ReadMarkerStep, ServerStep DEF HandshakeNext
<1> QED BY <1>4, <1>5 DEF RlpxNext, Shaking, Streaming

LEMMA HandshakeInvariant == RlpxSpec => []HandshakeInv
BY InitHandshake, HandshakeStep, PTL DEF RlpxSpec

(* Two ends that have derived keys seal and open with the same.            *)
THEOREM EndsAgree == RlpxSpec => []SessionsAgree
<1>1. HandshakeInv => SessionsAgree
  <2> SUFFICES ASSUME HandshakeInv, NEW l \in Legs
               PROVE  /\ session[l][I] # NoSession => session[l][I].egress # session[l][I].ingress
                      /\ session[l][I] # NoSession /\ session[l][R] # NoSession =>
                            /\ session[l][I].egress = session[l][R].ingress
                            /\ session[l][I].ingress = session[l][R].egress
    BY DEF SessionsAgree
  <2>1. \A e \in Ends : session[l][e] = NoSession \/ session[l][e] \in Sessions(l, e)
    BY DEF HandshakeInv, SessionInv
  <2> QED BY <2>1, Opened, Names DEF Sessions
<1> QED BY <1>1, HandshakeInvariant, PTL

(* The server takes a client for a client.                                 *)
THEOREM PeersAreTakenForWhatTheyAre == RlpxSpec => []PeersAreRecognised
<1>1. HandshakeInv => PeersAreRecognised
  BY DEF HandshakeInv, FrontInv
<1> QED BY <1>1, HandshakeInvariant, PTL

-----------------------------------------------------------------------------
(* The stream.                                                             *)

FrameLen(size) == HeaderLen + BodyLen(size)

\* Byte d of the frame of c.
ByteOf(c, d) == [seq |-> c.seq, from |-> c.from, size |-> c.size, off |-> d]

\* The first byte of a frame.
Opening(seq, from, size) == [seq |-> seq, from |-> from, size |-> size, off |-> 1]

\* What may come after byte c: the next of its frame, or the first of the next.
Follows(c, d) ==
    \/ c.off < FrameLen(c.size) /\ d = ByteOf(c, c.off + 1)
    \/ c.off = FrameLen(c.size) /\ d.off = 1 /\ d.seq = c.seq + 1 /\ d.from = c.from + c.size

\* c may come after the first n bytes of t.
Comes(t, n, c) ==
    IF n = 0 THEN c.off = 1 /\ c.seq = 0 /\ c.from = 0 ELSE Follows(t[n], c)

\* The first n bytes of t are whole frames, `seq` of them, of `from` bytes.
Between(t, n, seq, from) ==
    IF n = 0 THEN seq = 0 /\ from = 0
    ELSE /\ t[n].off = FrameLen(t[n].size)
         /\ seq = t[n].seq + 1 /\ from = t[n].from + t[n].size

Cell == [seq : Nat, from : Nat, size : Nat \ {0}, off : Nat]
Fits(c) == c.off \in 1..FrameLen(c.size) /\ c.seq < egress /\ c.from + c.size <= written

StreamTypes ==
    /\ writeBuf \in Nat /\ flushPos \in Nat /\ egress \in Nat /\ rcvd \in Nat /\ ingress \in Nat
    /\ written \in Nat /\ readPos \in Nat /\ writeBuf <= written
    /\ tx \in Seq(Cell) /\ flushBuf \in Seq(Cell) /\ readBuf \in Seq(Nat) /\ delivered \in Seq(Nat)
    /\ rcvd <= Len(tx) /\ readPos <= Len(readBuf) /\ torn \in BOOLEAN
    /\ link \in {"up", "fin", "reset"}

WireBytes ==
    /\ \A i \in 1..Len(tx) : Fits(tx[i]) /\ Comes(tx, i - 1, tx[i])
    /\ \A i, j \in 1..Len(tx) : i <= j => tx[i].seq <= tx[j].seq

\* What the writer sends next.
InFlight(c) ==
    /\ flushBuf = Encode(c.seq, c.from, c.size) /\ c \in Cell /\ flushPos < Len(flushBuf)
    /\ c.seq + 1 = egress /\ c.from + c.size + writeBuf = written
    /\ Comes(tx, Len(tx), flushBuf[flushPos + 1])

WriterInv ==
    link = "up" =>
        \/ flushBuf = <<>> /\ flushPos = 0 /\ Between(tx, Len(tx), egress, written - writeBuf)
        \/ flushBuf # <<>> /\ InFlight(flushBuf[1])

ToServe == Len(delivered) + (Len(readBuf) - readPos)

\* Where the reader is: between two frames that it knows by their count, or in
\* the middle of one that it has not counted.
ReaderInv ==
    IF torn THEN rcvd > 0 /\ ingress <= 2 * tx[rcvd].seq + 1
    ELSE \E n \in Nat : ingress = 2 * n /\ Between(tx, rcvd, n, ToServe)

ReadInv ==
    /\ ToServe <= written
    /\ \A i \in 1..Len(delivered) : delivered[i] = i
    /\ \A i \in 1..Len(readBuf) : readBuf[i] + readPos = Len(delivered) + i
    /\ outcome # "zero"
    /\ OnlyTornOrOversized

StreamInv == StreamTypes /\ WireBytes /\ WriterInv /\ ReaderInv /\ ReadInv

-----------------------------------------------------------------------------
\* The largest multiple of b that is not above a.
LEMMA Rounded ==
    ASSUME NEW a \in Nat, NEW b \in Nat \ {0}
    PROVE  /\ a \div b \in Nat /\ (a \div b) * b \in Nat
           /\ (a \div b) * b <= a /\ a < (a \div b) * b + b
<1>1. a \div b \in Nat
  OBVIOUS
<1>2. b * (a \div b) <= a
  OBVIOUS
<1>3. a < (a \div b) * b + b
  OBVIOUS
<1>4. (a \div b) * b \in Nat /\ b * (a \div b) = (a \div b) * b
  BY <1>1
<1> QED BY <1>1, <1>2, <1>3, <1>4

\* Padding adds less than a block.
LEMMA BodyLengths ==
    ASSUME NEW size \in Nat
    PROVE  /\ BodyLen(size) \in Nat /\ BodyLen(size) >= size + MacLen
           /\ BodyLen(size) < size + Block + MacLen
           /\ FrameLen(size) \in Nat /\ FrameLen(size) > HeaderLen
           /\ HeaderLen \in Nat /\ HeaderLen > 0
<1> DEFINE padded == ((size + Block - 1) \div Block) * Block
<1>1. Block \in Nat \ {0} /\ MacLen \in Nat \ {0} /\ HeaderLen \in Nat \ {0}
  BY RlpxAssumption
<1>2. size + Block - 1 \in Nat
  BY <1>1
<1>3. padded \in Nat /\ padded <= size + Block - 1 /\ size + Block - 1 < padded + Block
  BY <1>1, <1>2, Rounded
<1> HIDE DEF padded
<1>4. padded + MacLen >= size + MacLen /\ padded + MacLen < size + Block + MacLen
  BY <1>1, <1>3
<1>5. BodyLen(size) = padded + MacLen
  BY DEF BodyLen, padded
<1> QED BY <1>1, <1>3, <1>4, <1>5 DEF FrameLen

\* The size in a header is the frame's unless three bytes cannot say it, and
\* then a body of that size would be shorter.
LEMMA SizeInHeader ==
    ASSUME NEW size \in Nat
    PROVE  /\ size < SizeMod => size % SizeMod = size
           /\ size % SizeMod \in Nat
           /\ BodyLen(size % SizeMod) = BodyLen(size) => size % SizeMod = size
<1>1. SizeMod \in Nat \ {0} /\ SizeMod >= Block /\ Block \in Nat /\ MacLen \in Nat
  BY RlpxAssumption
<1>2. size % SizeMod \in Nat /\ size % SizeMod < SizeMod
  BY <1>1
<1>3. size < SizeMod => size % SizeMod = size
  BY <1>1
<1>4. ASSUME size >= SizeMod
      PROVE  BodyLen(size % SizeMod) < BodyLen(size)
  <2>1. size >= (size % SizeMod) + SizeMod
    BY <1>1, <1>4
  <2>2. BodyLen(size) >= size + MacLen /\ BodyLen(size) \in Nat
    BY BodyLengths
  <2>3. BodyLen(size % SizeMod) < (size % SizeMod) + Block + MacLen
        /\ BodyLen(size % SizeMod) \in Nat
    BY <1>2, BodyLengths
  <2> QED BY <1>1, <1>2, <2>1, <2>2, <2>3
<1>5. BodyLen(size) \in Nat
  BY BodyLengths
<1> QED BY <1>1, <1>2, <1>3, <1>4, <1>5

-----------------------------------------------------------------------------
\* Bytes of the wire are cells, and their fields are numbers.
LEMMA CellOf ==
    ASSUME tx \in Seq(Cell), NEW i \in 1..Len(tx)
    PROVE  /\ tx[i] \in Cell /\ tx[i].seq \in Nat /\ tx[i].from \in Nat /\ tx[i].off \in Nat
           /\ tx[i].size \in Nat /\ tx[i].size > 0 /\ FrameLen(tx[i].size) \in Nat
<1>1. tx[i] \in Cell
  OBVIOUS
<1>2. \A c \in Cell : c.seq \in Nat /\ c.from \in Nat /\ c.off \in Nat /\ c.size \in Nat /\ c.size > 0
  BY DEF Cell
<1> QED BY <1>1, <1>2, BodyLengths

\* A frame's bytes are on the wire in order, from its first one on.
LEMMA FrameRun ==
    ASSUME tx \in Seq(Cell), WireBytes, NEW p \in Nat, p < Len(tx), tx[p + 1].off = 1,
           NEW j \in 1..FrameLen(tx[p + 1].size), p + j <= Len(tx)
    PROVE  tx[p + j] = ByteOf(tx[p + 1], j)
<1> DEFINE c == tx[p + 1]
           T == {m \in Nat : m \in 1..FrameLen(c.size) /\ p + m <= Len(tx) /\ tx[p + m] # ByteOf(c, m)}
<1>1. p + 1 \in 1..Len(tx) /\ Len(tx) \in Nat
  OBVIOUS
<1>2. c \in Cell /\ FrameLen(c.size) \in Nat
  BY <1>1, CellOf
<1> SUFFICES ASSUME j \in T PROVE FALSE
  BY <1>2
<1>3. T \in SUBSET Nat /\ T # {}
  OBVIOUS
<1> HIDE DEF T
<1>4. PICK m \in T : \A n \in T : m <= n
  BY <1>3, LeastElement
<1>5. m \in Nat /\ m \in 1..FrameLen(c.size) /\ p + m <= Len(tx) /\ tx[p + m] # ByteOf(c, m)
  BY <1>4 DEF T
<1>6. c = ByteOf(c, 1)
  BY <1>2 DEF Cell, ByteOf
<1>7. m # 1
  BY <1>5, <1>6
<1>8. m - 1 \in Nat /\ m - 1 \in 1..FrameLen(c.size) /\ p + (m - 1) <= Len(tx) /\ m - 1 < m
  BY <1>1, <1>2, <1>5, <1>7
<1>9. tx[p + (m - 1)] = ByteOf(c, m - 1)
  BY <1>4, <1>5, <1>8 DEF T
<1>10. Comes(tx, p + (m - 1), tx[p + m])
  <2>1. p + m \in 1..Len(tx) /\ (p + m) - 1 = p + (m - 1)
    BY <1>5, <1>8
  <2> QED BY <2>1 DEF WireBytes
<1>11. Follows(ByteOf(c, m - 1), tx[p + m])
  BY <1>5, <1>8, <1>9, <1>10 DEF Comes
<1>12. tx[p + m] = ByteOf(ByteOf(c, m - 1), m)
  <2>1. (m - 1) < FrameLen(c.size) /\ (m - 1) + 1 = m
    BY <1>2, <1>5
  <2>2. ByteOf(c, m - 1).off = m - 1 /\ ByteOf(c, m - 1).size = c.size
    BY DEF ByteOf
  <2>3. m - 1 # FrameLen(c.size)
    BY <1>2, <2>1
  <2> QED BY <1>11, <2>1, <2>2, <2>3 DEF Follows
<1> QED BY <1>5, <1>12 DEF ByteOf

\* After whole frames comes the first byte of the next.
LEMMA FirstByte ==
    ASSUME tx \in Seq(Cell), WireBytes, NEW p \in Nat, p < Len(tx), NEW seq, NEW from,
           Between(tx, p, seq, from)
    PROVE  tx[p + 1].off = 1 /\ tx[p + 1].seq = seq /\ tx[p + 1].from = from
<1>1. p + 1 \in 1..Len(tx) /\ (p + 1) - 1 = p
  OBVIOUS
<1>2. Comes(tx, p, tx[p + 1])
  BY <1>1 DEF WireBytes
<1>3. CASE p = 0
  BY <1>2, <1>3 DEF Comes, Between
<1>4. CASE p # 0
  <2>1. p \in 1..Len(tx)
    BY <1>4
  <2>2. FrameLen(tx[p].size) \in Nat
    BY <2>1, CellOf
  <2> QED BY <1>2, <1>4, <2>2 DEF Comes, Between, Follows
<1> QED BY <1>3, <1>4

\* What an encoded frame is made of.
LEMMA Encoded ==
    ASSUME NEW c \in Cell
    PROVE  LET f == Encode(c.seq, c.from, c.size) IN
           /\ f \in Seq(Cell) /\ Len(f) = FrameLen(c.size) /\ Len(f) \in Nat /\ Len(f) > 0
           /\ \A i \in 1..Len(f) : f[i] = ByteOf(c, i)
<1>1. c.seq \in Nat /\ c.from \in Nat /\ c.size \in Nat \ {0}
  BY DEF Cell
<1>2. FrameLen(c.size) \in Nat /\ FrameLen(c.size) > 0
  BY <1>1, BodyLengths
<1>3. \A i \in 1..FrameLen(c.size) : ByteOf(c, i) \in Cell
  BY <1>1, <1>2 DEF Cell, ByteOf
<1>4. Encode(c.seq, c.from, c.size) = [i \in 1..FrameLen(c.size) |-> ByteOf(c, i)]
  BY DEF Encode, FrameLen, ByteOf
<1> QED BY <1>2, <1>3, <1>4

-----------------------------------------------------------------------------
(* The writer's end.                                                       *)

\* Counters up to one more than a count.
LEMMA Counted ==
    ASSUME NEW a \in Nat, NEW b \in Nat, NEW e \in Nat, a < e, e <= b + 1
    PROVE  a <= b /\ a < b + 1
OBVIOUS

\* Sending k bytes more of the frame of c, which comes next.
LEMMA SendStep ==
    ASSUME StreamTypes, WireBytes, NEW c \in Cell, NEW f, f = Encode(c.seq, c.from, c.size),
           NEW pos \in Nat, NEW k \in Nat, pos + k <= Len(f), pos < Len(f),
           Comes(tx, Len(tx), f[pos + 1]),
           tx' = tx \o SubSeq(f, pos + 1, pos + k), written' = written,
           egress' = c.seq + 1, egress <= c.seq + 1, c.from + c.size <= written
    PROVE  /\ tx' \in Seq(Cell) /\ WireBytes' /\ Len(tx') = Len(tx) + k
           /\ \A i \in 1..Len(tx) : tx'[i] = tx[i]
           /\ pos + k < Len(f) => Comes(tx', Len(tx'), f[pos + k + 1])
           /\ pos + k = Len(f) => Between(tx', Len(tx'), egress', c.from + c.size)
<1>1. /\ f \in Seq(Cell) /\ Len(f) = FrameLen(c.size) /\ Len(f) \in Nat
      /\ \A i \in 1..Len(f) : f[i] = ByteOf(c, i)
  BY Encoded
<1>2. /\ tx' \in Seq(Cell) /\ Len(tx') = Len(tx) + k /\ Len(tx) \in Nat
      /\ \A i \in 1..Len(tx) : tx'[i] = tx[i]
      /\ \A i \in 1..k : tx'[Len(tx) + i] = f[pos + i]
  <2>1. tx \in Seq(Cell) /\ Len(tx) \in Nat
    BY LenProperties DEF StreamTypes
  <2> DEFINE t == tx \o SubSeq(f, pos + 1, pos + k)
  <2>2. /\ t \in Seq(Cell) /\ Len(t) = Len(tx) + k
        /\ \A i \in 1..Len(tx) : t[i] = tx[i]
        /\ \A i \in 1..k : t[Len(tx) + i] = f[pos + i]
    BY <1>1, <2>1, AppendSlice
  <2>3. tx' = t
    OBVIOUS
  <2> HIDE DEF t
  <2> QED BY <2>1, <2>2, <2>3
<1>3. \A i \in 1..k : pos + i \in 1..Len(f) /\ tx'[Len(tx) + i] = ByteOf(c, pos + i)
  BY <1>1, <1>2
<1>4. c.seq \in Nat /\ c.from \in Nat /\ c.size \in Nat
  BY DEF Cell
<1>5. \A i \in 1..Len(tx) : tx[i].seq < egress /\ tx[i].seq \in Nat
  BY CellOf DEF WireBytes, Fits, StreamTypes
<1>6. \A i \in 1..Len(tx') : i \in 1..Len(tx) \/ \E j \in 1..k : i = Len(tx) + j
  <2> TAKE i \in 1..Len(tx')
  <2>1. i \in Nat /\ 1 <= i /\ i <= Len(tx) + k
    BY <1>2
  <2>2. CASE i > Len(tx)
    <3>1. i - Len(tx) \in 1..k /\ i = Len(tx) + (i - Len(tx))
      BY <1>2, <2>1, <2>2
    <3> QED BY <3>1
  <2> QED BY <1>2, <2>1, <2>2
<1>7. ASSUME NEW i \in 1..Len(tx'), NEW x, x = tx'[i]
      PROVE  Fits(x)' /\ Comes(tx', i - 1, x)
  <2>1. CASE i \in 1..Len(tx)
    <3>1. x = tx[i] /\ Fits(x) /\ Comes(tx, i - 1, x)
      BY <1>2, <1>7, <2>1 DEF WireBytes
    <3>2. i - 1 = 0 \/ i - 1 \in 1..Len(tx)
      BY <2>1
    <3>3. i - 1 = 0 \/ tx'[i - 1] = tx[i - 1]
      BY <1>2, <3>2
    <3>4. x.seq < egress /\ x.seq \in Nat
      BY <1>5, <2>1, <3>1
    <3>5. Fits(x)'
      <4>1. x.seq < egress'
        BY <1>4, <3>4, Counted DEF StreamTypes
      <4> QED BY <3>1, <4>1 DEF Fits
    <3> QED BY <3>1, <3>3, <3>5 DEF Comes
  <2>2. ASSUME NEW j \in 1..k, i = Len(tx) + j
        PROVE  Fits(x)' /\ Comes(tx', i - 1, x)
    <3>1. pos + j \in 1..Len(f) /\ x = ByteOf(c, pos + j)
      BY <1>3, <1>7, <2>2
    <3>2. Fits(x)'
      <4>1. x.off = pos + j /\ x.seq = c.seq /\ x.from = c.from /\ x.size = c.size
        BY <3>1 DEF ByteOf
      <4>2. c.seq < egress' /\ c.from + c.size <= written'
        BY <1>4
      <4> QED BY <1>1, <3>1, <4>1, <4>2 DEF Fits
    <3>3. CASE j = 1
      <4>1. i - 1 = Len(tx)
        BY <1>2, <2>2, <3>3
      <4>2. f[pos + 1] = x
        <5>1. pos + 1 \in 1..Len(f)
          BY <3>1, <3>3
        <5> QED BY <1>1, <3>1, <3>3, <5>1
      <4>3. Len(tx) = 0 \/ tx'[Len(tx)] = tx[Len(tx)]
        BY <1>2
      <4> QED BY <3>2, <4>1, <4>2, <4>3 DEF Comes
    <3>4. CASE j # 1
      <4>1. j - 1 \in 1..k /\ i - 1 = Len(tx) + (j - 1) /\ i - 1 # 0
        BY <1>2, <2>2, <3>4
      <4>2. tx'[i - 1] = ByteOf(c, pos + (j - 1))
        BY <1>3, <4>1
      <4>3. pos + (j - 1) < FrameLen(c.size) /\ (pos + (j - 1)) + 1 = pos + j
        BY <1>1, <3>1
      <4>4. Follows(ByteOf(c, pos + (j - 1)), ByteOf(c, pos + j))
        BY <4>3 DEF Follows, ByteOf
      <4> QED BY <3>1, <3>2, <4>1, <4>2, <4>4 DEF Comes
    <3> QED BY <3>3, <3>4
  <2> QED BY <1>6, <2>1, <2>2
<1>8. ASSUME NEW i \in 1..Len(tx'), NEW j \in 1..Len(tx'), i <= j
      PROVE  tx'[i].seq <= tx'[j].seq
  <2>1. \A m \in 1..k : tx'[Len(tx) + m].seq = c.seq
    <3>1. \A d : ByteOf(c, d).seq = c.seq
      BY DEF ByteOf
    <3> QED BY <1>3, <3>1
  <2>2. CASE j \in 1..Len(tx)
    <3>1. i \in 1..Len(tx)
      BY <1>8, <2>2
    <3> QED BY <1>2, <1>8, <2>2, <3>1 DEF WireBytes
  <2>3. CASE j \notin 1..Len(tx)
    <3>1. tx'[j].seq = c.seq
      BY <1>6, <2>1, <2>3
    <3>2. tx'[i].seq = c.seq \/ (tx'[i].seq < egress /\ tx'[i].seq \in Nat)
      <4>1. CASE i \in 1..Len(tx)
        BY <1>2, <1>5, <4>1
      <4>2. CASE i \notin 1..Len(tx)
        <5>1. PICK m \in 1..k : i = Len(tx) + m
          BY <1>6, <4>2
        <5> QED BY <2>1, <5>1
      <4> QED BY <4>1, <4>2
    <3>3. egress \in Nat /\ egress <= c.seq + 1
      BY DEF StreamTypes
    <3>4. CASE tx'[i].seq = c.seq
      BY <1>4, <3>1, <3>4, SMTT(30)
    <3>5. CASE tx'[i].seq < egress /\ tx'[i].seq \in Nat
      <4>1. PICK a \in Nat : a = tx'[i].seq /\ a < egress
        BY <3>5
      <4>2. a <= c.seq
        BY <1>4, <3>3, <4>1, Counted
      <4> QED BY <3>1, <4>1, <4>2
    <3> QED BY <3>2, <3>4, <3>5
  <2> QED BY <2>2, <2>3
<1>9. WireBytes'
  <2>1. \A i \in 1..Len(tx') : Fits(tx[i])' /\ Comes(tx', i - 1, tx'[i])
    BY <1>7 DEF Fits
  <2> QED BY <1>8, <2>1 DEF WireBytes
<1>10. ASSUME pos + k < Len(f)
       PROVE  Comes(tx', Len(tx'), f[pos + k + 1])
  <2>1. CASE k = 0
    <3>1. Len(tx') = Len(tx) /\ pos + k + 1 = pos + 1
      BY <1>2, <2>1
    <3>2. Len(tx) = 0 \/ tx'[Len(tx)] = tx[Len(tx)]
      BY <1>2
    <3> QED BY <3>1, <3>2 DEF Comes
  <2>2. CASE k # 0
    <3>1. tx'[Len(tx')] = ByteOf(c, pos + k) /\ Len(tx') # 0
      BY <1>2, <1>3, <2>2
    <3>2. f[pos + k + 1] = ByteOf(c, pos + k + 1)
      BY <1>1, <1>10
    <3> QED BY <1>1, <1>10, <3>1, <3>2 DEF Comes, Follows, ByteOf
  <2> QED BY <2>1, <2>2
<1>11. ASSUME pos + k = Len(f)
       PROVE  Between(tx', Len(tx'), egress', c.from + c.size)
  <2>1. tx'[Len(tx')] = ByteOf(c, pos + k) /\ Len(tx') # 0
    <3>1. k \in 1..k /\ Len(tx') # 0
      BY <1>1, <1>2, <1>11
    <3> QED BY <1>2, <1>3, <3>1
  <2>2. /\ tx'[Len(tx')].off = Len(f) /\ tx'[Len(tx')].seq = c.seq
        /\ tx'[Len(tx')].from = c.from /\ tx'[Len(tx')].size = c.size
    BY <1>11, <2>1 DEF ByteOf
  <2> QED BY <1>1, <2>1, <2>2 DEF Between
<1> QED BY <1>2, <1>9, <1>10, <1>11

\* The reader does not notice what the writer's end does.
LEMMA ReaderStays ==
    ASSUME StreamInv, UNCHANGED readerVars, tx' \in Seq(Cell), Len(tx) <= Len(tx'),
           \A i \in 1..Len(tx) : tx'[i] = tx[i], written' >= written, written' \in Nat,
           link' # "reset" => link # "reset"
    PROVE  ReaderInv' /\ ReadInv'
<1>1. /\ rcvd' = rcvd /\ ingress' = ingress /\ readBuf' = readBuf /\ readPos' = readPos
      /\ outcome' = outcome /\ torn' = torn /\ delivered' = delivered
  BY DEF readerVars
<1>2. StreamTypes /\ ReaderInv /\ ReadInv
  BY DEF StreamInv
<1>3. rcvd \in Nat /\ rcvd <= Len(tx) /\ Len(tx) \in Nat /\ Len(tx') \in Nat
  BY <1>2, LenProperties DEF StreamTypes
<1>4. rcvd = 0 \/ tx'[rcvd] = tx[rcvd]
  BY <1>3
<1>5. ToServe' = ToServe
  BY <1>1 DEF ToServe
<1>6. ReaderInv'
  BY <1>1, <1>2, <1>3, <1>4, <1>5 DEF ReaderInv, Between
<1>7. OnlyTornOrOversized'
  <2>1. OnlyTornOrOversized
    BY <1>2 DEF ReadInv
  <2>2. ASSUME NEW i \in 1..Len(tx), tx[i].size >= SizeMod
        PROVE  \E j \in 1..Len(tx') : tx'[j].size >= SizeMod
    <3>1. i \in 1..Len(tx') /\ tx'[i] = tx[i]
      BY <1>3
    <3> QED BY <2>2, <3>1
  <2> QED BY <1>1, <2>1, <2>2 DEF OnlyTornOrOversized
<1>8. ToServe \in Int
  BY <1>2, LenProperties DEF ToServe, StreamTypes
<1>9. ToServe' <= written'
  <2>1. ToServe <= written /\ written \in Nat
    BY <1>2 DEF ReadInv, StreamTypes
  <2> QED BY <1>5, <1>8, <2>1
<1> QED BY <1>1, <1>2, <1>6, <1>7, <1>9 DEF ReadInv

LEMMA PollWriteStep ==
    ASSUME StreamInv, NEW n \in 1..MaxWrite, PollWrite(n)
    PROVE  StreamInv'
<1>1. StreamTypes /\ WireBytes /\ WriterInv
  BY DEF StreamInv
<1>2. /\ n \in Nat /\ writeBuf' = writeBuf + n /\ written' = written + n
      /\ UNCHANGED <<flushBuf, flushPos, egress, tx, link, readerVars>>
  BY RlpxAssumption DEF PollWrite
<1>3. writeBuf \in Nat /\ written \in Nat /\ writeBuf <= written /\ tx \in Seq(Cell)
  BY <1>1 DEF StreamTypes
<1>4. written' \in Nat /\ written' >= written /\ writeBuf' \in Nat /\ writeBuf' <= written'
      /\ written' - writeBuf' = written - writeBuf
  BY <1>2, <1>3
<1>5. StreamTypes'
  BY <1>1, <1>2, <1>4 DEF StreamTypes, readerVars
<1>6. WireBytes'
  <2>1. \A i \in 1..Len(tx) : tx[i].from + tx[i].size \in Nat
    BY <1>3, CellOf
  <2>2. ASSUME NEW i \in 1..Len(tx), NEW x, x = tx[i]
        PROVE  Fits(x)'
    <3>1. x.from + x.size \in Nat /\ Fits(x)
      BY <1>1, <2>1, <2>2 DEF WireBytes
    <3>2. x.from + x.size <= written'
      BY <1>3, <1>4, <3>1 DEF Fits
    <3> QED BY <1>2, <3>1, <3>2 DEF Fits
  <2>3. \A i \in 1..Len(tx) : Fits(tx[i])'
    BY <1>2, <2>2 DEF Fits
  <2> QED BY <1>1, <1>2, <2>3 DEF WireBytes
<1>7. WriterInv'
  <2>1. ASSUME flushBuf # <<>>, NEW c, c = flushBuf[1], InFlight(c)
        PROVE  InFlight(c)'
    <3>1. c \in Cell /\ c.from + c.size + writeBuf = written
      BY <2>1 DEF InFlight
    <3>2. c.from \in Nat /\ c.size \in Nat
      BY <3>1 DEF Cell
    <3>3. c.from + c.size + writeBuf' = written'
      BY <1>2, <1>3, <3>1, <3>2
    <3> QED BY <1>2, <2>1, <3>3 DEF InFlight
  <2> QED BY <1>1, <1>2, <1>4, <2>1 DEF WriterInv
<1>8. ReaderInv' /\ ReadInv'
  BY <1>2, <1>3, <1>4, ReaderStays
<1> QED BY <1>5, <1>6, <1>7, <1>8 DEF StreamInv

LEMMA DropWriterStep ==
    ASSUME StreamInv, DropWriter
    PROVE  StreamInv'
<1>1. StreamTypes /\ WireBytes
  BY DEF StreamInv
<1>2. /\ link = "up" /\ link' = "fin" /\ writeBuf' = 0 /\ flushBuf' = <<>> /\ flushPos' = 0
      /\ UNCHANGED <<egress, tx, written, readerVars>>
  BY DEF DropWriter
<1>3. StreamTypes'
  BY <1>1, <1>2 DEF StreamTypes, readerVars
<1>4. WireBytes' /\ WriterInv'
  BY <1>1, <1>2 DEF WireBytes, Fits, WriterInv
<1>5. ReaderInv' /\ ReadInv'
  BY <1>1, <1>2, ReaderStays DEF StreamTypes
<1> QED BY <1>3, <1>4, <1>5 DEF StreamInv

LEMMA ResetStep ==
    ASSUME StreamInv, Reset
    PROVE  StreamInv'
<1>1. StreamTypes /\ WireBytes /\ ReaderInv /\ ReadInv
  BY DEF StreamInv
<1>2. /\ link = "up" /\ link' = "reset" /\ tx' = SubSeq(tx, 1, rcvd)
      /\ UNCHANGED <<writeBuf, flushBuf, flushPos, egress, written>>
      /\ rcvd' = rcvd /\ ingress' = ingress /\ readBuf' = readBuf /\ readPos' = readPos
      /\ outcome' = outcome /\ torn' = torn /\ delivered' = delivered
  BY DEF Reset, readerVars
<1>3. /\ tx' \in Seq(Cell) /\ Len(tx') = rcvd /\ rcvd \in Nat /\ rcvd <= Len(tx)
      /\ \A i \in 1..rcvd : tx'[i] = tx[i] /\ i \in 1..Len(tx)
  <2>1. tx \in Seq(Cell) /\ rcvd \in Nat /\ rcvd <= Len(tx) /\ Len(tx) \in Nat
    BY <1>1, LenProperties DEF StreamTypes
  <2>2. \A i \in 1..rcvd : i \in 1..Len(tx) /\ tx[i] \in Cell
    BY <2>1
  <2> QED BY <1>2, <2>1, <2>2, SubSeqProperties
<1>4. StreamTypes'
  BY <1>1, <1>2, <1>3 DEF StreamTypes
<1>5. WireBytes'
  <2>1. \A i \in 1..rcvd : Fits(tx[i]) /\ Comes(tx, i - 1, tx[i])
    BY <1>1, <1>3 DEF WireBytes
  <2>2. \A i \in 1..rcvd : Fits(tx[i])'
    BY <1>2, <1>3, <2>1 DEF Fits
  <2>3. \A i \in 1..rcvd : Comes(tx', i - 1, tx'[i])
    <3> TAKE i \in 1..rcvd
    <3>1. i - 1 = 0 \/ i - 1 \in 1..rcvd
      BY <1>3
    <3> QED BY <1>3, <2>1, <3>1 DEF Comes
  <2>4. \A i, j \in 1..rcvd : i <= j => tx[i].seq <= tx[j].seq
    BY <1>1, <1>3 DEF WireBytes
  <2>5. \A i, j \in 1..rcvd : i <= j => tx'[i].seq <= tx'[j].seq
    BY <1>3, <2>4
  <2> QED BY <1>3, <2>2, <2>3, <2>5 DEF WireBytes
<1>6. WriterInv'
  BY <1>2 DEF WriterInv
<1>7. ToServe' = ToServe
  BY <1>2 DEF ToServe
<1>8. ReaderInv'
  <2>1. rcvd = 0 \/ tx'[rcvd] = tx[rcvd]
    BY <1>3
  <2> QED BY <1>1, <1>2, <1>3, <1>7, <2>1 DEF ReaderInv, Between
<1>9. ReadInv'
  BY <1>1, <1>2, <1>7 DEF ReadInv, OnlyTornOrOversized
<1> QED BY <1>4, <1>5, <1>6, <1>8, <1>9 DEF StreamInv

LEMMA PollFlushStep ==
    ASSUME StreamInv, NEW k \in 0..NetCap, PollFlush(k)
    PROVE  StreamInv'
<1>1. StreamTypes /\ WireBytes /\ WriterInv
  BY DEF StreamInv
<1>2. /\ k \in Nat /\ link = "up" /\ link' = link /\ written' = written /\ UNCHANGED readerVars
  BY RlpxAssumption DEF PollFlush
<1>3. /\ writeBuf \in Nat /\ written \in Nat /\ writeBuf <= written /\ tx \in Seq(Cell)
      /\ egress \in Nat /\ flushPos \in Nat /\ Len(tx) \in Nat
  BY <1>1, LenProperties DEF StreamTypes
<1>4. SUFFICES /\ tx' \in Seq(Cell) /\ WireBytes' /\ Len(tx') >= Len(tx)
               /\ \A i \in 1..Len(tx) : tx'[i] = tx[i]
               /\ writeBuf' \in Nat /\ writeBuf' <= written /\ egress' \in Nat
               /\ flushBuf' \in Seq(Cell) /\ flushPos' \in Nat
               /\ WriterInv'
  <2>1. rcvd \in Nat /\ rcvd <= Len(tx)
    BY <1>1 DEF StreamTypes
  <2>2. Len(tx') \in Nat
    BY <1>4, LenProperties
  <2>3. StreamTypes'
    BY <1>1, <1>2, <1>3, <1>4, <2>1, <2>2 DEF StreamTypes, readerVars
  <2>4. ReaderInv' /\ ReadInv'
    BY <1>2, <1>3, <1>4, ReaderStays
  <2> QED BY <1>4, <2>3, <2>4 DEF StreamInv
<1>5. ASSUME NEW c \in Cell, c.off = 1, NEW f, f = Encode(c.seq, c.from, c.size), flushPos + k <= Len(f),
             flushPos < Len(f), Comes(tx, Len(tx), f[flushPos + 1]),
             tx' = tx \o SubSeq(f, flushPos + 1, flushPos + k),
             egress' = c.seq + 1, egress <= c.seq + 1,
             writeBuf' \in Nat, c.from + c.size + writeBuf' = written,
             \/ flushPos + k < Len(f) /\ flushBuf' = f /\ flushPos' = flushPos + k
             \/ flushPos + k = Len(f) /\ flushBuf' = <<>> /\ flushPos' = 0
      PROVE  /\ tx' \in Seq(Cell) /\ WireBytes' /\ Len(tx') >= Len(tx)
             /\ \A i \in 1..Len(tx) : tx'[i] = tx[i]
             /\ writeBuf' <= written /\ flushBuf' \in Seq(Cell) /\ flushPos' \in Nat
             /\ WriterInv'
  <2>1. c.from \in Nat /\ c.size \in Nat /\ c.from + c.size <= written
        /\ c.from + c.size = written - writeBuf' /\ writeBuf' <= written
    <3>1. c.from \in Nat /\ c.size \in Nat
      BY DEF Cell
    <3> QED BY <1>3, <1>5, <3>1, SMTT(30)
  <2>2. /\ tx' \in Seq(Cell) /\ WireBytes' /\ Len(tx') = Len(tx) + k
        /\ \A i \in 1..Len(tx) : tx'[i] = tx[i]
        /\ flushPos + k < Len(f) => Comes(tx', Len(tx'), f[flushPos + k + 1])
        /\ flushPos + k = Len(f) => Between(tx', Len(tx'), egress', c.from + c.size)
    BY <1>1, <1>2, <1>3, <1>5, <2>1, SendStep, ZenonT(30)
  <2>3. f \in Seq(Cell) /\ Len(f) \in Nat /\ Len(f) > 0 /\ f[1] = c
    <3>1. f \in Seq(Cell) /\ Len(f) \in Nat /\ Len(f) > 0 /\ f[1] = ByteOf(c, 1)
      BY <1>5, Encoded, SMTT(30)
    <3>2. ByteOf(c, 1) = c
      BY <1>5 DEF Cell, ByteOf
    <3> QED BY <3>1, <3>2
  <2>4. WriterInv'
    <3>1. CASE flushPos + k < Len(f)
      <4>1. flushBuf' = f /\ flushPos' = flushPos + k
        BY <1>2, <1>3, <1>5, <2>3, <3>1
      <4>2. InFlight(c)'
        BY <1>2, <1>3, <1>5, <2>2, <2>3, <3>1, <4>1 DEF InFlight
      <4>3. f # <<>>
        BY <2>3
      <4> QED BY <2>3, <4>1, <4>2, <4>3 DEF WriterInv, InFlight
    <3>2. CASE flushPos + k = Len(f)
      <4>1. flushBuf' = <<>> /\ flushPos' = 0
        BY <1>2, <1>3, <1>5, <2>3, <3>2
      <4> QED BY <1>2, <2>1, <2>2, <3>2, <4>1 DEF WriterInv
    <3> QED BY <1>5, <3>1, <3>2
  <2>5. flushBuf' \in Seq(Cell) /\ flushPos' \in Nat
    <3>1. <<>> \in Seq(Cell) /\ flushPos + k \in Nat
      BY <1>2, <1>3
    <3>2. CASE flushPos + k < Len(f)
      <4>1. flushBuf' = f /\ flushPos' = flushPos + k
        BY <1>5, <3>2
      <4> QED BY <2>3, <3>1, <4>1
    <3>3. CASE ~(flushPos + k < Len(f))
      <4>1. flushBuf' = <<>> /\ flushPos' = 0
        BY <1>5, <3>3
      <4> QED BY <3>1, <4>1
    <3> QED BY <3>2, <3>3
  <2>6. Len(tx) + k >= Len(tx)
    BY <1>2, <1>3
  <2> QED BY <2>1, <2>2, <2>4, <2>5, <2>6
<1>6. CASE flushBuf = <<>> /\ writeBuf > 0
  <2>1. flushPos = 0 /\ Between(tx, Len(tx), egress, written - writeBuf)
    BY <1>1, <1>2, <1>6 DEF WriterInv
  <2>2. PICK c \in Cell : c = Opening(egress, written - writeBuf, writeBuf)
    <3>1. written - writeBuf \in Nat /\ writeBuf \in Nat \ {0}
      BY <1>3, <1>6
    <3> QED BY <1>3, <3>1 DEF Cell, Opening
  <2>3. /\ c.seq = egress /\ c.from = written - writeBuf /\ c.size = writeBuf /\ c.off = 1
    BY <2>2 DEF Opening
  <2>4. PICK f : f = Encode(c.seq, c.from, c.size)
    OBVIOUS
  <2>5. Len(f) \in Nat /\ Len(f) > 0 /\ f[1] = ByteOf(c, 1)
    BY <2>4, Encoded
  <2>6. Comes(tx, Len(tx), f[1])
    BY <2>1, <2>3, <2>5 DEF Between, Comes, Follows, ByteOf
  <2>7. /\ flushPos + k <= Len(f) /\ tx' = tx \o SubSeq(f, flushPos + 1, flushPos + k)
        /\ writeBuf' = 0 /\ egress' = egress + 1
        /\ \/ flushPos + k < Len(f) /\ flushBuf' = f /\ flushPos' = flushPos + k
           \/ flushPos + k = Len(f) /\ flushBuf' = <<>> /\ flushPos' = 0
    BY <1>6, <2>3, <2>4 DEF PollFlush
  <2>8. c.from + c.size + writeBuf' = written /\ egress' = c.seq + 1 /\ egress <= c.seq + 1
        /\ flushPos + 1 = 1 /\ writeBuf' \in Nat
    BY <1>3, <2>1, <2>3, <2>7
  <2>9. flushPos < Len(f) /\ Comes(tx, Len(tx), f[flushPos + 1])
    BY <2>1, <2>5, <2>6, <2>8
  <2>10. egress' \in Nat
    BY <1>3, <2>7
  <2> QED BY <1>5, <2>3, <2>4, <2>7, <2>8, <2>9, <2>10
<1>7. CASE flushBuf # <<>>
  <2>1. PICK c : c = flushBuf[1] /\ InFlight(c)
    BY <1>1, <1>2, <1>7 DEF WriterInv
  <2>2. PICK f : f = flushBuf
    OBVIOUS
  <2>3. /\ c \in Cell /\ f = Encode(c.seq, c.from, c.size) /\ flushPos < Len(f)
        /\ c.seq + 1 = egress /\ c.from + c.size + writeBuf = written
        /\ Comes(tx, Len(tx), f[flushPos + 1])
    BY <2>1, <2>2 DEF InFlight
  <2>4. c.off = 1
    <3>1. Len(f) \in Nat /\ Len(f) > 0 /\ f[1] = ByteOf(c, 1)
      BY <2>3, Encoded
    <3> QED BY <2>1, <2>2, <3>1 DEF ByteOf
  <2>5. /\ flushPos + k <= Len(f) /\ tx' = tx \o SubSeq(f, flushPos + 1, flushPos + k)
        /\ writeBuf' = writeBuf /\ egress' = egress
        /\ \/ flushPos + k < Len(f) /\ flushBuf' = f /\ flushPos' = flushPos + k
           \/ flushPos + k = Len(f) /\ flushBuf' = <<>> /\ flushPos' = 0
    BY <1>7, <2>2 DEF PollFlush
  <2>6. egress <= c.seq + 1 /\ writeBuf' \in Nat
    BY <1>3, <2>3, <2>5
  <2>7. egress' = c.seq + 1 /\ c.from + c.size + writeBuf' = written
    BY <2>3, <2>5
  <2> QED BY <1>3, <1>5, <2>3, <2>4, <2>5, <2>6, <2>7
<1>8. CASE flushBuf = <<>> /\ writeBuf = 0
  <2>1. flushPos = 0 /\ Between(tx, Len(tx), egress, written - writeBuf)
    BY <1>1, <1>2, <1>8 DEF WriterInv
  <2>2. /\ flushPos + k <= Len(flushBuf) /\ Len(flushBuf) = 0
        /\ tx' = tx \o SubSeq(flushBuf, flushPos + 1, flushPos + k)
        /\ writeBuf' = writeBuf /\ egress' = egress
        /\ \/ flushPos + k < Len(flushBuf)
           \/ flushBuf' = <<>> /\ flushPos' = 0
    BY <1>8 DEF PollFlush
  <2>3. k = 0 /\ flushBuf' = <<>> /\ flushPos' = 0
    BY <1>2, <2>1, <2>2
  <2>4. tx' = tx
    <3>1. SubSeq(flushBuf, flushPos + 1, flushPos + k) = <<>>
      BY <1>8, <2>1, <2>3
    <3> QED BY <1>3, <2>2, <3>1
  <2>5. WireBytes' /\ WriterInv'
    BY <1>1, <1>2, <1>8, <2>1, <2>2, <2>3, <2>4 DEF WireBytes, Fits, WriterInv
  <2> QED BY <1>3, <2>2, <2>3, <2>4, <2>5
<1> QED BY <1>3, <1>6, <1>7, <1>8

-----------------------------------------------------------------------------
(* The reader's end.                                                       *)

\* The frame that comes next at a reader that has not dropped any bytes.
LEMMA NextFrame ==
    ASSUME StreamInv, ~torn, rcvd < Len(tx), NEW c, c = tx[rcvd + 1]
    PROVE  /\ c \in Cell /\ c.off = 1 /\ 2 * c.seq = ingress /\ c.from = ToServe
           /\ c.from + c.size <= written
           /\ \A j \in 1..FrameLen(c.size) : rcvd + j <= Len(tx) => tx[rcvd + j] = ByteOf(c, j)
<1>1. StreamTypes /\ WireBytes /\ ReaderInv
  BY DEF StreamInv
<1>2. tx \in Seq(Cell) /\ rcvd \in Nat /\ rcvd + 1 \in 1..Len(tx)
  BY <1>1, LenProperties DEF StreamTypes
<1>3. PICK n \in Nat : ingress = 2 * n /\ Between(tx, rcvd, n, ToServe)
  BY <1>1 DEF ReaderInv
<1>4. c.off = 1 /\ c.seq = n /\ c.from = ToServe
  BY <1>1, <1>2, <1>3, FirstByte
<1>5. c \in Cell /\ Fits(c)
  BY <1>1, <1>2, CellOf DEF WireBytes
<1>6. \A j \in 1..FrameLen(c.size) : rcvd + j <= Len(tx) => tx[rcvd + j] = ByteOf(c, j)
  BY <1>1, <1>2, <1>4, FrameRun
<1> QED BY <1>3, <1>4, <1>5, <1>6 DEF Fits

\* Whatever of the next frame has arrived verifies.
LEMMA NextVerifies ==
    ASSUME StreamInv, ~torn, rcvd < Len(tx), NEW c, c = tx[rcvd + 1]
    PROVE  /\ Avail >= HeaderLen => HeaderVerifies
           /\ Avail >= FrameLen(c.size) => Verifies(HeaderLen + 1, BodyLen(c.size), ingress + 1)
<1>1. /\ c \in Cell /\ 2 * c.seq = ingress
      /\ \A j \in 1..FrameLen(c.size) : rcvd + j <= Len(tx) => tx[rcvd + j] = ByteOf(c, j)
  BY NextFrame
<1>2. /\ rcvd \in Nat /\ Len(tx) \in Nat /\ c.size \in Nat /\ ingress \in Nat /\ c.seq \in Nat
      /\ HeaderLen \in Nat /\ BodyLen(c.size) \in Nat /\ FrameLen(c.size) = HeaderLen + BodyLen(c.size)
  BY <1>1, BodyLengths, LenProperties DEF StreamInv, StreamTypes, Cell, FrameLen
<1>3. ASSUME Avail >= HeaderLen
      PROVE  Verifies(1, HeaderLen, ingress)
  <2>1. ASSUME NEW i \in 1..HeaderLen
        PROVE  tx[rcvd + 1 + i - 1] = ByteOf(c, i)
    <3>1. i \in 1..FrameLen(c.size) /\ rcvd + i <= Len(tx) /\ rcvd + 1 + i - 1 = rcvd + i
      BY <1>2, <1>3 DEF Avail
    <3> QED BY <1>1, <3>1
  <2>2. ASSUME NEW i \in 1..HeaderLen, NEW b, b = tx[rcvd + 1 + i - 1]
        PROVE  b.off = 1 + i - 1 /\ 2 * b.seq + (IF b.off > HeaderLen THEN 1 ELSE 0) = ingress
    <3>1. b.off = i /\ b.seq = c.seq
      <4>1. b = ByteOf(c, i)
        BY <2>1, <2>2
      <4> QED BY <4>1 DEF ByteOf
    <3>2. 1 + i - 1 = i /\ ~(i > HeaderLen) /\ 2 * c.seq + 0 = ingress
      BY <1>1, <1>2
    <3> QED BY <3>1, <3>2
  <2> QED BY <2>2 DEF Verifies
<1>4. ASSUME Avail >= FrameLen(c.size)
      PROVE  Verifies(HeaderLen + 1, BodyLen(c.size), ingress + 1)
  <2>1. ASSUME NEW i \in 1..BodyLen(c.size)
        PROVE  tx[rcvd + (HeaderLen + 1) + i - 1] = ByteOf(c, HeaderLen + 1 + i - 1)
    <3>1. /\ HeaderLen + i \in 1..FrameLen(c.size) /\ rcvd + (HeaderLen + i) <= Len(tx)
          /\ rcvd + (HeaderLen + 1) + i - 1 = rcvd + (HeaderLen + i)
          /\ HeaderLen + 1 + i - 1 = HeaderLen + i
      BY <1>2, <1>4 DEF Avail
    <3> QED BY <1>1, <3>1
  <2>2. ASSUME NEW i \in 1..BodyLen(c.size), NEW b, b = tx[rcvd + (HeaderLen + 1) + i - 1]
        PROVE  /\ b.off = (HeaderLen + 1) + i - 1
               /\ 2 * b.seq + (IF b.off > HeaderLen THEN 1 ELSE 0) = ingress + 1
    <3>1. b.off = HeaderLen + 1 + i - 1 /\ b.seq = c.seq
      <4>1. b = ByteOf(c, HeaderLen + 1 + i - 1)
        BY <2>1, <2>2
      <4> QED BY <4>1 DEF ByteOf
    <3>2. HeaderLen + 1 + i - 1 > HeaderLen /\ 2 * c.seq + 1 = ingress + 1
      BY <1>1, <1>2
    <3> QED BY <3>1, <3>2
  <2> QED BY <2>2 DEF Verifies
<1> QED BY <1>3, <1>4 DEF HeaderVerifies

\* A reader that has dropped bytes opens no header any more.
LEMMA TornFails ==
    ASSUME StreamInv, torn
    PROVE  ~HeaderVerifies
<1> SUFFICES ASSUME HeaderVerifies PROVE FALSE
  OBVIOUS
<1>1. StreamTypes /\ WireBytes /\ ReaderInv
  BY DEF StreamInv
<1>2. /\ tx \in Seq(Cell) /\ rcvd \in Nat /\ Len(tx) \in Nat /\ rcvd > 0
      /\ ingress \in Nat /\ ingress <= 2 * tx[rcvd].seq + 1
  BY <1>1, LenProperties DEF StreamTypes, ReaderInv
<1>3. HeaderLen \in Nat /\ HeaderLen > 0
  BY RlpxAssumption
<1>4. rcvd \in 1..Len(tx) /\ rcvd + 1 \in 1..Len(tx) /\ 1 \in 1..HeaderLen
  BY <1>2, <1>3 DEF HeaderVerifies, Avail
<1>5. PICK c : c = tx[rcvd + 1]
  OBVIOUS
<1>6. rcvd + 1 + 1 - 1 = rcvd + 1 /\ 1 + 1 - 1 = 1
  BY <1>2
<1>7. c.off = 1 /\ 2 * c.seq + (IF c.off > HeaderLen THEN 1 ELSE 0) = ingress
  BY <1>4, <1>5, <1>6 DEF HeaderVerifies, Verifies
<1>8. c.seq \in Nat /\ tx[rcvd].seq \in Nat /\ tx[rcvd].off \in Nat /\ tx[rcvd].off > 0
      /\ FrameLen(tx[rcvd].size) \in Nat
  BY <1>1, <1>2, <1>4, <1>5, CellOf, SMTT(30) DEF WireBytes, Fits
<1>9. 2 * c.seq = ingress
  <2>1. ~(1 > HeaderLen)
    BY <1>3
  <2> QED BY <1>7, <1>8, <2>1
<1>10. Follows(tx[rcvd], c)
  <2>1. (rcvd + 1) - 1 = rcvd /\ rcvd # 0
    BY <1>2
  <2> QED BY <1>1, <1>4, <1>5, <2>1 DEF WireBytes, Comes
<1>11. c.seq = tx[rcvd].seq + 1
  <2>1. ByteOf(tx[rcvd], tx[rcvd].off + 1).off # 1
    BY <1>8 DEF ByteOf
  <2> QED BY <1>7, <1>10, <2>1 DEF Follows
<1> QED BY <1>2, <1>8, <1>9, <1>11

\* What a step of the reader leaves alone.
LEMMA WriterStays ==
    ASSUME StreamInv, UNCHANGED <<writeBuf, flushBuf, flushPos, egress, tx, link, written>>
    PROVE  WireBytes' /\ WriterInv'
BY DEF StreamInv, WireBytes, Fits, WriterInv, InFlight

LEMMA PollReadBufferedStep ==
    ASSUME StreamInv, NEW n \in 1..MaxRead, PollReadBuffered(n)
    PROVE  StreamInv'
<1>1. StreamTypes /\ ReaderInv /\ ReadInv
  BY DEF StreamInv
<1>2. PICK k \in Nat : /\ k <= Len(readBuf) - readPos
                       /\ delivered' = delivered \o SubSeq(readBuf, readPos + 1, readPos + k)
                       /\ readPos' = readPos + k
  <2>1. Len(readBuf) - readPos \in Nat /\ n \in Nat
    BY <1>1, LenProperties, RlpxAssumption DEF PollReadBuffered, StreamTypes
  <2>2. PICK m \in Nat : m = Len(readBuf) - readPos
    BY <2>1
  <2>3. Min(n, m) \in Nat /\ Min(n, m) <= m
    BY <2>1 DEF Min
  <2>4. /\ delivered' = delivered \o SubSeq(readBuf, readPos + 1, readPos + Min(n, m))
        /\ readPos' = readPos + Min(n, m)
    BY <2>2 DEF PollReadBuffered
  <2> QED BY <2>2, <2>3, <2>4
<1>3. UNCHANGED <<writeBuf, flushBuf, flushPos, egress, tx, rcvd, link, ingress, readBuf, outcome,
                  torn, written>>
  BY DEF PollReadBuffered
<1>4. readBuf \in Seq(Nat) /\ delivered \in Seq(Nat) /\ readPos \in Nat /\ Len(readBuf) \in Nat
      /\ Len(delivered) \in Nat /\ readPos + k <= Len(readBuf)
  BY <1>1, <1>2, LenProperties DEF StreamTypes
<1>5. /\ delivered' \in Seq(Nat) /\ Len(delivered') = Len(delivered) + k
      /\ \A i \in 1..Len(delivered) : delivered'[i] = delivered[i]
      /\ \A i \in 1..k : delivered'[Len(delivered) + i] = readBuf[readPos + i]
  BY <1>2, <1>4, AppendSlice
<1>6. StreamTypes'
  BY <1>1, <1>2, <1>3, <1>4, <1>5 DEF StreamTypes
<1>7. ToServe' = ToServe
  <2>1. Len(delivered) + k + (Len(readBuf) - (readPos + k)) = Len(delivered) + (Len(readBuf) - readPos)
    BY <1>4
  <2> QED BY <1>2, <1>3, <1>5, <2>1 DEF ToServe
<1>8. ReaderInv'
  BY <1>1, <1>3, <1>7 DEF ReaderInv
<1>9. ReadInv'
  <2>1. \A i \in 1..Len(delivered') : delivered'[i] = i
    <3> TAKE i \in 1..Len(delivered')
    <3>0. i \in Nat /\ 1 <= i /\ i <= Len(delivered) + k
      BY <1>4, <1>5
    <3>1. CASE i <= Len(delivered)
      <4>1. i \in 1..Len(delivered)
        BY <1>4, <3>0, <3>1
      <4> QED BY <1>1, <1>5, <4>1 DEF ReadInv
    <3>2. CASE i > Len(delivered)
      <4>1. i - Len(delivered) \in 1..k /\ Len(delivered) + (i - Len(delivered)) = i
            /\ readPos + (i - Len(delivered)) \in 1..Len(readBuf)
        BY <1>4, <3>0, <3>2
      <4>2. PICK j \in 1..k : Len(delivered) + j = i /\ readPos + j \in 1..Len(readBuf)
        BY <4>1
      <4>3. readBuf[readPos + j] + readPos = Len(delivered) + (readPos + j)
            /\ readBuf[readPos + j] \in Nat
        BY <1>1, <1>4, <4>2 DEF ReadInv
      <4>4. readBuf[readPos + j] = Len(delivered) + j
        <5>1. PICK a \in Nat : a = readBuf[readPos + j]
          BY <4>3
        <5>2. a + readPos = Len(delivered) + (readPos + j)
          BY <4>3, <5>1
        <5> QED BY <1>4, <4>2, <5>1, <5>2, SMTT(30)
      <4> QED BY <1>5, <4>2, <4>4
    <3> QED BY <1>4, <3>0, <3>1, <3>2
  <2>2. \A i \in 1..Len(readBuf') : readBuf'[i] + readPos' = Len(delivered') + i
    <3> TAKE i \in 1..Len(readBuf')
    <3>1. readBuf[i] + readPos = Len(delivered) + i /\ readBuf[i] \in Nat
      BY <1>1, <1>3, <1>4 DEF ReadInv
    <3>2. PICK a \in Nat : a = readBuf[i]
      BY <3>1
    <3>3. a + (readPos + k) = (Len(delivered) + k) + i
      <4>1. i \in Nat
        BY <1>3, <1>4
      <4>2. a + readPos = Len(delivered) + i
        BY <3>1, <3>2
      <4> QED BY <1>4, <4>1, <4>2, SMTT(30)
    <3> QED BY <1>2, <1>3, <1>5, <3>2, <3>3
  <2>3. OnlyTornOrOversized' /\ outcome' # "zero" /\ ToServe' <= written'
    BY <1>1, <1>3, <1>7 DEF ReadInv, OnlyTornOrOversized
  <2> QED BY <2>1, <2>2, <2>3 DEF ReadInv
<1> QED BY <1>3, <1>6, <1>8, <1>9, WriterStays DEF StreamInv

\* A read that ends in an error or an end of file.
LEMMA ReadEnds ==
    ASSUME StreamInv, UNCHANGED <<writeBuf, flushBuf, flushPos, egress, tx, link, written>>,
           UNCHANGED <<rcvd, ingress, readBuf, readPos, torn, delivered>>,
           outcome' # "zero", OnlyTornOrOversized'
    PROVE  StreamInv'
<1>1. StreamTypes /\ ReaderInv /\ ReadInv
  BY DEF StreamInv
<1>2. StreamTypes' /\ ReaderInv' /\ ReadInv'
  BY <1>1 DEF StreamTypes, ReaderInv, ReadInv, ToServe
<1> QED BY <1>2, WriterStays DEF StreamInv

LEMMA PollReadClosedStep ==
    ASSUME StreamInv, PollReadClosed
    PROVE  StreamInv'
<1>1. outcome' \in {"eof", "reset"}
  BY DEF PollReadClosed
<1> QED BY <1>1, ReadEnds DEF PollReadClosed, NeedFrame, OnlyTornOrOversized

LEMMA PollReadBadMacStep ==
    ASSUME StreamInv, PollReadBadMac
    PROVE  StreamInv'
<1>1. /\ outcome' = "auth" /\ Avail >= HeaderLen
      /\ ~HeaderVerifies \/ (BodyArrived /\ ~BodyVerifies)
      /\ UNCHANGED <<writeBuf, flushBuf, flushPos, egress, tx, link, written>>
      /\ UNCHANGED <<rcvd, ingress, readBuf, readPos, torn, delivered>>
  BY DEF PollReadBadMac, NeedFrame
<1>2. ASSUME ~torn
      PROVE  \E i \in 1..Len(tx) : tx[i].size >= SizeMod
  <2>1. tx \in Seq(Cell) /\ rcvd \in Nat /\ Len(tx) \in Nat /\ HeaderLen \in Nat /\ HeaderLen > 0
    BY RlpxAssumption, LenProperties DEF StreamInv, StreamTypes
  <2>2. rcvd < Len(tx) /\ rcvd + 1 \in 1..Len(tx)
    BY <1>1, <2>1 DEF Avail
  <2>3. PICK c : c = tx[rcvd + 1]
    OBVIOUS
  <2>4. HeaderVerifies
    BY <1>1, <1>2, <2>2, <2>3, NextVerifies
  <2>5. c.size \in Nat
    BY <2>1, <2>2, <2>3, CellOf
  <2>6. ASSUME c.size < SizeMod
        PROVE  FALSE
    <3>1. HeaderSize = c.size
      BY <2>3, <2>5, <2>6, SizeInHeader DEF HeaderSize
    <3>2. Avail >= FrameLen(c.size)
      BY <1>1, <2>4, <3>1 DEF BodyArrived, FrameLen
    <3>3. Verifies(HeaderLen + 1, BodyLen(c.size), ingress + 1)
      BY <1>2, <2>2, <2>3, <3>2, NextVerifies
    <3> QED BY <1>1, <2>3, <2>4, <3>1, <3>3 DEF BodyVerifies
  <2>7. c.size >= SizeMod
    BY <2>5, <2>6, RlpxAssumption
  <2> QED BY <2>2, <2>3, <2>7
<1>3. OnlyTornOrOversized'
  BY <1>1, <1>2 DEF OnlyTornOrOversized
<1> QED BY <1>1, <1>3, ReadEnds

LEMMA PollReadPendingStep ==
    ASSUME StreamInv, PollReadPending
    PROVE  StreamInv'
<1>1. StreamTypes /\ WireBytes /\ ReaderInv /\ ReadInv
  BY DEF StreamInv
<1>2. /\ rcvd' = Len(tx) /\ torn' = (torn \/ Avail > 0)
      /\ ingress' = (IF Avail < HeaderLen THEN ingress ELSE ingress + 1)
      /\ Avail < HeaderLen \/ HeaderVerifies
      /\ UNCHANGED <<writeBuf, flushBuf, flushPos, egress, tx, link, written>>
      /\ UNCHANGED <<readBuf, readPos, outcome, delivered>>
  BY DEF PollReadPending, NeedFrame, Incomplete
<1>3. tx \in Seq(Cell) /\ rcvd \in Nat /\ Len(tx) \in Nat /\ rcvd <= Len(tx) /\ HeaderLen \in Nat
      /\ HeaderLen > 0 /\ ingress \in Nat
  BY <1>1, RlpxAssumption, LenProperties DEF StreamTypes
<1>4. StreamTypes'
  <2>1. torn' \in BOOLEAN /\ ingress' \in Nat
    BY <1>1, <1>2, <1>3 DEF StreamTypes
  <2> QED BY <1>1, <1>2, <1>3, <2>1 DEF StreamTypes
<1>5. ReadInv'
  BY <1>1, <1>2 DEF ReadInv, OnlyTornOrOversized, ToServe
<1>6. ReaderInv'
  <2>1. CASE Avail = 0
    <3>1. rcvd' = rcvd /\ ingress' = ingress /\ torn' = torn
      BY <1>1, <1>2, <1>3, <2>1 DEF Avail, StreamTypes
    <3> QED BY <1>1, <1>2, <3>1 DEF ReaderInv, ToServe
  <2>2. CASE Avail # 0
    <3>1. torn' /\ rcvd < Len(tx) /\ rcvd + 1 \in 1..Len(tx) /\ Len(tx) \in 1..Len(tx) /\ Len(tx) > 0
      <4>1. Avail \in Nat /\ Avail > 0
        BY <1>3, <2>2 DEF Avail
      <4>2. rcvd < Len(tx)
        BY <1>3, <4>1 DEF Avail
      <4>3. torn'
        BY <1>2, <4>1
      <4> QED BY <1>3, <4>2, <4>3
    <3>2. tx[rcvd + 1].seq <= tx[Len(tx)].seq /\ tx[Len(tx)].seq \in Nat /\ tx[rcvd + 1].seq \in Nat
      BY <1>1, <1>3, <3>1, CellOf DEF WireBytes
    <3>3. ingress' <= 2 * tx[Len(tx)].seq + 1
      <4>1. CASE torn
        <5>1. ingress' = ingress /\ rcvd > 0 /\ ingress <= 2 * tx[rcvd].seq + 1
          BY <1>1, <1>2, <4>1, TornFails DEF ReaderInv
        <5>2. rcvd \in 1..Len(tx) /\ rcvd <= Len(tx)
          BY <1>3, <5>1
        <5>3. tx[rcvd].seq <= tx[Len(tx)].seq /\ tx[rcvd].seq \in Nat
          BY <1>1, <1>3, <3>1, <5>2, CellOf DEF WireBytes
        <5> QED BY <1>3, <3>2, <5>1, <5>3
      <4>2. CASE ~torn
        <5>1. 2 * tx[rcvd + 1].seq = ingress
          BY <3>1, <4>2, NextFrame
        <5> QED BY <1>2, <1>3, <3>2, <5>1, SMTT(30)
      <4> QED BY <4>1, <4>2
    <3> QED BY <1>2, <3>1, <3>3 DEF ReaderInv
  <2> QED BY <2>1, <2>2
<1> QED BY <1>2, <1>4, <1>5, <1>6, WriterStays DEF StreamInv

LEMMA PollReadFrameStep ==
    ASSUME StreamInv, NEW n \in 1..MaxRead, PollReadFrame(n)
    PROVE  StreamInv'
<1>1. StreamTypes /\ WireBytes /\ ReaderInv /\ ReadInv
  BY DEF StreamInv
<1>2. /\ HeaderVerifies /\ BodyArrived /\ BodyVerifies /\ outcome = "open" /\ readPos = Len(readBuf)
      /\ rcvd' = rcvd + HeaderLen + BodyLen(HeaderSize) /\ ingress' = ingress + 2
      /\ UNCHANGED <<writeBuf, flushBuf, flushPos, egress, tx, link, written>> /\ torn' = torn
  BY DEF PollReadFrame, NeedFrame
<1>3. ~torn
  BY <1>2, TornFails
<1>4. /\ tx \in Seq(Cell) /\ rcvd \in Nat /\ Len(tx) \in Nat /\ HeaderLen \in Nat /\ HeaderLen > 0
      /\ ingress \in Nat /\ delivered \in Seq(Nat) /\ Len(delivered) \in Nat /\ written \in Nat
      /\ readPos \in Nat /\ Len(readBuf) \in Nat
  BY <1>1, RlpxAssumption, LenProperties DEF StreamTypes
<1>5. rcvd < Len(tx) /\ rcvd + 1 \in 1..Len(tx)
  BY <1>2, <1>4 DEF HeaderVerifies, Avail
<1>6. PICK c : c = tx[rcvd + 1]
  OBVIOUS
<1>7. /\ c \in Cell /\ 2 * c.seq = ingress /\ c.from = ToServe /\ c.from + c.size <= written
      /\ \A j \in 1..FrameLen(c.size) : rcvd + j <= Len(tx) => tx[rcvd + j] = ByteOf(c, j)
  BY <1>3, <1>5, <1>6, NextFrame
<1>8. c.seq \in Nat /\ c.from \in Nat /\ c.size \in Nat /\ c.size > 0
  BY <1>7 DEF Cell
<1>9. HeaderSize = c.size
  <2>1. BodyLen(c.size % SizeMod) = BodyLen(c.size)
    BY <1>2, <1>6 DEF BodyVerifies, HeaderSize
  <2> QED BY <1>6, <1>8, <2>1, SizeInHeader DEF HeaderSize
<1>10. FrameLen(c.size) \in Nat /\ FrameLen(c.size) > 0 /\ BodyLen(c.size) \in Nat
       /\ FrameLen(c.size) = HeaderLen + BodyLen(c.size)
  BY <1>8, BodyLengths DEF FrameLen
<1>11. rcvd' = rcvd + FrameLen(c.size) /\ rcvd' <= Len(tx) /\ rcvd' \in Nat /\ rcvd' > 0
  BY <1>2, <1>4, <1>9, <1>10 DEF BodyArrived, Avail
<1>12. tx[rcvd'] = ByteOf(c, FrameLen(c.size))
  BY <1>7, <1>10, <1>11
<1>13. PICK k \in Nat : /\ k <= c.size /\ k > 0 /\ readBuf' = Bytes(c.from, c.size) /\ readPos' = k
                        /\ delivered' = delivered \o Bytes(c.from, k) /\ outcome' = outcome
  <2>1. n \in Nat /\ n > 0
    BY RlpxAssumption
  <2>2. Min(n, c.size) \in Nat /\ Min(n, c.size) <= c.size /\ Min(n, c.size) > 0
    BY <1>8, <2>1 DEF Min
  <2>3. /\ readBuf' = Bytes(c.from, c.size) /\ readPos' = Min(n, c.size)
        /\ delivered' = delivered \o Bytes(c.from, Min(n, c.size))
        /\ outcome' = IF Min(n, c.size) = 0 THEN "zero" ELSE outcome
    BY <1>6, <1>9 DEF PollReadFrame
  <2>4. Min(n, c.size) # 0
    BY <2>2
  <2> QED BY <2>2, <2>3, <2>4
<1>14. /\ Bytes(c.from, c.size) \in Seq(Nat) /\ Len(Bytes(c.from, c.size)) = c.size
       /\ \A i \in 1..c.size : Bytes(c.from, c.size)[i] = c.from + i
       /\ Bytes(c.from, k) \in Seq(Nat) /\ Len(Bytes(c.from, k)) = k
       /\ \A i \in 1..k : Bytes(c.from, k)[i] = c.from + i
  BY <1>8 DEF Bytes
<1>15. c.from = Len(delivered)
  BY <1>2, <1>4, <1>7 DEF ToServe
<1>16. /\ delivered' \in Seq(Nat) /\ Len(delivered') = Len(delivered) + k
       /\ \A i \in 1..Len(delivered') : delivered'[i] = i
  <2>1. /\ delivered' \in Seq(Nat) /\ Len(delivered') = Len(delivered) + k
        /\ \A i \in 1..Len(delivered) + k :
              delivered'[i] = IF i <= Len(delivered) THEN delivered[i]
                              ELSE Bytes(c.from, k)[i - Len(delivered)]
    <3>1. PICK v \in Seq(Nat) : v = Bytes(c.from, k)
      BY <1>14
    <3>2. delivered' = delivered \o v /\ Len(v) = k
      BY <1>13, <1>14, <3>1
    <3> QED BY <1>4, <3>1, <3>2, ConcatProperties
  <2>2. \A i \in 1..Len(delivered) + k : i <= Len(delivered) => delivered[i] = i
    BY <1>1, <1>4 DEF ReadInv
  <2>3. \A i \in 1..Len(delivered) + k :
           ~(i <= Len(delivered)) => Bytes(c.from, k)[i - Len(delivered)] = i
    <3> TAKE i \in 1..Len(delivered) + k
    <3>1. ASSUME ~(i <= Len(delivered))
          PROVE  i - Len(delivered) \in 1..k /\ c.from + (i - Len(delivered)) = i
      BY <1>4, <1>15, <3>1
    <3> QED BY <1>14, <3>1
  <2> QED BY <2>1, <2>2, <2>3
<1>17. StreamTypes'
  BY <1>1, <1>2, <1>4, <1>11, <1>13, <1>14, <1>16 DEF StreamTypes
<1>18. ToServe' = c.from + c.size
  <2>1. Len(delivered') = c.from + k /\ Len(readBuf') = c.size /\ readPos' = k
    BY <1>13, <1>14, <1>15, <1>16
  <2>2. (c.from + k) + (c.size - k) = c.from + c.size
    BY <1>8, <1>13
  <2> QED BY <2>1, <2>2 DEF ToServe
<1>19. ReaderInv'
  <2>1. Between(tx, rcvd', c.seq + 1, ToServe')
    BY <1>11, <1>12, <1>18 DEF Between, ByteOf
  <2>2. ingress' = 2 * (c.seq + 1) /\ c.seq + 1 \in Nat
    BY <1>2, <1>7, <1>8
  <2> QED BY <1>2, <1>3, <2>1, <2>2 DEF ReaderInv
<1>20. ReadInv'
  <2>1. \A i \in 1..Len(readBuf') : readBuf'[i] + readPos' = Len(delivered') + i
    <3>1. Len(delivered') = c.from + k /\ Len(readBuf') = c.size /\ readPos' = k
          /\ \A i \in 1..c.size : readBuf'[i] = c.from + i
      BY <1>13, <1>14, <1>15, <1>16
    <3>2. \A i \in 1..c.size : (c.from + i) + k = (c.from + k) + i
      BY <1>8, <1>13
    <3> QED BY <3>1, <3>2
  <2>2. OnlyTornOrOversized' /\ outcome' # "zero"
    BY <1>1, <1>2, <1>13 DEF ReadInv, OnlyTornOrOversized
  <2> QED BY <1>2, <1>7, <1>16, <1>18, <2>1, <2>2 DEF ReadInv
<1> QED BY <1>2, <1>17, <1>19, <1>20, WriterStays DEF StreamInv

-----------------------------------------------------------------------------
LEMMA InitStream == Init => StreamInv
<1> SUFFICES ASSUME Init PROVE StreamInv
  OBVIOUS
<1>1. StreamTypes
  <2>1. <<>> \in Seq(Cell) /\ <<>> \in Seq(Nat) /\ Len(<<>>) = 0
    OBVIOUS
  <2>2. tx \in Seq(Cell) /\ flushBuf \in Seq(Cell) /\ readBuf \in Seq(Nat) /\ delivered \in Seq(Nat)
        /\ Len(tx) = 0 /\ Len(readBuf) = 0
    BY <2>1 DEF Init
  <2>3. /\ writeBuf = 0 /\ flushPos = 0 /\ egress = 0 /\ rcvd = 0 /\ ingress = 0 /\ written = 0
        /\ readPos = 0 /\ torn = FALSE /\ link = "up"
    BY DEF Init
  <2>4. torn \in BOOLEAN /\ link \in {"up", "fin", "reset"}
    BY <2>3
  <2>5. writeBuf <= written /\ rcvd <= Len(tx) /\ readPos <= Len(readBuf)
    BY <2>2, <2>3
  <2>6. writeBuf \in Nat /\ flushPos \in Nat /\ egress \in Nat /\ rcvd \in Nat /\ ingress \in Nat
        /\ written \in Nat /\ readPos \in Nat
    BY <2>3
  <2> QED BY <2>2, <2>4, <2>5, <2>6 DEF StreamTypes
<1>2. Len(tx) = 0 /\ Len(delivered) = 0 /\ Len(readBuf) = 0 /\ readPos = 0 /\ written = 0
      /\ writeBuf = 0 /\ egress = 0 /\ rcvd = 0 /\ ingress = 0
  BY DEF Init
<1>3. ToServe = 0
  BY <1>2 DEF ToServe
<1>4. WireBytes
  BY <1>2 DEF WireBytes
<1>5. WriterInv
  BY <1>2 DEF Init, WriterInv, Between
<1>6. ReaderInv
  <2>1. ~torn /\ ingress = 2 * 0 /\ 0 \in Nat
    BY <1>2 DEF Init
  <2> QED BY <1>2, <1>3, <2>1 DEF ReaderInv, Between
<1>7. ReadInv
  BY <1>2, <1>3 DEF Init, ReadInv, OnlyTornOrOversized
<1> QED BY <1>1, <1>4, <1>5, <1>6, <1>7 DEF StreamInv

LEMMA StreamStep ==
    ASSUME StreamInv, [Next]_vars
    PROVE  StreamInv'
<1>1. CASE UNCHANGED vars
  BY <1>1 DEF vars, StreamInv, StreamTypes, WireBytes, Fits, WriterInv, InFlight, ReaderInv, ReadInv,
              ToServe, OnlyTornOrOversized
<1> QED BY <1>1, PollWriteStep, PollFlushStep, DropWriterStep, ResetStep, PollReadBufferedStep,
           PollReadFrameStep, PollReadPendingStep, PollReadClosedStep, PollReadBadMacStep DEF Next

LEMMA StreamInvariant == RlpxSpec => []StreamInv
<1>1. StreamInv /\ [RlpxNext]_<<hsVars, vars>> => StreamInv'
  BY StreamStep DEF RlpxNext, Shaking, Streaming
<1> QED BY <1>1, InitStream, PTL DEF RlpxSpec, RlpxInit

(* The reader never gets wrong bytes.                                      *)
THEOREM DeliversPrefix == RlpxSpec => []DeliveredIsPrefix
<1>1. StreamInv => DeliveredIsPrefix
  <2> SUFFICES ASSUME StreamInv PROVE DeliveredIsPrefix
    OBVIOUS
  <2>1. Len(delivered) \in Nat /\ Len(readBuf) \in Nat /\ readPos \in Nat /\ written \in Nat
        /\ readPos <= Len(readBuf)
    BY LenProperties DEF StreamInv, StreamTypes
  <2>2. ToServe <= written /\ \A i \in 1..Len(delivered) : delivered[i] = i
    BY DEF StreamInv, ReadInv
  <2>3. Len(delivered) <= written
    BY <2>1, <2>2 DEF ToServe
  <2> QED BY <2>2, <2>3 DEF DeliveredIsPrefix
<1> QED BY <1>1, StreamInvariant, PTL

(* A sealed frame fails to open for two reasons only.                      *)
THEOREM FailsForTwoReasons == RlpxSpec => []OnlyTornOrOversized
<1>1. StreamInv => OnlyTornOrOversized
  BY DEF StreamInv, ReadInv
<1> QED BY <1>1, StreamInvariant, PTL
=============================================================================
