------------------------------ MODULE TcpRelay ------------------------------
(***************************************************************************)
(* A TCP session from end to end: an application, the client's SOCKS5      *)
(* (ark-client/src/socks5.rs) or HTTP CONNECT front end (http_proxy.rs),   *)
(* the activation (Session), and tokio's copy_bidirectional at both ends   *)
(* of the tunnel, up to the target.                                        *)
(*                                                                         *)
(* copy_bidirectional copies both ways until both inputs have ended, and   *)
(* shuts the other output down at the end of each; an error ends it at     *)
(* once. Both transports' poll_shutdown only flushes, and their poll_read  *)
(* takes the end of the TCP connection for an error.                       *)
(*                                                                         *)
(* An end that takes nothing holds up what is sent to it: a copy loop      *)
(* whose buffer is full reads no more until a write succeeds, and so does  *)
(* not see that the side it reads from has been reset.                     *)
(***************************************************************************)
EXTENDS Session, FiniteSets

CONSTANTS
    MaxData,     \* bound on the data bytes of each direction
    CopyBuf,     \* data bytes a copy loop's buffer holds
    Room         \* data bytes one way holds from end to end: the buffers of both
                 \* copy loops, and those of the transport and the system between

ASSUME RelayAssumption ==
    /\ MaxData \in Nat
    /\ CopyBuf \in Nat \ {0} /\ Room \in Nat /\ CopyBuf < Room

VARIABLES
    http,        \* whether the application asks by HTTP CONNECT or by SOCKS5
    ask,         \* "reading", "asked", "answered" (with success) or "refused"
    app, target, \* "open", "fin" (its input has ended) or "reset"
    fromApp,     \* bytes on their way from the application to the client
    lost,        \* bytes BufReader has taken with the request
    over,        \* the ends whose input the relay beside them has seen to end
    sentUp, sentDown,    \* data bytes sent by the application and by the target
    atTarget, atApp      \* data received by the target and by the application

relayVars == <<http, ask, app, target, fromApp, lost, over, sentUp, sentDown, atTarget, atApp>>

RelayInit ==
    /\ http \in BOOLEAN
    /\ ask = "reading" /\ app = "open" /\ target = "open"
    /\ fromApp = <<>> /\ lost = 0 /\ over = {}
    /\ sentUp = 0 /\ sentDown = 0 /\ atTarget = <<>> /\ atApp = <<>>

\* The data bytes on a way. They gather at its far end: the copy loop there
\* takes them until its buffer is full, and then the rest of the way fills, the
\* buffer of the copy loop at its near end last.
Load(way) == Cardinality({i \in DOMAIN way : way[i].kind = "data"})

FarEndReads(way) == Load(way) < CopyBuf
NearEndReads(way) == Load(way) < Room

-----------------------------------------------------------------------------
(* The application and the target                                          *)

\* An application may send data before it is answered.
AppSends ==
    /\ app = "open" /\ ask # "refused"
    /\ sentUp < MaxData
    /\ sentUp' = sentUp + 1
    /\ fromApp' = Append(fromApp, Item("data", sentUp + 1))
    /\ UNCHANGED <<sessionVars, http, ask, app, target, lost, over, sentDown, atTarget, atApp>>

AppEnds(how) ==
    /\ app = "open" \/ (app = "fin" /\ how = "reset")
    /\ app' = how
    /\ fromApp' = IF how = "reset" THEN <<>> ELSE fromApp
    /\ UNCHANGED <<sessionVars, http, ask, target, lost, over, sentUp, sentDown, atTarget, atApp>>

TargetEnds(how) ==
    /\ server = "relay"
    /\ target = "open" \/ (target = "fin" /\ how = "reset")
    /\ target' = how
    /\ UNCHANGED <<sessionVars, http, ask, app, fromApp, lost, over, sentUp, sentDown,
                   atTarget, atApp>>

-----------------------------------------------------------------------------
(* The front ends                                                          *)

\* The request is read: by read_exact, or by a BufReader that may hold more
\* when into_inner drops it.
ReadAsk(k) ==
    /\ ask = "reading" /\ app # "reset"
    /\ k <= Len(fromApp) /\ (~http => k = 0)
    /\ ask' = "asked"
    /\ lost' = k
    /\ fromApp' = SubSeq(fromApp, k + 1, Len(fromApp))
    /\ UNCHANGED <<sessionVars, http, app, target, over, sentUp, sentDown, atTarget, atApp>>

\* It is not SOCKS5 or not CONNECT, it does not parse, or it ends.
RefuseAsk ==
    /\ ask = "reading"
    /\ ask' = "refused"
    /\ UNCHANGED <<sessionVars, http, app, target, fromApp, lost, over, sentUp, sentDown,
                   atTarget, atApp>>

\* An XBug is X with a slip: success is reported before the session has been
\* asked for.
AnswerBug ==
    /\ ask = "asked" /\ client \in {"status", "open", "failed"}
    /\ ask' = IF client = "failed" THEN "refused" ELSE "answered"
    /\ UNCHANGED <<sessionVars, http, app, target, fromApp, lost, over, sentUp, sentDown,
                   atTarget, atApp>>

\* acquire has returned: success is reported, or REP_FAILURE or 502.
Answer ==
    /\ ask = "asked" /\ client \in {"open", "failed"} /\ app # "reset"
    /\ ask' = IF client = "open" THEN "answered" ELSE "refused"
    /\ UNCHANGED <<sessionVars, http, app, target, fromApp, lost, over, sentUp, sentDown,
                   atTarget, atApp>>

-----------------------------------------------------------------------------
(* copy_bidirectional at the client                                        *)

ClientRelays == ask = "answered" /\ client = "open"

ClientForwards ==
    /\ ClientRelays /\ NearEndReads(up)
    /\ fromApp # <<>>
    /\ fromApp' = Tail(fromApp)
    /\ up' = Append(up, Head(fromApp))
    /\ UNCHANGED <<setup, client, taken, late, down, server, dialled, refused,
                   http, ask, app, target, lost, over, sentUp, sentDown, atTarget, atApp>>

\* The application's end is passed on as a flush.
AppIsOver ==
    /\ ClientRelays /\ NearEndReads(up)
    /\ app = "fin" /\ fromApp = <<>> /\ "app" \notin over
    /\ over' = over \cup {"app"}
    /\ UNCHANGED <<sessionVars, http, ask, app, target, fromApp, lost, sentUp, sentDown,
                   atTarget, atApp>>

\* The application takes a byte, if it will.
ClientReturns ==
    /\ ClientRelays
    /\ app # "reset"
    /\ down # <<>>
    /\ down' = Tail(down)
    /\ atApp' = Append(atApp, Head(down))
    /\ UNCHANGED <<setup, client, taken, late, up, server, dialled, refused,
                   http, ask, app, target, fromApp, lost, over, sentUp, sentDown, atTarget>>

\* The application has reset its connection, or the tunnel has ended: the copy
\* loop finds out when it reads that side or writes to it, and drops both,
\* whatever is still on its way. Until it runs, both are looked at.
ClientDrops ==
    /\ client = "open"
    /\ \/ app = "reset" /\ (ClientRelays => NearEndReads(up) \/ down # <<>>)
       \/ server = "ended" /\ (ClientRelays =>
                                FarEndReads(down) \/ fromApp # <<>> \/ ~NearEndReads(up))
    /\ client' = "gone"
    /\ UNCHANGED <<setup, taken, late, up, down, server, dialled, refused, relayVars>>

-----------------------------------------------------------------------------
(* copy_bidirectional at the server                                        *)

\* The target takes a byte, if it will.
ServerForwards ==
    /\ server = "relay"
    /\ target # "reset"
    /\ up # <<>>
    /\ up' = Tail(up)
    /\ atTarget' = Append(atTarget, Head(up))
    /\ UNCHANGED <<setup, client, taken, late, down, server, dialled, refused,
                   http, ask, app, target, fromApp, lost, over, sentUp, sentDown, atApp>>

ServerReturns ==
    /\ server = "relay" /\ NearEndReads(down)
    /\ target = "open"
    /\ sentDown < MaxData
    /\ sentDown' = sentDown + 1
    /\ down' = Append(down, Item("data", sentDown + 1))
    /\ UNCHANGED <<setup, client, taken, late, up, server, dialled, refused,
                   http, ask, app, target, fromApp, lost, over, sentUp, atTarget, atApp>>

TargetIsOver ==
    /\ server = "relay" /\ NearEndReads(down)
    /\ target = "fin" /\ "target" \notin over
    /\ over' = over \cup {"target"}
    /\ UNCHANGED <<sessionVars, http, ask, app, target, fromApp, lost, sentUp, sentDown,
                   atTarget, atApp>>

\* What a copy loop at the server finds out, as ClientDrops.
TargetIsLost == target = "reset" /\ (NearEndReads(down) \/ up # <<>>)
ClientIsLost == client \in {"gone", "failed"} /\ (FarEndReads(up) \/ ~NearEndReads(down))

\* The end of the tunnel is an end of input: the target's is awaited as well.
ServerDropsBug ==
    /\ IF server = "relay" THEN TargetIsLost \/ (ClientIsLost /\ "target" \in over)
       ELSE server # "ended" /\ client \in {"gone", "failed"}
    /\ server' = "ended"
    /\ UNCHANGED <<setup, client, taken, late, up, down, dialled, refused, relayVars>>

\* Whoever still reads the marker or the request finds the client gone too.
ServerDrops ==
    /\ IF server = "relay" THEN TargetIsLost \/ ClientIsLost
       ELSE server # "ended" /\ client \in {"gone", "failed"}
    /\ server' = "ended"
    /\ UNCHANGED <<setup, client, taken, late, up, down, dialled, refused, relayVars>>

-----------------------------------------------------------------------------
\* Acquiring a stream and activating it begins when the request has been read.
Activates == ask = "asked" /\ (SendMarker \/ Activation) /\ UNCHANGED relayVars
Serves == Serve /\ UNCHANGED relayVars
Killed == (ClientGoes \/ ServerEnds) /\ UNCHANGED relayVars

\* What the two programs do by themselves. ClientReturns and ServerForwards are
\* not among it: they wait for the application and the target to take data.
ClientTask == Activates \/ Answer \/ ClientForwards \/ AppIsOver
ServerTask == Serves \/ TargetIsOver

RelayNext ==
    \/ Activates \/ Serves \/ Killed
    \/ AppSends \/ \E how \in {"fin", "reset"} : AppEnds(how) \/ TargetEnds(how)
    \/ (\E k \in 0..MaxData : ReadAsk(k)) \/ RefuseAsk \/ Answer
    \/ ClientForwards \/ AppIsOver \/ ClientReturns \/ ClientDrops
    \/ ServerForwards \/ ServerReturns \/ TargetIsOver \/ ServerDrops

vars == <<sessionVars, relayVars>>

Spec == SessionInit /\ RelayInit /\ [][RelayNext]_vars

\* Both tasks run, the transport delivers, and a dial ends, if only by the
\* operating system's timeout.
FairSpec ==
    Spec /\ WF_vars(ClientTask) /\ WF_vars(ServerTask) /\ WF_vars(ClientDrops) /\ WF_vars(ServerDrops)

-----------------------------------------------------------------------------
(* Properties *)

(* When the application is told that it is connected, the server has       *)
(* dialled the target: no late byte of a negotiation the client has given  *)
(* up is ever taken for a success, nor is success told in advance.         *)
AnswerIsTruthful == ask = "answered" => dialled

(* What the application and the target exchange is what they sent, in      *)
(* order and from the first byte, but for what an application sent by HTTP *)
(* before it was answered: nothing of the activation is among it.          *)
DataIsVerbatim ==
    /\ \A i \in 1..Len(atApp) : atApp[i] = Item("data", i)
    /\ \A i \in 1..Len(atTarget) : atTarget[i] = Item("data", lost + i)
    /\ lost > 0 => http

(* Every application that asks is answered, whether the server answers the *)
(* hello or not, or the client has been killed or finds it gone.           *)
AsksAreAnswered == ask = "asked" ~> (ask # "asked" \/ client = "gone" \/ app = "reset")

(* An end of the chain holds up a copy loop: it has not been reset, and    *)
(* what has been sent to it fills the buffer beside it.                    *)
HeldUp ==
    \/ target # "reset" /\ ~FarEndReads(up)
    \/ app # "reset" /\ ~FarEndReads(down)

(* A reset at either end of the chain comes out at the other, and neither  *)
(* relay outlives it, unless an end stops taking data for good: neither    *)
(* full buffers that drain in the end nor a half-closed side hides it.     *)
ResetsEndBoth ==
    (ClientRelays /\ server = "relay" /\ (app = "reset" \/ target = "reset"))
        ~> ((client = "gone" /\ server = "ended") \/ []HeldUp)

(* "pump bytes bidirectionally until either side closes" (run.rs:340):     *)
(* when even both sides have, and all that they sent has come out, the     *)
(* relays are over.                                                        *)
RelayEnds ==
    (over = {"app", "target"} /\ up = <<>> /\ down = <<>>)
        ~> (client = "gone" /\ server = "ended")
=============================================================================
