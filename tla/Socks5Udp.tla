------------------------------ MODULE Socks5Udp -----------------------------
(***************************************************************************)
(* A UDP association from end to end: handle_udp_associate of              *)
(* ark-client/src/socks5.rs, with its three futures under one select!, the *)
(* tunnel, and serve_udp_associate (UdpRelay).                             *)
(***************************************************************************)
EXTENDS UdpRelay

CONSTANTS
    Sockets,     \* UDP sockets of the application
    Resolutions  \* <<target, dest>>: the addresses a target may resolve to

\* No address of a datagram yet.
Unseen == "unseen"

ASSUME AssociationAssumption ==
    /\ Resolutions \subseteq Targets \X Dests
    /\ Unseen \notin Sockets

VARIABLES
    association, \* whether the client's three futures run
    control,     \* whether the application keeps its TCP connection
    clientAddr,  \* where the last datagram came from, or Unseen
    outgoing,    \* a datagram in the tunnel to the server: <<>> or <<target>>
    incoming     \* one to the client: <<>> or <<[dest, target]>>

associationVars == <<association, control, clientAddr, outgoing, incoming>>
udpVars == <<natVars, associationVars>>

AssociationInit ==
    /\ UdpInit
    /\ association = TRUE /\ control = TRUE
    /\ clientAddr = Unseen
    /\ outgoing = <<>> /\ incoming = <<>>

-----------------------------------------------------------------------------
(* The client                                                              *)

\* outbound: a datagram that parses is passed on; fragments and others are not.
\* One that does not reach an idle tunnel waits in the socket, or is lost.
Outbound(s, t) ==
    /\ association /\ outgoing = <<>>
    /\ clientAddr' = s
    /\ outgoing' = <<t>>
    /\ UNCHANGED <<natVars, association, control, incoming>>

\* write_udp_datagram refuses a name or a payload that is too long, or the
\* tunnel is broken: the future returns, and the others are dropped.
OutboundFails ==
    /\ association
    /\ association' = FALSE /\ control' = FALSE
    /\ UNCHANGED <<natVars, clientAddr, outgoing, incoming>>

\* inbound: a reply goes to clientAddr, whichever socket asked.
Inbound ==
    /\ association /\ incoming # <<>>
    /\ incoming' = <<>>
    /\ UNCHANGED <<natVars, association, control, clientAddr, outgoing>>

\* The application closes its TCP connection, or writes to it.
ControlEnds ==
    /\ control
    /\ control' = FALSE
    /\ UNCHANGED <<natVars, association, clientAddr, outgoing, incoming>>

\* X with a slip: the end of the tunnel is not an end of the association.
AssociationEndsBug ==
    /\ association
    /\ ~control
    /\ association' = FALSE /\ control' = FALSE
    /\ UNCHANGED <<natVars, clientAddr, outgoing, incoming>>

\* select!: control has returned, or inbound at the end of the tunnel.
AssociationEnds ==
    /\ association
    /\ ~control \/ (~open /\ incoming = <<>>)
    /\ association' = FALSE /\ control' = FALSE
    /\ UNCHANGED <<natVars, clientAddr, outgoing, incoming>>

-----------------------------------------------------------------------------
(* The server, between the tunnel and the hosts                            *)

ForwardUp(d) ==
    /\ outgoing # <<>>
    /\ <<Head(outgoing), d>> \in Resolutions
    /\ Forward(Head(outgoing), d)
    /\ outgoing' = <<>>
    /\ UNCHANGED <<association, control, clientAddr, incoming>>

\* The target does not resolve.
Unresolved ==
    /\ open /\ outgoing # <<>>
    /\ outgoing' = <<>>
    /\ UNCHANGED <<natVars, association, control, clientAddr, incoming>>

WrittenDown ==
    /\ incoming = <<>>
    /\ incoming' = reply
    /\ Written
    /\ UNCHANGED <<association, control, clientAddr, outgoing>>

\* The server's future ends with the tunnel, or by itself.
ServerSeesEnd == ~association /\ ClientEnds /\ UNCHANGED associationVars
ServerFails == ReplyFails /\ UNCHANGED associationVars

AssociationNext ==
    \/ \E s \in Sockets, t \in Targets : Outbound(s, t)
    \/ OutboundFails \/ Inbound \/ ControlEnds \/ AssociationEnds
    \/ \E d \in Dests : ForwardUp(d)
    \/ Unresolved \/ WrittenDown \/ ServerSeesEnd \/ ServerFails
    \/ \E d \in Dests : Reply(d) /\ UNCHANGED associationVars
    \/ UdpTick /\ UNCHANGED associationVars

-----------------------------------------------------------------------------
(* Properties *)

(* The application finds each reply under a name it has used for the host  *)
(* that sent it, whatever the table forgot or renamed while the reply was  *)
(* on its way, and it is there to receive it: no reply comes before the    *)
(* address it goes to is known.                                            *)
RepliesAreNamed ==
    \A r \in {reply[i] : i \in 1..Len(reply)} \cup {incoming[i] : i \in 1..Len(incoming)} :
        r.target \in named[r.dest] /\ clientAddr # Unseen

(* "when the TCP control connection closes, the UDP relay MUST be torn     *)
(* down" (socks5.rs:270-271), at both ends of the tunnel, and no end       *)
(* outlives the other.                                                     *)
EndsTogether == (~association \/ ~open \/ ~control) ~> (~association /\ ~open)
=============================================================================
