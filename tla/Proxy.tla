-------------------------------- MODULE Proxy -------------------------------
(***************************************************************************)
(* What a front end does with a request: open_proxied and a TCP relay      *)
(* (TcpRelay), or open_udp_associate_stream and a UDP association          *)
(* (Socks5Udp). Both begin with the activation (Session), which differs in *)
(* the request it sends. HTTP CONNECT has no UDP.                          *)
(***************************************************************************)
EXTENDS TcpRelay, Socks5Udp

VARIABLES
    command      \* the SOCKS5 command: "connect" or "associate"

proxyVars == <<vars, udpVars, command>>

\* An association has no target that could be too long, and it is begun here
\* by a client that asks for no capability: TcpRelay has the others.
ProxyInit ==
    /\ SessionInit /\ RelayInit /\ AssociationInit
    /\ command \in {"connect", "associate"}
    /\ command = "associate" => ~http /\ ~shaped /\ ~overlong

\* Until it is answered the application's connection is not looked at; from
\* then on it is `control`.
Associated == command = "associate" /\ ask = "answered" /\ client = "open" /\ server = "relay"

AssociateNext ==
    \/ ReadAsk(0) \/ RefuseAsk \/ Activates \/ Serves \/ Killed \/ Answer
    \/ ClientDrops \/ ServerDrops

ProxyNext ==
    \/ command = "connect" /\ RelayNext /\ UNCHANGED <<udpVars, command>>
    \/ command = "associate" /\ ~Associated /\ AssociateNext /\ UNCHANGED <<udpVars, command>>
    \/ Associated /\ AssociationNext /\ UNCHANGED <<vars, command>>

Of(action) == ~Associated /\ action /\ UNCHANGED <<udpVars, command>>

\* Both tasks run, the transport delivers, and a dial ends, if only by the
\* operating system's timeout; select! sees what has returned.
ProxySpec ==
    /\ ProxyInit /\ [][ProxyNext]_proxyVars
    /\ WF_proxyVars(Of(ClientTask)) /\ WF_proxyVars(Of(ServerTask))
    /\ WF_proxyVars(Of(ClientDrops)) /\ WF_proxyVars(Of(ServerDrops))
    /\ WF_proxyVars(Associated /\ Inbound /\ UNCHANGED <<vars, command>>)
    /\ WF_proxyVars(Associated /\ AssociationEnds /\ UNCHANGED <<vars, command>>)
    /\ WF_proxyVars(Associated /\ ServerSeesEnd /\ UNCHANGED <<vars, command>>)
=============================================================================
