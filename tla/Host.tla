-------------------------------- MODULE Host --------------------------------
(***************************************************************************)
(* The programs that change what outlives them on their host: the routes   *)
(* of `ark-client tun` (TunRoutes), the cache that clients share           *)
(* (PoolRegistry) and the configuration that the server's commands share   *)
(* (ServerConfig). They have nothing in common, so that a behaviour is one *)
(* of one of them.                                                         *)
(***************************************************************************)
EXTENDS TunRoutes, PoolRegistry, ServerConfig

VARIABLE subject    \* the program this behaviour is of

vars == <<subject, tunVars, registryVars, configVars>>

\* What the programs that do not run have not touched.
TunAtRest == TunInit /\ os = "linux" /\ ~ipv6 /\ before = CHOOSE t \in Tables : TRUE
RegistryAtRest ==
    /\ RegistryInit
    /\ follows = [c \in Clients |-> NoKey]
    /\ uri = CHOOSE u \in [hosts : HostLists, backups : Backups, transport : Transports,
                           nodekey : BOOLEAN] : TRUE

Init ==
    \/ subject = "tun" /\ TunInit /\ RegistryAtRest /\ ConfigInit
    \/ subject = "registry" /\ TunAtRest /\ RegistryInit /\ ConfigInit
    \/ subject = "config" /\ TunAtRest /\ RegistryAtRest /\ ConfigInit

TunRuns == subject = "tun" /\ TunNext /\ UNCHANGED <<subject, registryVars, configVars>>
ClientsRun == subject = "registry" /\ RegistryNext /\ UNCHANGED <<subject, tunVars, configVars>>
ServerRuns == subject = "config" /\ ConfigNext /\ UNCHANGED <<subject, tunVars, registryVars>>

Next == TunRuns \/ ClientsRun \/ ServerRuns

Spec == Init /\ [][Next]_vars
=============================================================================
