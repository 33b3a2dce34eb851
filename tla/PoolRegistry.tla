---------------------------- MODULE PoolRegistry ----------------------------
(***************************************************************************)
(* Where a client gets its endpoints from: its URI (ark-client/src/uri.rs) *)
(* and the signed registry that may replace them (apply_pool of main.rs,   *)
(* ark-client/src/pool_registry.rs), with the cache file that all clients  *)
(* of a user share, whatever registry each of them follows.                *)
(*                                                                         *)
(* A document is [signer, number, servers]; a signature verifies under one *)
(* key. std::fs::write is two steps, the truncation and the write, between *)
(* which others read and a crash may fall. Texts that do not parse,        *)
(* oversized bodies and files, and unreachable hosts are one: no document. *)
(***************************************************************************)
EXTENDS Naturals, Sequences, SequencesExt, Selection

CONSTANTS
    Clients,     \* client processes
    Keys,        \* keys that registries are signed with
    Hosts,       \* hosts, each with its port
    ServerLists, \* what a registry may list: sequences of [host, transport]
    HostLists,   \* what a URI may list before its query: sequences of hosts
    Backups,     \* and in its backup parameters: sequences of hosts
    MaxNumber    \* bound on the documents a registry publishes

Transports == {"bip324", "rlpx"}

NoKey == "no key"

\* A URI has a host: parse refuses an empty entry.
ASSUME RegistryAssumption ==
    /\ NoKey \notin Keys
    /\ \A l \in ServerLists : l \in Seq([host : Hosts, transport : Transports])
    /\ \A l \in HostLists : l \in Seq(Hosts) /\ l # <<>>
    /\ \A l \in Backups : l \in Seq(Hosts)

VARIABLES
    follows,     \* per client: the key of its registry, or NoKey without --pool-url
    uri,         \* the URI of all clients: [hosts, backups, transport, nodekey]
    issued,      \* the documents signed so far
    cache,       \* pool.json: a document, NoDoc, or Torn
    step,        \* per client: where its start-up is
    doc,         \* per client: the document load returns
    endpoints    \* per client: uri.endpoints

registryVars == <<follows, uri, issued, cache, step, doc, endpoints>>

NoDoc == [signer |-> NoKey, number |-> 0, servers |-> <<>>]
Torn == [NoDoc EXCEPT !.number = 1]

-----------------------------------------------------------------------------
(* ArkUri::parse                                                           *)

\* Later mentions of an endpoint are dropped.
Deduped(hosts) == Kept(hosts, {i \in 1..Len(hosts) : \A j \in 1..(i - 1) : hosts[j] # hosts[i]})

UriEndpoints(u) == Deduped(u.hosts \o u.backups)

\* RLPx takes a node key and one endpoint.
UriParses(u) == u.transport = "rlpx" => u.nodekey /\ Len(UriEndpoints(u)) = 1

-----------------------------------------------------------------------------
(* pool_registry.rs                                                        *)

\* parse_and_verify: servers are listed, and the signature is the key's.
Accepts(d, key) == d.servers # <<>> /\ d.signer = key

\* doc_to_endpoints
ForTransport(d, transport) ==
    LET kept == Kept(d.servers, {i \in 1..Len(d.servers) : d.servers[i].transport = transport})
    IN [i \in 1..Len(kept) |-> kept[i].host]

RegistryInit ==
    /\ follows \in [Clients -> Keys \cup {NoKey}]
    /\ uri \in [hosts : HostLists, backups : Backups, transport : Transports, nodekey : BOOLEAN]
    /\ issued = {} /\ cache = NoDoc
    /\ step = [c \in Clients |-> "parse"]
    /\ doc = [c \in Clients |-> NoDoc]
    /\ endpoints = [c \in Clients |-> <<>>]

\* An operator publishes a document: one listing no server is an oversight.
Issue(key, servers) ==
    LET number == Cardinality({d \in issued : d.signer = key}) + 1 IN
    /\ number <= MaxNumber
    /\ issued' = issued \cup {[signer |-> key, number |-> number, servers |-> servers]}
    /\ UNCHANGED <<follows, uri, cache, step, doc, endpoints>>

Goes(c, s) == step' = [step EXCEPT ![c] = s]

\* The URI is parsed; without --pool-url its endpoints stay.
Parse(c) ==
    /\ step[c] = "parse"
    /\ Goes(c, IF ~UriParses(uri) THEN "failed" ELSE IF follows[c] = NoKey THEN "up" ELSE "fetch")
    /\ endpoints' = [endpoints EXCEPT ![c] = IF UriParses(uri) THEN UriEndpoints(uri) ELSE <<>>]
    /\ UNCHANGED <<follows, uri, issued, cache, doc>>

\* The web server, or whoever answers for it, returns a document signed at any
\* time: load compares neither `updated` nor a date.
Fetch(c, d) ==
    /\ step[c] = "fetch"
    /\ Accepts(d, follows[c])
    /\ doc' = [doc EXCEPT ![c] = d]
    /\ Goes(c, "open")
    /\ UNCHANGED <<follows, uri, issued, cache, endpoints>>

\* Nothing comes within FETCH_TIMEOUT, or nothing acceptable.
FetchFails(c) ==
    /\ step[c] = "fetch"
    /\ Goes(c, "fallback")
    /\ UNCHANGED <<follows, uri, issued, cache, doc, endpoints>>

\* write_cache opens and truncates the file, if it can.
OpenCache(c) ==
    /\ step[c] = "open"
    /\ \/ cache' = Torn /\ Goes(c, "write")
       \/ UNCHANGED cache /\ Goes(c, "apply")
    /\ UNCHANGED <<follows, uri, issued, doc, endpoints>>

\* Over what another client has written since, a shorter document leaves a tail.
WriteCache(c) ==
    /\ step[c] = "write"
    /\ \/ cache' = doc[c]
       \/ cache \notin {Torn, doc[c]} /\ cache' = Torn
    /\ Goes(c, "apply")
    /\ UNCHANGED <<follows, uri, issued, doc, endpoints>>

ReadCache(c) ==
    /\ step[c] = "fallback"
    /\ IF Accepts(cache, follows[c])
       THEN doc' = [doc EXCEPT ![c] = cache] /\ Goes(c, "apply")
       ELSE Goes(c, "failed") /\ UNCHANGED doc
    /\ UNCHANGED <<follows, uri, issued, cache, endpoints>>

\* An XBug is X with a slip: here, the entries of another transport are kept.
ApplyBug(c) ==
    /\ step[c] = "apply"
    /\ endpoints' = [endpoints EXCEPT ![c] = [i \in 1..Len(doc[c].servers) |-> doc[c].servers[i].host]]
    /\ Goes(c, "up")
    /\ UNCHANGED <<follows, uri, issued, cache, doc>>

\* apply_pool replaces the URI's endpoints, or refuses an empty list.
Apply(c) ==
    /\ step[c] = "apply"
    /\ LET es == ForTransport(doc[c], uri.transport) IN
       /\ endpoints' = [endpoints EXCEPT ![c] = IF es = <<>> THEN @ ELSE es]
       /\ Goes(c, IF es = <<>> THEN "failed" ELSE "up")
    /\ UNCHANGED <<follows, uri, issued, cache, doc>>

\* The process is killed, the write fails, or the user starts it again.
Restart(c) ==
    /\ step[c] # "parse"
    /\ Goes(c, "parse")
    /\ doc' = [doc EXCEPT ![c] = NoDoc]
    /\ endpoints' = [endpoints EXCEPT ![c] = <<>>]
    /\ UNCHANGED <<follows, uri, issued, cache>>

RegistryNext ==
    \/ \E k \in Keys, s \in ServerLists : Issue(k, s)
    \/ \E c \in Clients :
          \/ Parse(c) \/ FetchFails(c) \/ OpenCache(c) \/ WriteCache(c) \/ ReadCache(c)
          \/ Apply(c) \/ Restart(c)
          \/ \E d \in issued : Fetch(c, d)

-----------------------------------------------------------------------------
(* Properties *)

(* A client without a registry dials what its URI lists, all of it, each   *)
(* endpoint once and the primary first, and under RLPx only one; a client  *)
(* of a registry what the owner of its key has signed for its transport:   *)
(* whichever clients share the cache, whatever registries they follow, and *)
(* whoever was killed while writing it.                                    *)
EndpointsAreVouchedFor ==
    \A c \in Clients : step[c] = "up" =>
        IF follows[c] = NoKey
        THEN /\ ToSet(endpoints[c]) = ToSet(uri.hosts) \cup ToSet(uri.backups)
             /\ \A i, j \in 1..Len(endpoints[c]) : endpoints[c][i] = endpoints[c][j] => i = j
             /\ endpoints[c] # <<>> /\ endpoints[c][1] = uri.hosts[1]
             /\ uri.transport = "rlpx" => uri.nodekey /\ Len(endpoints[c]) = 1
        ELSE \E d \in issued :
                /\ d.signer = follows[c]
                /\ endpoints[c] # <<>>
                /\ \A i \in 1..Len(endpoints[c]) :
                      [host |-> endpoints[c][i], transport |-> uri.transport] \in ToSet(d.servers)
=============================================================================
