----------------------------- MODULE HostProofs -----------------------------
(***************************************************************************)
(* What the programs of a host leave on it, for any number of terminals,   *)
(* users, clients, registries, gateways and resolvers. The configuration   *)
(* of a server: what a command that was alone has added stays, what the    *)
(* operator has removed stays away, no signal is lost and no reload drops  *)
(* anybody, whatever other commands overlap, fail or are killed. The       *)
(* registry of endpoints: a client dials only what it may. The routes of   *)
(* a tunnel: they never form a loop, and they go as they came.             *)
(***************************************************************************)
EXTENDS Host, SequenceLemmas

Committed == {"save", "write"}

\* The file, the commands' copies and the server's configuration.
ConfigTypeOK ==
    /\ file \in (SUBSET Users) \cup {Absent, Garbled}
    /\ admin \in [Admins -> {"idle", "save", "write", "print"}]
    /\ user \in [Admins -> Users]
    /\ copy \in [Admins -> SUBSET Users]
    /\ alone \in [Admins -> BOOLEAN]
    /\ used \in SUBSET Users /\ kept \in SUBSET Users /\ revoked \in SUBSET Users
    /\ server \in {"down", "started", "up"}
    /\ config \in SUBSET Users /\ text \in SUBSET Users
    /\ signalled \in BOOLEAN /\ changed \in BOOLEAN
    /\ loading \in {"no", "read", "send"}

\* UUIDs are made once, so that a new one is nowhere yet.
UsedInv ==
    /\ Loads(file) => file \subseteq used
    /\ config \subseteq used /\ text \subseteq used /\ revoked \subseteq used
    /\ \A a \in Busy : copy[a] \subseteq used

\* A command that is alone is the only one, and its write is the last.
AloneInv ==
    \A a \in Busy :
        /\ user[a] \in copy[a]
        /\ alone[a] => Busy = {a}
        /\ alone[a] /\ admin[a] = "print" => file \in {copy[a], Garbled}

\* What is to be kept is in every copy that may still be written.
KeptInv ==
    /\ SerialEditsAreKept
    /\ file = Absent => kept = {}
    /\ \A a \in Busy : kept \subseteq copy[a] /\ copy[a] \cap revoked = {}

\* The server is up to date, or about to be.
FreshInv ==
    /\ server # "up" => loading = "no"
    /\ (server # "down" /\ ~changed /\ Loads(file)) =>
          \/ signalled
          \/ loading = "read"
          \/ loading = "send" /\ text = file
          \/ loading = "no" /\ config = file

\* The user of a command that has not written yet is nowhere but in its copy.
FirstInv ==
    \A a \in Busy : admin[a] \in Committed =>
        /\ Loads(file) => user[a] \notin file
        /\ user[a] \notin config /\ user[a] \notin text
        /\ \A b \in Busy \ {a} : user[a] \notin copy[b]

\* What the server has read has everybody it serves and must keep.
ReadInv ==
    loading = "send" =>
        /\ config \cap kept \subseteq text
        /\ \A a \in Busy : alone[a] /\ user[a] \in config => user[a] \in text

ConfigInv == ConfigTypeOK /\ UsedInv /\ AloneInv /\ KeptInv /\ FreshInv /\ FirstInv /\ ReadInv

\* The absent and the garbled file are no sets of users.
LEMMA NoFile ==
    /\ Absent # Garbled /\ ~Loads(Absent) /\ ~Loads(Garbled)
    /\ \A s \in SUBSET Users : Loads(s)
BY ConfigAssumption DEF Loads, Absent, Garbled

LEMMA InitConfig == ConfigInit => ConfigInv
<1> SUFFICES ASSUME ConfigInit PROVE ConfigInv
  OBVIOUS
<1>1. ConfigTypeOK
  BY ConfigAssumption DEF ConfigTypeOK, ConfigInit
<1>2. UsedInv
  BY NoFile DEF UsedInv, Busy, ConfigInit
<1>3. AloneInv
  BY DEF AloneInv, Busy, ConfigInit
<1>4. KeptInv
  BY DEF KeptInv, SerialEditsAreKept, ConfigInit
<1>5. FreshInv
  BY DEF FreshInv, ConfigInit
<1>6. FirstInv
  BY DEF FirstInv, Busy, ConfigInit
<1>7. ReadInv
  BY DEF ReadInv, ConfigInit
<1> QED BY <1>1, <1>2, <1>3, <1>4, <1>5, <1>6, <1>7 DEF ConfigInv

LEMMA RunInitStep == ASSUME ConfigInv, NEW a \in Admins, NEW u \in Users, RunInit(a, u) PROVE ConfigInv'
<1>1. ConfigTypeOK'
  BY DEF ConfigInv, ConfigTypeOK, process, Begin, RunInit
<1>2. UsedInv'
  BY DEF ConfigInv, ConfigTypeOK, UsedInv, Busy, process, Begin, RunInit
<1>3. AloneInv'
  BY DEF ConfigInv, ConfigTypeOK, AloneInv, Busy, Begin, RunInit
<1>4. KeptInv'
  BY DEF ConfigInv, ConfigTypeOK, UsedInv, KeptInv, SerialEditsAreKept, Busy, Begin, RunInit
<1>5. FreshInv'
  BY DEF ConfigInv, FreshInv, process, Begin, RunInit
<1>6. FirstInv'
  BY DEF ConfigInv, ConfigTypeOK, UsedInv, AloneInv, FirstInv, Busy, process, Begin, RunInit
<1>7. ReadInv'
  BY DEF ConfigInv, ConfigTypeOK, UsedInv, ReadInv, Busy, process, Begin, RunInit
<1> QED BY <1>1, <1>2, <1>3, <1>4, <1>5, <1>6, <1>7 DEF ConfigInv

LEMMA RunAddUserStep == ASSUME ConfigInv, NEW a \in Admins, NEW u \in Users, RunAddUser(a, u) PROVE ConfigInv'
<1>1. ConfigTypeOK'
  BY DEF ConfigInv, ConfigTypeOK, UsedInv, process, Begin, RunAddUser
<1>2. UsedInv'
  BY DEF ConfigInv, ConfigTypeOK, UsedInv, Busy, process, Begin, RunAddUser
<1>3. AloneInv'
  BY DEF ConfigInv, ConfigTypeOK, AloneInv, Busy, Begin, RunAddUser
<1>4. KeptInv'
  BY DEF ConfigInv, ConfigTypeOK, UsedInv, KeptInv, SerialEditsAreKept, Busy, Begin,
     RunAddUser
<1>5. FreshInv'
  BY DEF ConfigInv, FreshInv, process, Begin, RunAddUser
<1>6. FirstInv'
  BY DEF ConfigInv, ConfigTypeOK, UsedInv, AloneInv, FirstInv, Busy, process, Begin,
     RunAddUser
<1>7. ReadInv'
  BY DEF ConfigInv, ConfigTypeOK, UsedInv, ReadInv, Busy, process, Begin, RunAddUser
<1> QED BY <1>1, <1>2, <1>3, <1>4, <1>5, <1>6, <1>7 DEF ConfigInv

LEMMA TruncateStep == ASSUME ConfigInv, NEW a \in Admins, Truncate(a) PROVE ConfigInv'
<1>1. ConfigTypeOK'
  BY DEF ConfigInv, ConfigTypeOK, process, Truncate
<1>2. UsedInv'
  BY NoFile DEF ConfigInv, UsedInv, Busy, process, Truncate
<1>3. AloneInv'
  BY DEF ConfigInv, AloneInv, Busy, Truncate
<1>4. KeptInv'
  BY NoFile DEF ConfigInv, KeptInv, SerialEditsAreKept, Busy, Truncate
<1>5. FreshInv'
  BY DEF ConfigInv, FreshInv, process, Truncate
<1>6. FirstInv'
  BY NoFile DEF ConfigInv, FirstInv, Busy, Committed, process, Truncate
<1>7. ReadInv'
  BY DEF ConfigInv, ReadInv, Busy, process, Truncate
<1> QED BY <1>1, <1>2, <1>3, <1>4, <1>5, <1>6, <1>7 DEF ConfigInv

LEMMA WriteStep == ASSUME ConfigInv, NEW a \in Admins, Write(a) PROVE ConfigInv'
<1>1. ConfigTypeOK'
  BY DEF ConfigInv, ConfigTypeOK, process, Write
<1>2. UsedInv'
  BY NoFile DEF ConfigInv, UsedInv, Busy, process, Write
<1>3. AloneInv'
  BY DEF ConfigInv, AloneInv, Busy, Write
<1>4. KeptInv'
  BY NoFile DEF ConfigInv, ConfigTypeOK, KeptInv, SerialEditsAreKept, Busy, Write
<1>5. FreshInv'
  BY DEF ConfigInv, FreshInv, process, Write
<1>6. FirstInv'
  BY NoFile DEF ConfigInv, ConfigTypeOK, FirstInv, Busy, Committed, process, Write
<1>7. ReadInv'
  BY DEF ConfigInv, ReadInv, Busy, process, Write
<1> QED BY <1>1, <1>2, <1>3, <1>4, <1>5, <1>6, <1>7 DEF ConfigInv

LEMMA WriteFailsStep == ASSUME ConfigInv, NEW a \in Admins, WriteFails(a) PROVE ConfigInv'
<1>1. ConfigTypeOK'
  BY DEF ConfigInv, ConfigTypeOK, process, WriteFails
<1>2. UsedInv'
  BY DEF ConfigInv, UsedInv, Busy, process, WriteFails
<1>3. AloneInv'
  BY DEF ConfigInv, AloneInv, Busy, WriteFails
<1>4. KeptInv'
  BY DEF ConfigInv, KeptInv, SerialEditsAreKept, Busy, WriteFails
<1>5. FreshInv'
  BY DEF ConfigInv, FreshInv, process, WriteFails
<1>6. FirstInv'
  BY DEF ConfigInv, FirstInv, Busy, process, WriteFails
<1>7. ReadInv'
  BY DEF ConfigInv, ReadInv, Busy, process, WriteFails
<1> QED BY <1>1, <1>2, <1>3, <1>4, <1>5, <1>6, <1>7 DEF ConfigInv

LEMMA AnnounceStep == ASSUME ConfigInv, NEW a \in Admins, Announce(a) PROVE ConfigInv'
<1>1. ConfigTypeOK'
  BY DEF ConfigInv, ConfigTypeOK, process, Announce
<1>2. UsedInv'
  BY DEF ConfigInv, UsedInv, Busy, process, Announce
<1>3. AloneInv'
  BY DEF ConfigInv, AloneInv, Busy, Announce
<1>4. KeptInv'
  BY NoFile DEF ConfigInv, ConfigTypeOK, AloneInv, KeptInv, SerialEditsAreKept, Busy,
     Announce
<1>5. FreshInv'
  BY DEF ConfigInv, FreshInv, process, Announce
<1>6. FirstInv'
  BY DEF ConfigInv, FirstInv, Busy, process, Announce
<1>7. ReadInv'
  BY DEF ConfigInv, ReadInv, Busy, process, Announce
<1> QED BY <1>1, <1>2, <1>3, <1>4, <1>5, <1>6, <1>7 DEF ConfigInv

LEMMA RevokeStep == ASSUME ConfigInv, NEW u \in Users, Revoke(u) PROVE ConfigInv'
<1>1. ConfigTypeOK'
  BY DEF ConfigInv, ConfigTypeOK, UsedInv, process, Revoke
<1>2. UsedInv'
  BY DEF ConfigInv, UsedInv, Busy, process, Revoke
<1>3. AloneInv'
  BY DEF ConfigInv, AloneInv, Busy, Revoke
<1>4. KeptInv'
  BY NoFile DEF ConfigInv, ConfigTypeOK, KeptInv, SerialEditsAreKept, Busy, Revoke
<1>5. FreshInv'
  BY DEF ConfigInv, FreshInv, process, Revoke
<1>6. FirstInv'
  BY DEF ConfigInv, FirstInv, Busy, process, Revoke
<1>7. ReadInv'
  BY DEF ConfigInv, ReadInv, Busy, process, Revoke
<1> QED BY <1>1, <1>2, <1>3, <1>4, <1>5, <1>6, <1>7 DEF ConfigInv

LEMMA DeleteStep == ASSUME ConfigInv, Delete PROVE ConfigInv'
<1>1. ConfigTypeOK'
  BY DEF ConfigInv, ConfigTypeOK, process, Delete
<1>2. UsedInv'
  BY NoFile DEF ConfigInv, UsedInv, Busy, process, Delete
<1>3. AloneInv'
  BY DEF ConfigInv, AloneInv, Busy, Delete
<1>4. KeptInv'
  BY DEF KeptInv, SerialEditsAreKept, Delete
<1>5. FreshInv'
  BY DEF ConfigInv, FreshInv, process, Delete
<1>6. FirstInv'
  BY NoFile DEF ConfigInv, FirstInv, Busy, process, Delete
<1>7. ReadInv'
  BY DEF ReadInv, Busy, Delete
<1> QED BY <1>1, <1>2, <1>3, <1>4, <1>5, <1>6, <1>7 DEF ConfigInv

LEMMA StartStep == ASSUME ConfigInv, Start PROVE ConfigInv'
<1>1. ConfigTypeOK'
  BY DEF ConfigInv, ConfigTypeOK, UsedInv, commands, Start
<1>2. UsedInv'
  BY DEF ConfigInv, UsedInv, Busy, commands, Start
<1>3. AloneInv'
  BY DEF ConfigInv, AloneInv, Busy, commands, Start
<1>4. KeptInv'
  BY DEF ConfigInv, KeptInv, SerialEditsAreKept, Busy, commands, Start
<1>5. FreshInv'
  BY DEF ConfigInv, FreshInv, Start
<1>6. FirstInv'
  BY DEF ConfigInv, FirstInv, Busy, commands, Start
<1>7. ReadInv'
  BY DEF ConfigInv, FreshInv, ReadInv, Start
<1> QED BY <1>1, <1>2, <1>3, <1>4, <1>5, <1>6, <1>7 DEF ConfigInv

LEMMA HandlerSetStep == ASSUME ConfigInv, HandlerSet PROVE ConfigInv'
<1>1. ConfigTypeOK'
  BY DEF ConfigInv, ConfigTypeOK, commands, HandlerSet
<1>2. UsedInv'
  BY DEF ConfigInv, UsedInv, Busy, commands, HandlerSet
<1>3. AloneInv'
  BY DEF ConfigInv, AloneInv, Busy, commands, HandlerSet
<1>4. KeptInv'
  BY DEF ConfigInv, KeptInv, SerialEditsAreKept, Busy, commands, HandlerSet
<1>5. FreshInv'
  BY DEF ConfigInv, FreshInv, HandlerSet
<1>6. FirstInv'
  BY DEF ConfigInv, FirstInv, Busy, commands, HandlerSet
<1>7. ReadInv'
  BY DEF ConfigInv, FreshInv, ReadInv, HandlerSet
<1> QED BY <1>1, <1>2, <1>3, <1>4, <1>5, <1>6, <1>7 DEF ConfigInv

LEMMA HangupStep == ASSUME ConfigInv, Hangup PROVE ConfigInv'
<1>1. ConfigTypeOK'
  BY DEF ConfigInv, ConfigTypeOK, commands, Hangup
<1>2. UsedInv'
  BY DEF ConfigInv, UsedInv, Busy, commands, Hangup
<1>3. AloneInv'
  BY DEF ConfigInv, AloneInv, Busy, commands, Hangup
<1>4. KeptInv'
  BY DEF ConfigInv, KeptInv, SerialEditsAreKept, Busy, commands, Hangup
<1>5. FreshInv'
  BY DEF ConfigInv, FreshInv, Hangup
<1>6. FirstInv'
  BY DEF ConfigInv, FirstInv, Busy, commands, Hangup
<1>7. ReadInv'
  BY DEF ConfigInv, ReadInv, Busy, commands, Hangup
<1> QED BY <1>1, <1>2, <1>3, <1>4, <1>5, <1>6, <1>7 DEF ConfigInv

LEMMA ReceiveStep == ASSUME ConfigInv, Receive PROVE ConfigInv'
<1>1. ConfigTypeOK'
  BY DEF ConfigInv, ConfigTypeOK, commands, Receive
<1>2. UsedInv'
  BY DEF ConfigInv, UsedInv, Busy, commands, Receive
<1>3. AloneInv'
  BY DEF ConfigInv, AloneInv, Busy, commands, Receive
<1>4. KeptInv'
  BY DEF ConfigInv, KeptInv, SerialEditsAreKept, Busy, commands, Receive
<1>5. FreshInv'
  BY DEF FreshInv, Receive
<1>6. FirstInv'
  BY DEF ConfigInv, FirstInv, Busy, commands, Receive
<1>7. ReadInv'
  BY DEF ReadInv, Receive
<1> QED BY <1>1, <1>2, <1>3, <1>4, <1>5, <1>6, <1>7 DEF ConfigInv

LEMMA ReadConfigStep == ASSUME ConfigInv, ReadConfig PROVE ConfigInv'
<1>1. ConfigTypeOK'
  BY DEF ConfigInv, ConfigTypeOK, UsedInv, commands, ReadConfig
<1>2. UsedInv'
  BY DEF ConfigInv, UsedInv, Busy, commands, ReadConfig
<1>3. AloneInv'
  BY DEF ConfigInv, AloneInv, Busy, commands, ReadConfig
<1>4. KeptInv'
  BY DEF ConfigInv, KeptInv, SerialEditsAreKept, Busy, commands, ReadConfig
<1>5. FreshInv'
  BY DEF ConfigInv, FreshInv, ReadConfig
<1>6. FirstInv'
  BY DEF ConfigInv, FirstInv, Busy, commands, ReadConfig
<1>7. ReadInv'
  BY NoFile DEF ConfigInv, ConfigTypeOK, AloneInv, KeptInv, FirstInv, ReadInv,
     SerialEditsAreKept, Busy, Committed, commands, ReadConfig
<1> QED BY <1>1, <1>2, <1>3, <1>4, <1>5, <1>6, <1>7 DEF ConfigInv

LEMMA SendConfigStep == ASSUME ConfigInv, SendConfig PROVE ConfigInv'
<1>1. ConfigTypeOK'
  BY DEF ConfigInv, ConfigTypeOK, commands, SendConfig
<1>2. UsedInv'
  BY DEF ConfigInv, UsedInv, Busy, commands, SendConfig
<1>3. AloneInv'
  BY DEF ConfigInv, AloneInv, Busy, commands, SendConfig
<1>4. KeptInv'
  BY DEF ConfigInv, KeptInv, SerialEditsAreKept, Busy, commands, SendConfig
<1>5. FreshInv'
  BY DEF ConfigInv, FreshInv, SendConfig
<1>6. FirstInv'
  BY DEF ConfigInv, FirstInv, Busy, commands, SendConfig
<1>7. ReadInv'
  BY DEF ReadInv, SendConfig
<1> QED BY <1>1, <1>2, <1>3, <1>4, <1>5, <1>6, <1>7 DEF ConfigInv

LEMMA CrashStep == ASSUME ConfigInv, Crash PROVE ConfigInv'
<1>1. ConfigTypeOK'
  BY DEF ConfigInv, ConfigTypeOK, commands, Crash
<1>2. UsedInv'
  BY DEF ConfigInv, UsedInv, Busy, commands, Crash
<1>3. AloneInv'
  BY DEF ConfigInv, AloneInv, Busy, commands, Crash
<1>4. KeptInv'
  BY DEF ConfigInv, KeptInv, SerialEditsAreKept, Busy, commands, Crash
<1>5. FreshInv'
  BY DEF FreshInv, Crash
<1>6. FirstInv'
  BY DEF ConfigInv, FirstInv, Busy, commands, Crash
<1>7. ReadInv'
  BY DEF ReadInv, Crash
<1> QED BY <1>1, <1>2, <1>3, <1>4, <1>5, <1>6, <1>7 DEF ConfigInv

\* Nothing of the configuration changes while another program runs.
LEMMA StutterStep == ASSUME ConfigInv, UNCHANGED configVars PROVE ConfigInv'
  BY DEF ConfigInv, configVars, ConfigTypeOK, UsedInv, AloneInv, KeptInv, FreshInv,
     FirstInv, ReadInv, SerialEditsAreKept, Busy, commands, process

LEMMA NextConfig == ASSUME ConfigInv, [Next]_vars PROVE ConfigInv'
<1>1. CASE UNCHANGED configVars
  BY <1>1, StutterStep
<1>2. CASE ConfigNext
  <2>1. ASSUME NEW a \in Admins,
               \/ \E u \in Users : RunInit(a, u) \/ RunAddUser(a, u)
               \/ Truncate(a) \/ Write(a) \/ WriteFails(a) \/ Announce(a)
        PROVE  ConfigInv'
    BY <2>1, RunInitStep, RunAddUserStep, TruncateStep, WriteStep, WriteFailsStep,
       AnnounceStep
  <2>2. ASSUME \E u \in Users : Revoke(u) PROVE ConfigInv'
    BY <2>2, RevokeStep
  <2>3. ASSUME Delete \/ Start \/ HandlerSet \/ Hangup \/ Receive \/ ReadConfig \/ SendConfig \/ Crash
        PROVE  ConfigInv'
    BY <2>3, DeleteStep, StartStep, HandlerSetStep, HangupStep, ReceiveStep, ReadConfigStep,
       SendConfigStep, CrashStep
  <2> QED
    BY <1>2, <2>1, <2>2, <2>3 DEF ConfigNext
<1>3. ConfigNext \/ UNCHANGED configVars
  BY DEF Next, TunRuns, ClientsRun, ServerRuns, vars
<1> QED BY <1>1, <1>2, <1>3

LEMMA ConfigInvariant == Spec => []ConfigInv
<1>1. Init => ConfigInv
  BY InitConfig DEF Init
<1>2. ConfigInv /\ [Next]_vars => ConfigInv'
  BY NextConfig
<1> QED BY <1>1, <1>2, PTL DEF Spec

(* What a command that was alone has added, and what the operator has      *)
(* removed while none was running, is in the file as they left it.         *)
THEOREM EditsAreKept == Spec => []SerialEditsAreKept
<1>1. ConfigInv => SerialEditsAreKept
  BY DEF ConfigInv, KeptInv
<1> QED BY <1>1, ConfigInvariant, PTL

(* When the last signal, sent after the last change of the file, has been  *)
(* answered, the server runs with what the file says.                      *)
THEOREM LastReloadCounts == Spec => []ReloadIsNotLost
<1>1. ConfigInv => ReloadIsNotLost
  BY DEF ConfigInv, FreshInv, ReloadIsNotLost
<1> QED BY <1>1, ConfigInvariant, PTL

(* No reload costs a user whom nobody removed.                             *)
THEOREM ReloadsDropNobody == Spec => ReloadDropsNobody
<1>1. ASSUME ConfigInv, [Next]_vars
      PROVE  [server = "up" => (config \cap kept \cap kept') \subseteq config']_configVars
  <2>1. CASE SendConfig
    BY <1>1, <2>1 DEF ConfigInv, ReadInv, SendConfig
  <2>2. CASE Start
    BY <2>2 DEF Start
  <2>3. CASE config' = config
    BY <2>3
  <2>4. SendConfig \/ Start \/ config' = config
    BY <1>1 DEF Next, TunRuns, ClientsRun, ServerRuns, vars, configVars, process,
       ConfigNext, RunInit, RunAddUser, Begin, Truncate, Write, WriteFails, Announce,
       Revoke, Delete, HandlerSet, Hangup, Receive, ReadConfig, Crash
  <2> QED BY <2>1, <2>2, <2>3, <2>4
<1> QED BY <1>1, ConfigInvariant, PTL DEF Spec, ReloadDropsNobody

-----------------------------------------------------------------------------
(* The endpoints of a client                                               *)

Starting == {"parse", "fetch", "open", "write", "apply", "fallback", "failed", "up"}

RegistryTypeOK ==
    /\ follows \in [Clients -> Keys \cup {NoKey}]
    /\ uri \in [hosts : HostLists, backups : Backups, transport : Transports, nodekey : BOOLEAN]
    /\ \A d \in issued : d.servers \in ServerLists
    /\ cache \in issued \cup {NoDoc, Torn}
    /\ step \in [Clients -> Starting]
    /\ DOMAIN doc = Clients /\ DOMAIN endpoints = Clients

\* A document in hand is one that was signed by whom the client follows.
Holds(c) == step[c] \in {"open", "write", "apply"} => doc[c] \in issued /\ Accepts(doc[c], follows[c])

\* Only a client with a registry asks for it.
Asks(c) == step[c] \in {"fetch", "open", "write", "apply", "fallback"} => follows[c] # NoKey

OfUri(es) ==
    /\ ToSet(es) = ToSet(uri.hosts) \cup ToSet(uri.backups)
    /\ \A i, j \in 1..Len(es) : es[i] = es[j] => i = j
    /\ es # <<>> /\ es[1] = uri.hosts[1]
    /\ uri.transport = "rlpx" => uri.nodekey /\ Len(es) = 1

OfRegistry(es, key) ==
    \E d \in issued :
        /\ d.signer = key
        /\ es # <<>>
        /\ \A i \in 1..Len(es) : [host |-> es[i], transport |-> uri.transport] \in ToSet(d.servers)

Vouched(c) ==
    step[c] = "up" =>
        IF follows[c] = NoKey THEN OfUri(endpoints[c]) ELSE OfRegistry(endpoints[c], follows[c])

RegistryInv == RegistryTypeOK /\ \A c \in Clients : Holds(c) /\ Asks(c) /\ Vouched(c)

\* What is left of a URI's hosts when repetitions are dropped.
LEMMA DedupedHosts ==
    ASSUME NEW hosts \in Seq(Hosts), hosts # <<>>
    PROVE  /\ Deduped(hosts) # <<>> /\ Deduped(hosts)[1] = hosts[1]
           /\ \A i, j \in 1..Len(Deduped(hosts)) : Deduped(hosts)[i] = Deduped(hosts)[j] => i = j
           /\ ToSet(Deduped(hosts)) = ToSet(hosts)
<1> DEFINE I == {i \in 1..Len(hosts) : \A j \in 1..(i - 1) : hosts[j] # hosts[i]}
           es == Kept(hosts, I)
<1>1. Len(hosts) \in Nat /\ Len(hosts) > 0 /\ I \in SUBSET (1..Len(hosts))
  BY EmptySeq, LenProperties
<1>2. 1 \in I
  <2>1. 1..(1 - 1) = {} /\ 1 \in 1..Len(hosts)
    BY <1>1
  <2> QED BY <2>1
<1>3. es \in Seq(Hosts) /\ Len(es) = Cardinality(I) /\ Cardinality(I) \in Nat
      /\ \A k \in 1..Cardinality(I) : es[k] = hosts[NthOf(I, k)]
  BY <1>1, KeptElements
<1>4. /\ \A k, l \in 1..Cardinality(I) : k < l => NthOf(I, k) < NthOf(I, l)
      /\ \A k \in 1..Cardinality(I) : NthOf(I, k) \in I
      /\ \E k \in 1..Cardinality(I) : NthOf(I, k) = 1
  BY <1>1, <1>2, NthPlaces
<1>5. ASSUME NEW k \in 1..Cardinality(I), NEW l \in 1..Cardinality(I), k < l
      PROVE  es[k] # es[l]
  <2>1. PICK a \in I, b \in I : a = NthOf(I, k) /\ b = NthOf(I, l) /\ a < b
    BY <1>4, <1>5
  <2>2. a \in 1..(b - 1)
    <3>1. a \in 1..Len(hosts) /\ b \in 1..Len(hosts)
      OBVIOUS
    <3> QED BY <2>1, <3>1
  <2>3. hosts[a] # hosts[b]
    BY <2>2
  <2> HIDE DEF es
  <2> QED BY <1>3, <2>1, <2>3
<1>6. Len(es) > 0 /\ \A i, j \in 1..Len(es) : es[i] = es[j] => i = j
  <2>1. ASSUME NEW i \in 1..Len(es), NEW j \in 1..Len(es), es[i] = es[j]
        PROVE  i = j
    <3>1. i < j \/ j < i \/ i = j
      BY <1>3
    <3> HIDE DEF es
    <3> QED BY <1>3, <1>5, <2>1, <3>1
  <2>2. Len(es) > 0
    BY <1>3, <1>4
  <2> QED BY <2>1, <2>2
<1>7. Deduped(hosts) = es
  BY DEF Deduped
<1> HIDE DEF es, I
<1>8. es # <<>>
  <2>1. Len(<<>>) = 0 /\ ~(0 > 0)
    BY EmptySeq
  <2> QED BY <1>6, <2>1
<1>9. \A i \in 1..Len(hosts) : \E j \in I : hosts[j] = hosts[i]
  <2> TAKE i \in 1..Len(hosts)
  <2>1. PICK T : T = {j \in 1..Len(hosts) : hosts[j] = hosts[i]}
    OBVIOUS
  <2>2. T \in SUBSET Nat /\ i \in T
    BY <1>1, <2>1
  <2>3. PICK j \in T : \A m \in T : j <= m
    BY <2>2, LeastElement
  <2>4. j \in 1..Len(hosts) /\ hosts[j] = hosts[i]
    BY <2>1
  <2>5. ASSUME NEW m \in 1..(j - 1), hosts[m] = hosts[j]
        PROVE  FALSE
    <3>1. m \in 1..Len(hosts) /\ m < j
      BY <1>1, <2>4
    <3>2. m \in T
      BY <2>1, <2>4, <2>5, <3>1
    <3> QED BY <1>1, <2>3, <2>4, <3>1, <3>2
  <2> QED BY <2>4, <2>5 DEF I
<1>10. ToSet(es) = ToSet(hosts)
  <2>1. \A i \in 1..Len(hosts) : \E k \in 1..Len(es) : es[k] = hosts[i]
    <3> TAKE i \in 1..Len(hosts)
    <3>1. PICK j \in I : hosts[j] = hosts[i]
      BY <1>9
    <3>2. PICK k \in 1..Cardinality(I) : NthOf(I, k) = j
      BY <1>1, NthPlaces
    <3> QED BY <1>3, <3>1, <3>2
  <2>2. \A k \in 1..Len(es) : \E i \in 1..Len(hosts) : es[k] = hosts[i]
    BY <1>1, <1>3, <1>4
  <2>3. DOMAIN es = 1..Len(es) /\ DOMAIN hosts = 1..Len(hosts)
    BY <1>3, LenProperties
  <2> QED BY <2>1, <2>2, <2>3 DEF ToSet
<1>11. es[1] = hosts[1]
  <2>1. PICK k \in 1..Cardinality(I) : NthOf(I, k) = 1
    BY <1>4
  <2>2. 1 \in 1..Cardinality(I) /\ NthOf(I, 1) \in 1..Len(hosts)
    <3>1. 1 \in 1..Cardinality(I)
      BY <1>3, <2>1
    <3>2. NthOf(I, 1) \in I
      BY <1>4, <3>1
    <3>3. I \subseteq 1..Len(hosts)
      BY <1>1
    <3> HIDE DEF I
    <3> QED BY <3>1, <3>2, <3>3
  <2>3. ~(1 < k)
    BY <1>1, <1>3, <1>4, <2>1, <2>2
  <2>4. k = 1
    BY <1>3, <2>1, <2>3
  <2>5. es[k] = hosts[NthOf(I, k)]
    BY <1>3
  <2> HIDE DEF es, I
  <2> QED BY <2>1, <2>4, <2>5
<1>12. PICK t : t = es
  OBVIOUS
<1>13. /\ t # <<>> /\ t[1] = hosts[1] /\ ToSet(t) = ToSet(hosts)
       /\ \A i, j \in 1..Len(t) : t[i] = t[j] => i = j
  BY <1>6, <1>8, <1>10, <1>11, <1>12
<1> QED BY <1>7, <1>12, <1>13

\* What a URI that parses makes of its hosts.
LEMMA ParsedHosts ==
    ASSUME RegistryTypeOK, UriParses(uri)
    PROVE  OfUri(UriEndpoints(uri))
<1>1. uri.hosts \in Seq(Hosts) /\ uri.hosts # <<>> /\ uri.backups \in Seq(Hosts)
  <2>1. uri.hosts \in HostLists /\ uri.backups \in Backups
    BY DEF RegistryTypeOK
  <2> QED BY <2>1, RegistryAssumption
<1>2. PICK hosts \in Seq(Hosts) : /\ hosts = uri.hosts \o uri.backups /\ hosts # <<>>
                                 /\ hosts[1] = uri.hosts[1]
                                 /\ ToSet(hosts) = ToSet(uri.hosts) \cup ToSet(uri.backups)
  <2>1. PICK p \in Seq(Hosts), q \in Seq(Hosts) : p = uri.hosts /\ q = uri.backups /\ p # <<>>
    BY <1>1
  <2>2. PICK m, n : m = Len(p) /\ n = Len(q)
    OBVIOUS
  <2>3. /\ m \in Nat /\ n \in Nat /\ m # 0
        /\ DOMAIN p = 1..m /\ DOMAIN q = 1..n
    BY <2>1, <2>2, EmptySeq, LenProperties
  <2>4. PICK t \in Seq(Hosts) : t = p \o q
    BY ConcatProperties
  <2>5. /\ Len(t) = m + n /\ \A i \in 1..m : t[i] = p[i]
        /\ \A i \in 1..n : t[m + i] = q[i]
    <3>1. /\ Len(t) = m + n
          /\ \A i \in 1..(m + n) : t[i] = IF i <= m THEN p[i] ELSE q[i - m]
      BY <2>2, <2>4, ConcatProperties
    <3>2. \A i \in 1..m : i \in 1..(m + n) /\ i <= m
      BY <2>3
    <3>3. \A i \in 1..n : m + i \in 1..(m + n) /\ ~(m + i <= m) /\ (m + i) - m = i
      BY <2>3
    <3> QED BY <3>1, <3>2, <3>3
  <2>6. DOMAIN t = 1..(m + n)
    BY <2>4, <2>5, LenProperties
  <2>7. \A i \in 1..(m + n) : i \in 1..m \/ (i - m \in 1..n /\ i = m + (i - m))
    BY <2>3
  <2>8. ToSet(t) = ToSet(p) \cup ToSet(q)
    <3>1. ASSUME NEW i \in 1..(m + n)
          PROVE  t[i] \in ToSet(p) \cup ToSet(q)
      BY <2>3, <2>5, <2>7 DEF ToSet
    <3>2. \A i \in 1..m : i \in 1..(m + n) /\ p[i] = t[i]
      BY <2>3, <2>5
    <3>3. \A i \in 1..n : m + i \in 1..(m + n) /\ q[i] = t[m + i]
      BY <2>3, <2>5
    <3>4. ToSet(t) = {t[i] : i \in 1..(m + n)}
      BY <2>6 DEF ToSet
    <3>5. ToSet(p) = {p[i] : i \in 1..m} /\ ToSet(q) = {q[i] : i \in 1..n}
      BY <2>3 DEF ToSet
    <3>6. ToSet(t) \subseteq ToSet(p) \cup ToSet(q)
      BY <3>1, <3>4
    <3>7. ToSet(p) \subseteq ToSet(t)
      BY <3>2, <3>4, <3>5
    <3>8. ToSet(q) \subseteq ToSet(t)
      BY <3>3, <3>4, <3>5
    <3> QED BY <3>6, <3>7, <3>8
  <2>9. t # <<>> /\ t[1] = p[1]
    <3>1. 1 \in 1..m /\ 1 \in 1..(m + n)
      BY <2>3
    <3>2. ASSUME t = <<>>
          PROVE  FALSE
      <4>1. Len(t) = 0
        BY <3>2, EmptySeq
      <4> QED BY <2>3, <2>5, <4>1
    <3> QED BY <2>5, <3>1, <3>2
  <2> QED BY <2>1, <2>4, <2>8, <2>9
<1>3. UriEndpoints(uri) = Deduped(hosts)
  BY <1>2 DEF UriEndpoints
<1>4. PICK es : es = Deduped(hosts)
  OBVIOUS
<1>5. /\ es # <<>> /\ es[1] = hosts[1] /\ ToSet(es) = ToSet(hosts)
      /\ \A i, j \in 1..Len(es) : es[i] = es[j] => i = j
  BY <1>2, <1>4, DedupedHosts, Zenon
<1>6. uri.transport = "rlpx" => uri.nodekey /\ Len(es) = 1
  BY <1>3, <1>4 DEF UriParses
<1> QED BY <1>2, <1>3, <1>4, <1>5, <1>6 DEF OfUri

\* The servers of a document that speak the client's transport.
LEMMA ChosenServers ==
    ASSUME NEW d, d.servers \in ServerLists, NEW transport
    PROVE  \A i \in 1..Len(ForTransport(d, transport)) :
              [host |-> ForTransport(d, transport)[i], transport |-> transport] \in ToSet(d.servers)
<1>1. PICK S : S = [host : Hosts, transport : Transports]
  OBVIOUS
<1>s. PICK s \in Seq(S) : s = d.servers
  BY <1>1, RegistryAssumption
<1> DEFINE I == {i \in 1..Len(s) : s[i].transport = transport}
           chosen == Kept(s, I)
<1>2. I \in SUBSET (1..Len(s))
  OBVIOUS
<1>3. chosen \in Seq(S) /\ Len(chosen) = Cardinality(I)
      /\ \A k \in 1..Cardinality(I) : NthOf(I, k) \in I /\ chosen[k] = s[NthOf(I, k)]
  <2>1. Len(s) \in Nat
    BY LenProperties
  <2> QED BY <1>2, <2>1, KeptElements, NthPlaces
<1>4. ForTransport(d, transport) = [i \in 1..Len(chosen) |-> chosen[i].host]
  BY <1>s DEF ForTransport
<1>5. ASSUME NEW i \in 1..Cardinality(I)
      PROVE  [host |-> chosen[i].host, transport |-> transport] \in ToSet(s)
  <2>1. PICK j \in I : chosen[i] = s[j]
    BY <1>3
  <2>2. s[j] \in S /\ s[j].transport = transport /\ j \in DOMAIN s
    BY ElementOfSeq, LenProperties
  <2>3. s[j] = [host |-> s[j].host, transport |-> transport]
    BY <1>1, <2>2
  <2>4. s[j] \in ToSet(s)
    BY <2>2 DEF ToSet
  <2> QED BY <2>1, <2>3, <2>4
<1> HIDE DEF chosen, I
<1>6. PICK n : n = Cardinality(I)
  OBVIOUS
<1>7. \A i \in 1..n : ForTransport(d, transport)[i] = chosen[i].host
  BY <1>3, <1>4, <1>6
<1>8. Len(ForTransport(d, transport)) = n
  BY <1>3, <1>4, <1>6
<1> QED BY <1>s, <1>5, <1>6, <1>7, <1>8

LEMMA InitRegistry == RegistryInit => RegistryInv
<1> SUFFICES ASSUME RegistryInit PROVE RegistryInv
  OBVIOUS
<1>1. RegistryTypeOK
  BY DEF RegistryInit, RegistryTypeOK, Starting
<1>2. \A c \in Clients : step[c] = "parse"
  BY DEF RegistryInit
<1> QED BY <1>1, <1>2 DEF RegistryInv, Holds, Asks, Vouched

\* A client that does not move, while documents are only added.
LEMMA Unmoved ==
    ASSUME NEW b, Holds(b), Asks(b), Vouched(b), follows' = follows, uri' = uri,
           issued \subseteq issued', step'[b] = step[b], doc'[b] = doc[b],
           endpoints'[b] = endpoints[b]
    PROVE  Holds(b)' /\ Asks(b)' /\ Vouched(b)'
<1>1. Holds(b)' /\ Asks(b)'
  BY DEF Holds, Asks
<1>2. OfUri(endpoints[b]) => OfUri(endpoints[b])'
  BY DEF OfUri
<1>3. OfRegistry(endpoints[b], follows[b]) => OfRegistry(endpoints[b], follows[b])'
  BY DEF OfRegistry
<1> QED BY <1>1, <1>2, <1>3 DEF Vouched

\* The parts of the state that every step but Issue leaves alone, and the
\* clients that do not take it.
Lone(c) ==
    /\ follows' = follows /\ uri' = uri /\ issued' = issued
    /\ \A b \in Clients \ {c} :
          step'[b] = step[b] /\ doc'[b] = doc[b] /\ endpoints'[b] = endpoints[b]

LEMMA LoneStep ==
    ASSUME RegistryInv, NEW c \in Clients, Lone(c), RegistryTypeOK',
           Holds(c)', Asks(c)', Vouched(c)'
    PROVE  RegistryInv'
<1>1. ASSUME NEW b \in Clients
      PROVE  Holds(b)' /\ Asks(b)' /\ Vouched(b)'
  <2>1. CASE b = c
    BY <2>1
  <2>2. CASE b # c
    BY <2>2, Unmoved DEF RegistryInv, Lone
  <2> QED BY <2>1, <2>2
<1> QED BY <1>1 DEF RegistryInv

LEMMA IssueStep ==
    ASSUME RegistryInv, NEW key \in Keys, NEW servers \in ServerLists, Issue(key, servers)
    PROVE  RegistryInv'
<1>1. /\ issued \subseteq issued' /\ \A d \in issued' : d \in issued \/ d.servers \in ServerLists
      /\ UNCHANGED <<follows, uri, cache, step, doc, endpoints>>
  BY DEF Issue
<1>2. RegistryTypeOK'
  BY <1>1 DEF RegistryInv, RegistryTypeOK
<1> QED BY <1>1, <1>2, Unmoved DEF RegistryInv

LEMMA ParseStep == ASSUME RegistryInv, NEW c \in Clients, Parse(c) PROVE RegistryInv'
<1>1. RegistryTypeOK' /\ Lone(c)
  BY DEF RegistryInv, RegistryTypeOK, Lone, Parse, Goes, Starting
<1>2. step'[c] \in {"failed", "up", "fetch"} /\ follows' = follows
      /\ (step'[c] = "up" => UriParses(uri) /\ follows[c] = NoKey)
      /\ (step'[c] = "fetch" => follows[c] # NoKey)
      /\ (UriParses(uri) => endpoints'[c] = UriEndpoints(uri)) /\ uri' = uri
  BY DEF RegistryInv, RegistryTypeOK, Parse, Goes
<1>3. Holds(c)' /\ Asks(c)'
  BY <1>2 DEF Holds, Asks
<1>4. Vouched(c)'
  <2>1. UriParses(uri) => OfUri(UriEndpoints(uri))
    BY ParsedHosts DEF RegistryInv
  <2>2. PICK es : es = UriEndpoints(uri)
    OBVIOUS
  <2>3. OfUri(es) => OfUri(es)'
    BY <1>2 DEF OfUri
  <2>4. step'[c] = "up" => OfUri(endpoints[c])'
    BY <1>2, <2>1, <2>2, <2>3 DEF OfUri
  <2> QED BY <1>2, <2>4 DEF Vouched
<1> QED BY <1>1, <1>3, <1>4, LoneStep

LEMMA FetchStep ==
    ASSUME RegistryInv, NEW c \in Clients, NEW d \in issued, Fetch(c, d)
    PROVE  RegistryInv'
<1>1. RegistryTypeOK' /\ Lone(c)
  BY DEF RegistryInv, RegistryTypeOK, Lone, Fetch, Goes, Starting
<1>2. step'[c] = "open" /\ step[c] = "fetch" /\ doc'[c] = d /\ follows' = follows /\ issued' = issued
      /\ Accepts(d, follows[c])
  BY DEF RegistryInv, RegistryTypeOK, Fetch, Goes
<1>3. Holds(c)' /\ Asks(c)' /\ Vouched(c)'
  BY <1>2 DEF RegistryInv, Holds, Asks, Vouched, Accepts
<1> QED BY <1>1, <1>3, LoneStep

LEMMA FetchFailsStep == ASSUME RegistryInv, NEW c \in Clients, FetchFails(c) PROVE RegistryInv'
<1>1. RegistryTypeOK' /\ Lone(c)
  BY DEF RegistryInv, RegistryTypeOK, Lone, FetchFails, Goes, Starting
<1>2. step'[c] = "fallback" /\ step[c] = "fetch" /\ follows' = follows
  BY DEF RegistryInv, RegistryTypeOK, FetchFails, Goes
<1>3. Holds(c)' /\ Asks(c)' /\ Vouched(c)'
  BY <1>2 DEF RegistryInv, Holds, Asks, Vouched
<1> QED BY <1>1, <1>3, LoneStep

LEMMA OpenCacheStep == ASSUME RegistryInv, NEW c \in Clients, OpenCache(c) PROVE RegistryInv'
<1>1. RegistryTypeOK' /\ Lone(c)
  BY DEF RegistryInv, RegistryTypeOK, Lone, OpenCache, Goes, Starting
<1>2. step'[c] \in {"write", "apply"} /\ step[c] = "open" /\ doc' = doc /\ follows' = follows
      /\ issued' = issued
  BY DEF RegistryInv, RegistryTypeOK, OpenCache, Goes
<1>3. Holds(c)' /\ Asks(c)' /\ Vouched(c)'
  BY <1>2 DEF RegistryInv, Holds, Asks, Vouched, Accepts
<1> QED BY <1>1, <1>3, LoneStep

LEMMA WriteCacheStep == ASSUME RegistryInv, NEW c \in Clients, WriteCache(c) PROVE RegistryInv'
<1>1. doc[c] \in issued
  BY DEF RegistryInv, Holds, WriteCache
<1>2. RegistryTypeOK' /\ Lone(c)
  BY <1>1 DEF RegistryInv, RegistryTypeOK, Lone, WriteCache, Goes, Starting
<1>3. step'[c] = "apply" /\ step[c] = "write" /\ doc' = doc /\ follows' = follows
      /\ issued' = issued
  BY DEF RegistryInv, RegistryTypeOK, WriteCache, Goes
<1>4. Holds(c)' /\ Asks(c)' /\ Vouched(c)'
  BY <1>3 DEF RegistryInv, Holds, Asks, Vouched, Accepts
<1> QED BY <1>2, <1>4, LoneStep

LEMMA ReadCacheStep == ASSUME RegistryInv, NEW c \in Clients, ReadCache(c) PROVE RegistryInv'
<1>1. RegistryTypeOK' /\ Lone(c)
  BY DEF RegistryInv, RegistryTypeOK, Lone, ReadCache, Goes, Starting
<1>2. /\ step[c] = "fallback" /\ step'[c] \in {"apply", "failed"} /\ follows' = follows
      /\ issued' = issued
      /\ step'[c] = "apply" => doc'[c] = cache /\ Accepts(cache, follows[c])
  BY DEF RegistryInv, RegistryTypeOK, ReadCache, Goes
<1>3. Accepts(cache, follows[c]) => cache \in issued
  BY DEF RegistryInv, RegistryTypeOK, Accepts, NoDoc, Torn
<1>4. Holds(c)' /\ Asks(c)' /\ Vouched(c)'
  BY <1>2, <1>3 DEF RegistryInv, Holds, Asks, Vouched, Accepts
<1> QED BY <1>1, <1>4, LoneStep

LEMMA ApplyStep == ASSUME RegistryInv, NEW c \in Clients, Apply(c) PROVE RegistryInv'
<1>1. RegistryTypeOK' /\ Lone(c)
  BY DEF RegistryInv, RegistryTypeOK, Lone, Apply, Goes, Starting
<1>2. PICK d, es, t : d = doc[c] /\ t = uri.transport /\ es = ForTransport(d, t)
  OBVIOUS
<1>3. /\ step[c] = "apply" /\ step'[c] \in {"failed", "up"} /\ follows' = follows
      /\ issued' = issued /\ uri' = uri
      /\ step'[c] = "up" => endpoints'[c] = es /\ es # <<>>
  BY <1>2 DEF RegistryInv, RegistryTypeOK, Apply, Goes
<1>4. d \in issued /\ d.signer = follows[c] /\ follows[c] # NoKey /\ d.servers \in ServerLists
  BY <1>2, <1>3 DEF RegistryInv, RegistryTypeOK, Holds, Asks, Accepts
<1>5. \A i \in 1..Len(es) : [host |-> es[i], transport |-> t] \in ToSet(d.servers)
  BY <1>2, <1>4, ChosenServers
<1>6. es # <<>> => OfRegistry(es, follows[c])'
  BY <1>2, <1>3, <1>4, <1>5 DEF OfRegistry
<1>7. step'[c] = "up" => OfRegistry(endpoints[c], follows[c])'
  BY <1>3, <1>6 DEF OfRegistry
<1>8. Holds(c)' /\ Asks(c)' /\ Vouched(c)'
  BY <1>3, <1>4, <1>7 DEF Holds, Asks, Vouched
<1> QED BY <1>1, <1>8, LoneStep

LEMMA RestartStep == ASSUME RegistryInv, NEW c \in Clients, Restart(c) PROVE RegistryInv'
<1>1. RegistryTypeOK' /\ Lone(c)
  BY DEF RegistryInv, RegistryTypeOK, Lone, Restart, Goes, Starting
<1>2. step'[c] = "parse"
  BY DEF RegistryInv, RegistryTypeOK, Restart, Goes
<1>3. Holds(c)' /\ Asks(c)' /\ Vouched(c)'
  BY <1>2 DEF Holds, Asks, Vouched
<1> QED BY <1>1, <1>3, LoneStep

LEMMA NextRegistry == ASSUME RegistryInv, [Next]_vars PROVE RegistryInv'
<1>1. CASE UNCHANGED registryVars
  <2>1. follows' = follows /\ uri' = uri /\ issued' = issued /\ cache' = cache /\ step' = step
        /\ doc' = doc /\ endpoints' = endpoints
    BY <1>1 DEF registryVars
  <2>2. RegistryTypeOK'
    BY <2>1 DEF RegistryInv, RegistryTypeOK
  <2> QED BY <2>1, <2>2, Unmoved DEF RegistryInv
<1>2. CASE RegistryNext
  <2>1. ASSUME NEW c \in Clients,
               \/ Parse(c) \/ FetchFails(c) \/ OpenCache(c) \/ WriteCache(c) \/ ReadCache(c)
               \/ Apply(c) \/ Restart(c)
               \/ \E d \in issued : Fetch(c, d)
        PROVE  RegistryInv'
    BY <2>1, ParseStep, FetchFailsStep, OpenCacheStep, WriteCacheStep, ReadCacheStep,
       ApplyStep, RestartStep, FetchStep
  <2> QED BY <1>2, <2>1, IssueStep DEF RegistryNext
<1>3. RegistryNext \/ UNCHANGED registryVars
  BY DEF Next, TunRuns, ClientsRun, ServerRuns, vars
<1> QED BY <1>1, <1>2, <1>3

(* A client dials only what its URI lists, each endpoint once and under    *)
(* RLPx one, or what the owner of its registry has signed for its          *)
(* transport, for any number of clients, registries and documents.         *)
THEOREM DialsWhatIsVouchedFor == Spec => []EndpointsAreVouchedFor
<1>1. Init => RegistryInv
  BY InitRegistry DEF Init, RegistryAtRest
<1>2. RegistryInv /\ [Next]_vars => RegistryInv'
  BY NextRegistry
<1>3. RegistryInv => EndpointsAreVouchedFor
  BY DEF RegistryInv, Vouched, OfUri, OfRegistry, EndpointsAreVouchedFor
<1> QED BY <1>1, <1>2, <1>3, PTL DEF Spec

-----------------------------------------------------------------------------
(* The script of a system                                                  *)

\* The place of the server's own route, and what takes it away.
BypassAt == IF os = "windows" THEN 2 ELSE 4
DelServer == Cmd("del", Server, Tun)

\* What takes the default route from the tunnel and gives it back.
DelDefault == Cmd("del", "default", Tun)
AddBack == Cmd("add", "default", gw)
Takeover == Must("add", "default", Tun, <<AddBack, DelDefault>>)

Halved == {"0/1", "128/1"}
Holes == {"::/1", "8000::/1"}

\* The routes that come after the server's, the default one apart.
Plain(c) ==
    \E d \in Halved \cup Holes \cup Resolvers, via \in {gw, Tun, Nowhere}, must \in BOOLEAN :
        /\ c = Step(must, Cmd("add", d, via), Unroute(d))
        /\ via = Tun <=> d \in Halved

\* A command of the device, and what may undo it.
Shutdowns == {Cmd("dev", "down", Tun), Cmd("dev", "no addr", Tun)}
OfDevice(c) == c.cmd.op = "dev" /\ c.undoing \in Seq(Shutdowns)

LEMMA TwoParts ==
    ASSUME NEW S, NEW s \in Seq(S), NEW t \in Seq(S), NEW k \in 1..Len(s \o t)
    PROVE  \/ k \in 1..Len(s) /\ (s \o t)[k] = s[k]
           \/ \E j \in 1..Len(t) : k = Len(s) + j /\ (s \o t)[k] = t[j]
<1>1. Len(s) \in Nat /\ Len(t) \in Nat /\ Len(s \o t) = Len(s) + Len(t)
      /\ (s \o t)[k] = IF k <= Len(s) THEN s[k] ELSE t[k - Len(s)]
  BY ConcatProperties, LenProperties
<1>2. CASE k <= Len(s)
  BY <1>1, <1>2
<1>3. CASE ~(k <= Len(s))
  <2>1. k - Len(s) \in 1..Len(t) /\ k = Len(s) + (k - Len(s))
    BY <1>1, <1>3
  <2> QED BY <1>1, <1>3, <2>1
<1> QED BY <1>2, <1>3

LEMMA HolesArePlain ==
    ASSUME ipv6 \in BOOLEAN
    PROVE  \E S : BlackHoles \in Seq(S) /\ \A s \in S : Plain(s)
<1> DEFINE a == May("add", "::/1", Nowhere, Unroute("::/1"))
           b == May("add", "8000::/1", Nowhere, Unroute("8000::/1"))
<1>0. "::/1" \notin Halved /\ "8000::/1" \notin Halved /\ Nowhere # Tun
      /\ "::/1" \in Holes /\ "8000::/1" \in Holes
  BY DEF Halved, Holes, Tun, Nowhere
<1>1. Plain(a) /\ Plain(b)
  <2>1. a = Step(FALSE, Cmd("add", "::/1", Nowhere), Unroute("::/1"))
        /\ b = Step(FALSE, Cmd("add", "8000::/1", Nowhere), Unroute("8000::/1"))
    BY DEF May
  <2> HIDE DEF a, b
  <2> QED BY <1>0, <2>1 DEF Plain
<1>2. BlackHoles \in Seq({a, b})
  <2>1. BlackHoles = <<>> \/ BlackHoles = <<a, b>>
    BY DEF BlackHoles
  <2> HIDE DEF a, b
  <2>2. <<>> \in Seq({a, b}) /\ <<a, b>> \in Seq({a, b})
    OBVIOUS
  <2> QED BY <2>1, <2>2
<1> HIDE DEF a, b
<1> QED BY <1>1, <1>2

LEMMA HalvesArePlain == \E S : Halves \in Seq(S) /\ \A s \in S : Plain(s)
<1> DEFINE a == Must("add", "0/1", Tun, Unroute("0/1"))
           b == Must("add", "128/1", Tun, Unroute("128/1"))
<1>1. Plain(a) /\ Plain(b)
  BY DEF Plain, Must, Halved
<1>2. Halves \in Seq({a, b})
  BY DEF Halves
<1> QED BY <1>1, <1>2

LEMMA ResolversArePlain ==
    ASSUME gw # Tun
    PROVE  \E S : ResolverBypasses \in Seq(S) /\ \A s \in S : Plain(s)
<1>1. PICK R : R = Resolvers \ {gw} /\ IsFiniteSet(R)
  BY RouteAssumption, FS_Subset
<1>2. PICK rs : rs = SetToSeq(R) /\ rs \in [1..Cardinality(R) -> R]
  <2>1. PICK f \in Bijection(1..Cardinality(R), R) : TRUE
    BY <1>1, FS_CardinalityType DEF ExistsBijection
  <2>2. f \in [1..Cardinality(R) -> R] /\ IsInjective(f)
    BY <2>1 DEF Bijection, Injection, IsInjective
  <2> QED BY <2>2 DEF SetToSeq
<1>3. PICK n \in Nat : n = Cardinality(R) /\ rs \in Seq(R) /\ Len(rs) = n
  <2>1. PICK n \in Nat : n = Cardinality(R)
    BY <1>1, FS_CardinalityType
  <2> QED BY <1>2, <2>1, IsASeq, LenProperties
<1> DEFINE S == {May("add", r, gw, Unroute(r)) : r \in R}
<1>4. \A s \in S : Plain(s)
  <2>1. \A r \in R : r \in Resolvers /\ r \notin Halved
    BY <1>1, RouteAssumption DEF Names, Halved, Server
  <2> QED BY <2>1 DEF Plain, May
<1>5. ResolverBypasses = [i \in 1..n |-> May("add", rs[i], gw, Unroute(rs[i]))]
  BY <1>1, <1>2, <1>3 DEF ResolverBypasses
<1>6. \A i \in 1..n : May("add", rs[i], gw, Unroute(rs[i])) \in S
  BY <1>2, <1>3
<1>7. ResolverBypasses \in [1..n -> S]
  <2> HIDE DEF S
  <2> QED BY <1>5, <1>6
<1> HIDE DEF S
<1>8. ResolverBypasses \in Seq(S)
  BY <1>7, IsASeq
<1> QED BY <1>4, <1>8

\* The kinds of command, and where they come.
Kind(c, k) ==
    \/ k < BypassAt /\ (os = "linux" => k < 3) /\ OfDevice(c)
    \/ k < BypassAt /\ c = ReadDefault
    \/ k = BypassAt /\ c = Bypass
    \/ os = "linux" /\ k = 5 /\ c = May("del", "default", gw, <<>>)
    \/ os = "linux" /\ k = 6 /\ c = Takeover
    \/ k > BypassAt /\ (os = "linux" => k > 6) /\ Plain(c)

\* A part of the script whose commands are plain.
AllPlain(t) == \E S : t \in Seq(S) /\ \A s \in S : Plain(s)

LEMMA ThenPlain ==
    ASSUME NEW s, NEW t, NEW A, s \in Seq(A), AllPlain(t), NEW k \in Nat \ {0}, k <= Len(s \o t)
    PROVE  \/ k \in 1..Len(s) /\ (s \o t)[k] = s[k]
           \/ k > Len(s) /\ Plain((s \o t)[k])
<1>1. PICK S : t \in Seq(S) /\ \A x \in S : Plain(x)
  BY DEF AllPlain
<1>2. PICK B : s \in Seq(B) /\ t \in Seq(B)
  <2>1. PICK B : A \subseteq B /\ S \subseteq B
    <3>1. A \subseteq A \cup S /\ S \subseteq A \cup S
      OBVIOUS
    <3> QED BY <3>1
  <2>2. Seq(A) \subseteq Seq(B) /\ Seq(S) \subseteq Seq(B)
    BY <2>1, SeqMonotonic
  <2> QED BY <1>1, <2>2
<1>3. CASE k \in 1..Len(s) /\ (s \o t)[k] = s[k]
  BY <1>3, Zenon
<1>4. CASE \E j \in 1..Len(t) : k = Len(s) + j /\ (s \o t)[k] = t[j]
  <2>1. PICK j \in 1..Len(t) : k = Len(s) + j /\ (s \o t)[k] = t[j]
    BY <1>4
  <2>2. t[j] \in S /\ k > Len(s)
    <3>1. Len(s) \in Nat /\ Len(t) \in Nat
      BY <1>2, LenProperties
    <3> QED BY <1>1, <2>1, <3>1, ElementOfSeq
  <2> QED BY <1>1, <2>1, <2>2
<1>5. k \in 1..Len(s \o t)
  <2>1. s \o t \in Seq(B)
    BY <1>2, ConcatProperties
  <2> QED BY <2>1, LenProperties
<1>6. \/ k \in 1..Len(s) /\ (s \o t)[k] = s[k]
      \/ \E j \in 1..Len(t) : k = Len(s) + j /\ (s \o t)[k] = t[j]
  BY <1>2, <1>5, TwoParts
<1> QED BY <1>3, <1>4, <1>6, Zenon

LEMMA PlainJoined ==
    ASSUME NEW s, NEW t, AllPlain(s), AllPlain(t)
    PROVE  AllPlain(s \o t)
<1>1. PICK A : s \in Seq(A) /\ \A x \in A : Plain(x)
  BY DEF AllPlain
<1>2. PICK B : t \in Seq(B) /\ \A x \in B : Plain(x)
  BY DEF AllPlain
<1>3. A \subseteq A \cup B /\ B \subseteq A \cup B /\ \A x \in A \cup B : Plain(x)
  BY <1>1, <1>2
<1>4. s \o t \in Seq(A \cup B)
  BY <1>1, <1>2, <1>3, SeqMonotonic, ConcatProperties
<1> QED BY <1>3, <1>4 DEF AllPlain

LEMMA OnTheDevice ==
    ASSUME NEW arg
    PROVE  /\ OfDevice(Must("dev", arg, Tun, <<>>))
           /\ OfDevice(Must("dev", arg, Tun, <<Cmd("dev", "down", Tun)>>))
           /\ OfDevice(Must("dev", arg, Tun, <<Cmd("dev", "down", Tun), Cmd("dev", "no addr", Tun)>>))
<1>1. PICK x, y : x = Cmd("dev", "down", Tun) /\ y = Cmd("dev", "no addr", Tun) /\ Shutdowns = {x, y}
  BY DEF Shutdowns
<1>2. <<>> \in Seq({x, y}) /\ <<x>> \in Seq({x, y}) /\ <<x, y>> \in Seq({x, y})
  OBVIOUS
<1>3. \A u : Must("dev", arg, Tun, u).cmd.op = "dev" /\ Must("dev", arg, Tun, u).undoing = u
  BY DEF Must, Step, Cmd
<1> QED BY <1>1, <1>2, <1>3, Zenon DEF OfDevice

LEMMA LinuxSteps ==
    ASSUME os = "linux", ipv6 \in BOOLEAN, NEW k \in Nat \ {0}, k <= Len(LinuxScript)
    PROVE  Kind(LinuxScript[k], k)
<1>1. PICK a, b, c, d, e, f :
          /\ a = Must("dev", "addr", Tun, <<>>)
          /\ b = Must("dev", "up", Tun, <<Cmd("dev", "down", Tun), Cmd("dev", "no addr", Tun)>>)
          /\ c = ReadDefault /\ d = Bypass
          /\ e = May("del", "default", gw, <<>>) /\ f = Takeover
  OBVIOUS
<1>2. PICK s, A : s = <<a, b, c, d, e, f>> /\ A = {a, b, c, d, e, f}
  OBVIOUS
<1>3. s \in Seq(A) /\ Len(s) = 6 /\ s[1] = a /\ s[2] = b /\ s[3] = c /\ s[4] = d /\ s[5] = e /\ s[6] = f
  BY <1>2
<1>4. LinuxScript = s \o BlackHoles
  <2>2. <<Cmd("add", "default", gw)>> \o Unroute("default") = <<AddBack, DelDefault>>
    BY OneAndOne, Zenon DEF Unroute, AddBack, DelDefault
  <2> QED BY <1>1, <1>2, <2>2, Zenon DEF LinuxScript, Takeover
<1>5. OfDevice(a) /\ OfDevice(b)
  BY <1>1, OnTheDevice
<1>6. AllPlain(BlackHoles)
  BY HolesArePlain DEF AllPlain
<1>7. \/ k \in 1..Len(s) /\ LinuxScript[k] = s[k]
      \/ k > Len(s) /\ Plain(LinuxScript[k])
  BY <1>3, <1>4, <1>6, ThenPlain
<1>8. BypassAt = 4
  BY DEF BypassAt
<1>9. CASE k > 6 /\ Plain(LinuxScript[k])
  BY <1>8, <1>9 DEF Kind
<1>10. CASE k \in 1..6 /\ LinuxScript[k] = s[k]
  <2>0. CASE k = 3
    <3>1. k < BypassAt
      BY <1>8, <2>0
    <3> QED BY <1>1, <1>3, <1>10, <2>0, <3>1, Zenon DEF Kind
  <2>1. CASE k \in 1..2
    <3>1. LinuxScript[k] = a \/ LinuxScript[k] = b
      <4>1. k = 1 \/ k = 2
        BY <2>1
      <4> QED BY <1>1, <1>3, <1>10, <4>1, Zenon
    <3>2. k < BypassAt /\ k < 3
      BY <1>8, <2>1
    <3> QED BY <1>5, <3>1, <3>2 DEF Kind
  <2>2. CASE k = 4
    BY <1>1, <1>3, <1>8, <1>10, <2>2, Zenon DEF Kind
  <2>3. CASE k = 5
    BY <1>1, <1>3, <1>10, <2>3, Zenon DEF Kind
  <2>4. CASE k = 6
    BY <1>1, <1>3, <1>10, <2>4, Zenon DEF Kind
  <2> QED BY <1>10, <2>0, <2>1, <2>2, <2>3, <2>4
<1> QED BY <1>3, <1>7, <1>9, <1>10

LEMMA MacSteps ==
    ASSUME os = "macos", ipv6 \in BOOLEAN, gw # Tun, NEW k \in Nat \ {0}, k <= Len(MacScript)
    PROVE  Kind(MacScript[k], k)
<1>1. PICK a, b, c, d :
          /\ a = ReadDefault /\ b = Must("dev", "addr", Tun, <<>>)
          /\ c = Must("dev", "mtu", Tun, <<Cmd("dev", "down", Tun)>>) /\ d = Bypass
  OBVIOUS
<1>2. PICK s, A, t :
          /\ s = <<a, b, c, d>> /\ A = {a, b, c, d}
          /\ t = ResolverBypasses \o (Halves \o BlackHoles)
  OBVIOUS
<1>3. s \in Seq(A) /\ Len(s) = 4 /\ s[1] = a /\ s[2] = b /\ s[3] = c /\ s[4] = d
  BY <1>2
<1>4. AllPlain(ResolverBypasses) /\ AllPlain(Halves) /\ AllPlain(BlackHoles)
  BY ResolversArePlain, HalvesArePlain, HolesArePlain DEF AllPlain
<1>5. AllPlain(t)
  BY <1>2, <1>4, PlainJoined
<1>6. MacScript = s \o t
  <2>1. PICK B, C, D : ResolverBypasses \in Seq(B) /\ Halves \in Seq(C) /\ BlackHoles \in Seq(D)
    BY <1>4 DEF AllPlain
  <2>2. PICK S : A \subseteq S /\ B \subseteq S /\ C \subseteq S /\ D \subseteq S
    <3>1. A \subseteq A \cup B \cup C \cup D /\ B \subseteq A \cup B \cup C \cup D
          /\ C \subseteq A \cup B \cup C \cup D /\ D \subseteq A \cup B \cup C \cup D
      OBVIOUS
    <3> QED BY <3>1
  <2>3. s \in Seq(S) /\ ResolverBypasses \in Seq(S) /\ Halves \in Seq(S) /\ BlackHoles \in Seq(S)
    BY <1>3, <2>1, <2>2, SeqMonotonic
  <2>4. ((s \o ResolverBypasses) \o Halves) \o BlackHoles
        = s \o (ResolverBypasses \o (Halves \o BlackHoles))
    <3>1. PICK p \in Seq(S), q \in Seq(S) : p = s \o ResolverBypasses /\ q = Halves \o BlackHoles
      BY <2>3, ConcatProperties
    <3>2. (p \o Halves) \o BlackHoles = p \o (Halves \o BlackHoles)
      BY <2>3, ConcatAssociative, SMTT(60)
    <3>3. (s \o ResolverBypasses) \o q = s \o (ResolverBypasses \o q)
      BY <2>3, ConcatAssociative, SMTT(60)
    <3> QED BY <3>1, <3>2, <3>3, Zenon
  <2>5. MacScript = ((s \o ResolverBypasses) \o Halves) \o BlackHoles
    BY <1>1, <1>2, Zenon DEF MacScript
  <2> QED BY <1>2, <2>4, <2>5, Zenon
<1>7. OfDevice(b) /\ OfDevice(c)
  BY <1>1, OnTheDevice
<1>8. \/ k \in 1..Len(s) /\ MacScript[k] = s[k]
      \/ k > Len(s) /\ Plain(MacScript[k])
  BY <1>3, <1>5, <1>6, ThenPlain
<1>9. BypassAt = 4
  BY DEF BypassAt
<1>10. CASE k > 4 /\ Plain(MacScript[k])
  BY <1>9, <1>10 DEF Kind
<1>11. CASE k \in 1..4 /\ MacScript[k] = s[k]
  <2>1. CASE k \in 1..3
    <3>1. MacScript[k] = b \/ MacScript[k] = c \/ MacScript[k] = ReadDefault
      BY <1>1, <1>3, <1>11, <2>1
    <3>2. k < BypassAt
      BY <1>9, <2>1
    <3> QED BY <1>7, <3>1, <3>2 DEF Kind
  <2>2. CASE k = 4
    BY <1>1, <1>3, <1>9, <1>11, <2>2, Zenon DEF Kind
  <2> QED BY <1>11, <2>1, <2>2
<1> QED BY <1>3, <1>8, <1>10, <1>11

LEMMA WindowsSteps ==
    ASSUME os = "windows", ipv6 \in BOOLEAN, NEW k \in Nat \ {0}, k <= Len(WindowsScript)
    PROVE  Kind(WindowsScript[k], k)
<1>1. PICK a, b, s, A, t :
          /\ a = ReadDefault /\ b = Bypass
          /\ s = <<a, b>> /\ A = {a, b} /\ t = Halves \o BlackHoles
  OBVIOUS
<1>2. s \in Seq(A) /\ Len(s) = 2 /\ s[1] = a /\ s[2] = b
  BY <1>1
<1>3. AllPlain(Halves) /\ AllPlain(BlackHoles)
  BY HalvesArePlain, HolesArePlain DEF AllPlain
<1>4. AllPlain(t)
  BY <1>1, <1>3, PlainJoined
<1>5. WindowsScript = s \o t
  <2>0. PICK B, C : Halves \in Seq(B) /\ BlackHoles \in Seq(C)
    BY <1>3 DEF AllPlain
  <2>1. PICK S : A \subseteq S /\ B \subseteq S /\ C \subseteq S
    <3>1. A \subseteq A \cup B \cup C /\ B \subseteq A \cup B \cup C /\ C \subseteq A \cup B \cup C
      OBVIOUS
    <3> QED BY <3>1
  <2>2. s \in Seq(S) /\ Halves \in Seq(S) /\ BlackHoles \in Seq(S)
    BY <1>2, <2>0, <2>1, SeqMonotonic
  <2>3. WindowsScript = (s \o Halves) \o BlackHoles
    BY <1>1 DEF WindowsScript
  <2>4. (s \o Halves) \o BlackHoles = s \o (Halves \o BlackHoles)
    BY <2>2, ConcatAssociative, SMTT(60)
  <2> QED BY <1>1, <2>3, <2>4, Zenon
<1>6. \/ k \in 1..Len(s) /\ WindowsScript[k] = s[k]
      \/ k > Len(s) /\ Plain(WindowsScript[k])
  BY <1>2, <1>4, <1>5, ThenPlain
<1>7. BypassAt = 2
  BY DEF BypassAt
<1>8. CASE k > 2 /\ Plain(WindowsScript[k])
  BY <1>7, <1>8 DEF Kind
<1>9. CASE k \in 1..2 /\ WindowsScript[k] = s[k]
  <2>1. k = 1 \/ k = 2
    BY <1>9
  <2> QED BY <1>1, <1>2, <1>7, <1>9, <2>1 DEF Kind
<1> QED BY <1>2, <1>6, <1>8, <1>9

LEMMA ScriptSteps ==
    ASSUME os \in Systems, ipv6 \in BOOLEAN, gw # Tun, NEW k \in Nat \ {0}, k <= Len(Script)
    PROVE  Kind(Script[k], k)
<1>1. CASE os = "linux"
  <2>1. Script = LinuxScript
    BY <1>1 DEF Script
  <2> QED BY <1>1, <2>1, LinuxSteps
<1>2. CASE os = "macos"
  <2>1. Script = MacScript
    BY <1>2 DEF Script
  <2> QED BY <1>2, <2>1, MacSteps
<1>3. CASE os = "windows"
  <2>1. Script = WindowsScript
    BY <1>3 DEF Script
  <2> QED BY <1>3, <2>1, WindowsSteps
<1> QED BY <1>1, <1>2, <1>3 DEF Systems

LEMMA LinuxTakesOver ==
    ASSUME os = "linux", ipv6 \in BOOLEAN, gw # Tun
    PROVE  6 <= Len(Script) /\ Script[6].cmd = Cmd("add", "default", Tun)
<1>1. PICK s, A : LinuxScript = s \o BlackHoles /\ s \in Seq(A) /\ Len(s) = 6
  <2>1. PICK a, b, c, d, e, f : LinuxScript = <<a, b, c, d, e, f>> \o BlackHoles
    BY Zenon DEF LinuxScript
  <2>2. PICK s, A : s = <<a, b, c, d, e, f>> /\ A = {a, b, c, d, e, f}
    OBVIOUS
  <2>3. s \in Seq(A) /\ Len(s) = 6
    BY <2>2
  <2> QED BY <2>1, <2>2, <2>3
<1>2. PICK B : s \in Seq(B) /\ BlackHoles \in Seq(B)
  <2>1. PICK C : BlackHoles \in Seq(C)
    BY HolesArePlain
  <2>2. PICK B : A \subseteq B /\ C \subseteq B
    <3>1. A \subseteq A \cup C /\ C \subseteq A \cup C
      OBVIOUS
    <3> QED BY <3>1
  <2> QED BY <1>1, <2>1, <2>2, SeqMonotonic
<1>3. 6 <= Len(Script)
  <2>1. Script = s \o BlackHoles
    BY <1>1 DEF Script
  <2>2. Len(s \o BlackHoles) = Len(s) + Len(BlackHoles)
    BY <1>2, ConcatProperties
  <2>3. Len(BlackHoles) \in Nat
    BY <1>2, LenProperties
  <2> QED BY <1>1, <2>1, <2>2, <2>3
<1>4. Kind(Script[6], 6)
  BY <1>3, ScriptSteps DEF Systems
<1>5. Script[6] = Takeover
  BY <1>4 DEF Kind, BypassAt
<1> QED BY <1>3, <1>5 DEF Takeover, Must, Step

\* On Windows the third command, and no later one, routes 0/1.
DelHalf == Cmd("del", "0/1", Tun)

LEMMA WindowsHalves ==
    ASSUME os = "windows", ipv6 \in BOOLEAN, gw # Tun, NEW k \in Nat \ {0}, k <= Len(Script), k > 2
    PROVE  (k = 3 => Script[k].must) /\ (Script[k].cmd.dest = "0/1" <=> k = 3)
<1>1. PICK a, b, c, d, x, y :
          /\ a = ReadDefault /\ b = Bypass
          /\ c = Must("add", "0/1", Tun, Unroute("0/1")) /\ d = Must("add", "128/1", Tun, Unroute("128/1"))
          /\ x = May("add", "::/1", Nowhere, Unroute("::/1"))
          /\ y = May("add", "8000::/1", Nowhere, Unroute("8000::/1"))
  OBVIOUS
<1>2. /\ c.must /\ c.cmd.dest = "0/1" /\ d.cmd.dest # "0/1"
      /\ x.cmd.dest # "0/1" /\ y.cmd.dest # "0/1"
  BY <1>1 DEF Must, May, Step, Cmd
<1>3. PICK s, A, t :
          /\ s = <<a, b>> \o <<c, d>> /\ A = {a, b, c, d, x, y}
          /\ t = BlackHoles /\ (t = <<>> \/ t = <<x, y>>)
  BY <1>1, Zenon DEF BlackHoles
<1>4. s \in Seq(A) /\ t \in Seq({x, y}) /\ t \in Seq(A) /\ Len(s) = 4 /\ s[3] = c /\ s[4] = d
  <2>1. PICK p, q : p = <<a, b>> /\ q = <<c, d>> /\ s = p \o q
    BY <1>3
  <2>2. p \in Seq(A) /\ q \in Seq(A) /\ Len(p) = 2 /\ Len(q) = 2 /\ q[1] = c /\ q[2] = d
    BY <1>3, <2>1
  <2>3. s \in Seq(A) /\ Len(s) = 4 /\ s[3] = c /\ s[4] = d
    BY <2>1, <2>2, ConcatProperties
  <2>4. t \in Seq({x, y})
    <3>1. <<>> \in Seq({x, y}) /\ <<x, y>> \in Seq({x, y})
      OBVIOUS
    <3> QED BY <1>3, <3>1
  <2>5. {x, y} \subseteq A
    BY <1>3
  <2> QED BY <2>3, <2>4, <2>5, SeqMonotonic
<1>5. Script = s \o t
  BY <1>1, <1>3, Zenon DEF Script, WindowsScript, Halves
<1>6. k \in 1..Len(s \o t)
  <2>1. s \o t \in Seq(A)
    BY <1>4, ConcatProperties
  <2> QED BY <1>5, <2>1, LenProperties
<1>7. \/ k \in 1..Len(s) /\ (s \o t)[k] = s[k]
      \/ \E j \in 1..Len(t) : k = Len(s) + j /\ (s \o t)[k] = t[j]
  <2>1. s \in Seq(A) /\ t \in Seq(A)
    BY <1>4
  <2> QED BY <1>6, <2>1, TwoParts
<1>8. CASE k \in 1..Len(s) /\ (s \o t)[k] = s[k]
  <2>1. k = 3 \/ k = 4
    BY <1>4, <1>8
  <2> QED BY <1>2, <1>4, <1>5, <1>8, <2>1
<1>9. CASE \E j \in 1..Len(t) : k = Len(s) + j /\ (s \o t)[k] = t[j]
  <2>1. PICK j \in 1..Len(t) : k = Len(s) + j /\ (s \o t)[k] = t[j]
    BY <1>9
  <2>2. t[j] \in {x, y} /\ k # 3
    <3>1. Len(t) \in Nat
      BY <1>4, LenProperties
    <3> QED BY <1>4, <2>1, <3>1, ElementOfSeq
  <2> QED BY <1>2, <1>5, <2>1, <2>2
<1> QED BY <1>7, <1>8, <1>9

-----------------------------------------------------------------------------
(* What is installed, and what would undo it                               *)

\* What may be recorded: the device's commands, what undoes a route, and the
\* return of the default one.
Undoings ==
    {Cmd("del", d, Tun) : d \in Names \cup Resolvers}
    \cup {Cmd("add", "default", g) : g \in Gateways \cup {Nowhere}}
    \cup Shutdowns

TunTypeOK ==
    /\ os \in Systems /\ ipv6 \in BOOLEAN /\ device \in BOOLEAN
    /\ phase \in {"install", "up", "undo", "done", "killed"}
    /\ gw \in Gateways \cup {Nowhere} /\ at \in Nat \ {0}
    /\ before \in Tables
    /\ table \in SUBSET [dest : Names \cup Resolvers, via : Gateways \cup {Tun, Nowhere}, metric : {0, 1}]
    /\ undo \in Seq(Undoings)
    /\ phase = "done" => undo = <<>>

Recorded(c) == \E i \in 1..Len(undo) : undo[i] = c

\* A route is told by its destination and its metric, which only a default
\* route of the host has.
Distinct ==
    /\ \A r, s \in table : r.dest = s.dest /\ r.metric = s.metric => r = s
    /\ \A r \in table : r.via = Tun \/ r.dest # "default" => r.metric = 0

\* The route into the device is undone before the server's own.
BypassFirst ==
    /\ \A r \in table : r.via = Tun =>
          \E i, j \in 1..Len(undo) : i < j /\ undo[i] = DelServer /\ undo[j] = Cmd("del", r.dest, Tun)
    /\ \A i, j \in 1..Len(undo) : undo[i] = DelServer /\ undo[j] = DelServer => i = j

\* The server's own route is there while it is recorded.
Bypassed ==
    /\ Recorded(DelServer) => \E r \in table : r.dest = Server /\ r.via # Tun
    /\ phase \in {"install", "up"} /\ at > BypassAt => Recorded(DelServer)
    /\ at <= BypassAt => \A i \in 1..Len(undo) : undo[i].op = "dev"

\* The other routes are those of before and those recorded.
OthersKept ==
    /\ \A r \in before : r.dest # "default" => r \in table /\ ~Recorded(Cmd("del", r.dest, Tun))
    /\ \A r \in table : r.dest # "default" => r \in before \/ Recorded(Cmd("del", r.dest, Tun))

Defaults(t) == {r \in t : r.dest = "default"}
Taken == os = "linux" /\ at > 6
Untouched(I) == \A i \in I : undo[i].dest # "default"

\* Until the tunnel takes the default route there is nothing to give back.
DefaultKept ==
    /\ ~Taken => Untouched(1..Len(undo))
    /\ os = "macos" \/ (os = "linux" /\ at < 6) => Defaults(table) = Defaults(before)
    /\ os = "linux" /\ at = 6 => Defaults(table) \subseteq Defaults(before)

\* On Windows the default routes go when the half 0/1 is undone, which it is
\* exactly when it has been routed.
HalfTakesDefaults ==
    os = "windows" =>
        /\ at <= 3 => ~Recorded(DelHalf)
        /\ phase \in {"install", "up"} /\ at > 3 => Recorded(DelHalf)
        /\ \A i, j \in 1..Len(undo) : undo[i] = DelHalf /\ undo[j] = DelHalf => i = j
        /\ Defaults(table) = IF at <= 3 \/ Recorded(DelHalf) THEN Defaults(before) ELSE {}

\* What is left of the host's default route gives way to any other.
Yields(r) == r.via = gw /\ r.metric = 1

\* The tunnel has it, it has been taken back from the tunnel, or it is back.
Held ==
    /\ \A r \in Defaults(table) : r.via = Tun \/ Yields(r)
    /\ \E i, j \in 1..Len(undo) :
          i < j /\ undo[i] = AddBack /\ undo[j] = DelDefault /\ Untouched((1..Len(undo)) \ {i, j})
Dropped ==
    /\ \A r \in Defaults(table) : Yields(r)
    /\ \E i \in 1..Len(undo) : undo[i] = AddBack /\ Untouched((1..Len(undo)) \ {i})
Back ==
    /\ Defaults(table) # {} /\ \A r \in Defaults(table) : r.via = gw
    /\ Untouched(1..Len(undo))

OneDefault == \A r, s \in Defaults(before) : r = s

DefaultMoves ==
    os = "linux" /\ OneDefault =>
        /\ at > 3 => \A r \in Defaults(before) : r.via = gw
        /\ at > 6 => Held \/ Dropped \/ Back

TunInv ==
    /\ TunTypeOK /\ Distinct /\ BypassFirst /\ Bypassed /\ OthersKept /\ DefaultKept /\ DefaultMoves
    /\ HalfTakesDefaults

\* The host's own table: its default routes are told apart by their metrics.
LEMMA HostTables ==
    ASSUME before \in Tables
    PROVE  /\ \A r \in before :
                 /\ r \in [dest : Names \cup Resolvers, via : Gateways, metric : {0, 1}]
                 /\ r.dest # "default" => r.metric = 0
           /\ \A r, s \in before : r.dest = s.dest /\ r.metric = s.metric => r = s
           /\ Defaults(before) # {} /\ IsFiniteSet(before)
<1>0. ASSUME NEW d \in Names \cup Resolvers, NEW v \in Gateways, NEW m \in {0, 1}
      PROVE  /\ Route(d, v, m) \in [dest : Names \cup Resolvers, via : Gateways, metric : {0, 1}]
             /\ Route(d, v, m).dest = d /\ Route(d, v, m).via = v /\ Route(d, v, m).metric = m
  BY DEF Route
<1>1. "default" \in Names /\ \A r \in Resolvers : r # "default"
  BY RouteAssumption DEF Names, Server
<1>2. CASE \E g \in Gateways, m \in {0, 1} : before = {Route("default", g, m)}
  <2>0. PICK g \in Gateways, m \in {0, 1} : before = {Route("default", g, m)}
    BY <1>2
  <2>1. PICK x : x = Route("default", g, m) /\ before = {x}
    BY <2>0
  <2>2. x.dest = "default" /\ x \in [dest : Names \cup Resolvers, via : Gateways, metric : {0, 1}]
    BY <1>0, <1>1, <2>1
  <2>3. IsFiniteSet(before)
    BY <2>1, FS_Singleton
  <2> QED BY <2>1, <2>2, <2>3 DEF Defaults
<1>3. ASSUME NEW d \in {"default"} \cup Resolvers, NEW g \in Gateways, NEW h \in Gateways,
             NEW m \in {0, 1}, NEW k \in {0, 1}, m # k,
             before = {Route("default", g, m), Route(d, h, k)}, d # "default" => k = 0
      PROVE  /\ \A r \in before :
                   /\ r \in [dest : Names \cup Resolvers, via : Gateways, metric : {0, 1}]
                   /\ r.dest # "default" => r.metric = 0
             /\ \A r, s \in before : r.dest = s.dest /\ r.metric = s.metric => r = s
             /\ Defaults(before) # {} /\ IsFiniteSet(before)
  <2>1. PICK x, y : x = Route("default", g, m) /\ y = Route(d, h, k) /\ before = {x, y}
    BY <1>3
  <2>2. /\ x \in [dest : Names \cup Resolvers, via : Gateways, metric : {0, 1}]
        /\ x.dest = "default" /\ x.metric = m
    BY <1>0, <1>1, <2>1
  <2>3. /\ y \in [dest : Names \cup Resolvers, via : Gateways, metric : {0, 1}]
        /\ y.dest = d /\ y.metric = k
    <3>1. d \in Names \cup Resolvers
      BY <1>1
    <3> QED BY <1>0, <2>1, <3>1
  <2>4. IsFiniteSet(before)
    <3>1. before = {x} \cup {y}
      BY <2>1
    <3> QED BY <3>1, FS_Singleton, FS_AddElement
  <2>5. Defaults(before) # {}
    BY <2>1, <2>2 DEF Defaults
  <2> QED BY <1>3, <2>1, <2>2, <2>3, <2>4, <2>5
<1>4. CASE \E g \in Gateways \X Gateways : before = {Route("default", g[1], 0), Route("default", g[2], 1)}
  <2>1. PICK g \in Gateways, h \in Gateways : before = {Route("default", g, 0), Route("default", h, 1)}
    BY <1>4
  <2> QED BY <1>3, <2>1
<1>5. CASE \E g \in Gateways, r \in Resolvers : before = {Route("default", g, 1), Route(r, g, 0)}
  <2>1. PICK g \in Gateways, r \in Resolvers : before = {Route("default", g, 1), Route(r, g, 0)}
    BY <1>5
  <2>2. r \in {"default"} \cup Resolvers /\ 1 \in {0, 1} /\ 0 \in {0, 1} /\ 1 # 0
    OBVIOUS
  <2> QED BY <1>3, <2>1, <2>2
<1> QED BY <1>2, <1>4, <1>5 DEF Tables

LEMMA InitTun == TunInit => TunInv
<1> SUFFICES ASSUME TunInit PROVE TunInv
  OBVIOUS
<1>1. /\ os \in Systems /\ ipv6 \in BOOLEAN /\ before \in Tables /\ table = before
      /\ device = TRUE /\ gw = Nowhere /\ at = 1 /\ undo = <<>> /\ phase = "install"
  BY DEF TunInit
<1>2. Len(undo) = 0 /\ undo \in Seq(Undoings) /\ \A i \in 1..Len(undo) : FALSE
  BY <1>1
<1>3. \A r \in before : r.via # Tun
  BY <1>1, HostTables, RouteAssumption
<1>4. TunTypeOK
  <2>1. table \in SUBSET [dest : Names \cup Resolvers, via : Gateways \cup {Tun, Nowhere}, metric : {0, 1}]
    <3>1. \A r \in before : r \in [dest : Names \cup Resolvers, via : Gateways \cup {Tun, Nowhere}, metric : {0, 1}]
      BY <1>1, HostTables
    <3> QED BY <1>1, <3>1
  <2> QED BY <1>1, <1>2, <2>1 DEF TunTypeOK
<1>5. Distinct
  BY <1>1, <1>3, HostTables DEF Distinct
<1>6. BypassFirst /\ Bypassed
  BY <1>1, <1>2, <1>3 DEF BypassFirst, Bypassed, Recorded, BypassAt
<1>7. OthersKept /\ DefaultKept /\ DefaultMoves /\ HalfTakesDefaults
  BY <1>1, <1>2
     DEF OthersKept, DefaultKept, DefaultMoves, HalfTakesDefaults, Recorded, Taken, Untouched, Defaults
<1> QED BY <1>4, <1>5, <1>6, <1>7 DEF TunInv

\* What is recorded after more has been.
LEMMA Grown ==
    ASSUME NEW u \in Seq(Undoings), undo \in Seq(Undoings), undo' = undo \o u
    PROVE  /\ undo' \in Seq(Undoings) /\ Len(undo) \in Nat /\ Len(u) \in Nat
           /\ Len(undo') = Len(undo) + Len(u)
           /\ \A i \in 1..Len(undo) : i \in 1..Len(undo') /\ undo'[i] = undo[i]
           /\ \A j \in 1..Len(u) : Len(undo) + j \in 1..Len(undo') /\ undo'[Len(undo) + j] = u[j]
           /\ \A k \in 1..Len(undo') : k \in 1..Len(undo) \/ \E j \in 1..Len(u) : k = Len(undo) + j
<1>1. PICK s \in Seq(Undoings), t \in Seq(Undoings) : s = undo /\ t = undo' /\ t = s \o u
  BY ConcatProperties
<1>2. Len(s) \in Nat /\ Len(u) \in Nat /\ Len(t) = Len(s) + Len(u)
  BY <1>1, LenProperties, ConcatProperties
<1>3. \A i \in 1..Len(s) : i \in 1..Len(t) /\ t[i] = s[i]
  BY <1>1, <1>2, ConcatProperties
<1>4. ASSUME NEW j \in 1..Len(u)
      PROVE  Len(s) + j \in 1..Len(t) /\ t[Len(s) + j] = u[j]
  <2>1. Len(s) + j \in 1..Len(s) + Len(u) /\ ~(Len(s) + j <= Len(s)) /\ Len(s) + j - Len(s) = j
    BY <1>2
  <2> QED BY <1>1, <1>2, <2>1, ConcatProperties
<1>5. ASSUME NEW k \in 1..Len(t)
      PROVE  k \in 1..Len(s) \/ \E j \in 1..Len(u) : k = Len(s) + j
  <2>1. k \in 1..Len(s) \/ (k - Len(s) \in 1..Len(u) /\ k = Len(s) + (k - Len(s)))
    BY <1>2
  <2> QED BY <2>1
<1> QED BY <1>1, <1>2, <1>3, <1>4, <1>5

\* What is recorded after the last has been undone.
LEMMA Shrunk ==
    ASSUME undo \in Seq(Undoings), undo # <<>>, undo' = SubSeq(undo, 1, Len(undo) - 1)
    PROVE  /\ undo' \in Seq(Undoings) /\ Len(undo) \in Nat /\ Len(undo) \in 1..Len(undo)
           /\ Len(undo') = Len(undo) - 1 /\ undo[Len(undo)] \in Undoings
           /\ \A i \in 1..Len(undo') : i \in 1..Len(undo) /\ i < Len(undo) /\ undo'[i] = undo[i]
           /\ \A i \in 1..Len(undo) : i = Len(undo) \/ i \in 1..Len(undo')
<1>0. Len(undo) \in Nat
  BY LenProperties
<1>1. PICK s, t, n : /\ s \in Seq(Undoings) /\ n \in Nat
                     /\ s = undo /\ t = undo' /\ n = Len(s) /\ t = SubSeq(s, 1, n - 1)
  BY <1>0
<1>2. n > 0
  BY <1>1, EmptySeq
<1>3. \A i \in 1..n - 1 : s[i] \in Undoings
  <2>1. \A i \in 1..n - 1 : i \in 1..Len(s)
    BY <1>1, <1>2
  <2> QED BY <1>1, <2>1, ElementOfSeq
<1>4. t \in Seq(Undoings) /\ Len(t) = n - 1 /\ \A i \in 1..n - 1 : t[i] = s[i]
  <2>0. n - 1 \in Nat
    BY <1>1, <1>2
  <2>1. PICK m \in Nat : m = n - 1
    BY <2>0
  <2>2. t = SubSeq(s, 1, m) /\ \A i \in 1..m : s[i] \in Undoings
    BY <1>1, <1>3, <2>1
  <2>3. t \in Seq(Undoings) /\ Len(t) = m /\ \A i \in 1..m : t[i] = s[i]
    BY <2>2, SubSeqProperties
  <2> QED BY <2>1, <2>3
<1>5. s[n] \in Undoings
  BY <1>1, <1>2, ElementOfSeq
<1> QED BY <1>1, <1>2, <1>4, <1>5

\* The route that the system finds first.
LEMMA FirstOf ==
    ASSUME TunTypeOK, NEW d, Matching(d) # {}
    PROVE  /\ First(d) \in table /\ First(d).dest = d
           /\ \A s \in table : s.dest = d => First(d).metric <= s.metric
<1>1. \A r \in Matching(d) : r \in table /\ r.dest = d /\ (r.metric = 0 \/ r.metric = 1)
  BY DEF Matching, TunTypeOK
<1>2. \E r \in Matching(d) : \A s \in Matching(d) : r.metric <= s.metric
  BY <1>1
<1>3. First(d) \in Matching(d) /\ \A s \in Matching(d) : First(d).metric <= s.metric
  BY <1>2 DEF First
<1> QED BY <1>1, <1>3 DEF Matching

\* What read_default_route reads before the tunnel takes the default route.
LEMMA GatewayRead ==
    ASSUME TunTypeOK, Defaults(table) = Defaults(before), Matching("default") # {}
    PROVE  ReadGateway \in Gateways /\ \E r \in Defaults(before) : ReadGateway = r.via
<1>1. \A r \in Matching("default") :
         /\ r \in Defaults(before) /\ r \in before /\ r.via \in Gateways /\ (r.metric = 0 \/ r.metric = 1)
  BY HostTables DEF Matching, Defaults, TunTypeOK
<1>2. PICK r \in Matching("default") :
         /\ \A s \in Matching("default") :
               IF os = "linux" THEN s.metric <= r.metric ELSE r.metric <= s.metric
         /\ ReadGateway = r.via
  <2>1. \E r \in Matching("default") : \A s \in Matching("default") :
           IF os = "linux" THEN s.metric <= r.metric ELSE r.metric <= s.metric
    BY <1>1
  <2> QED BY <2>1 DEF ReadGateway
<1> QED BY <1>1, <1>2

\* What the commands recorded are.
LEMMA CmdIs ==
    ASSUME NEW op, NEW d, NEW via
    PROVE  Cmd(op, d, via).op = op /\ Cmd(op, d, via).dest = d /\ Cmd(op, d, via).via = via
BY DEF Cmd

LEMMA Shuts == \A c \in Shutdowns : c \in Undoings /\ c.op = "dev" /\ c.dest # "default"
<1>1. PICK x, y : x = Cmd("dev", "down", Tun) /\ y = Cmd("dev", "no addr", Tun)
  OBVIOUS
<1>2. x.op = "dev" /\ x.dest = "down" /\ y.op = "dev" /\ y.dest = "no addr"
  BY <1>1 DEF Cmd
<1> QED BY <1>1, <1>2 DEF Undoings, Shutdowns

LEMMA Commands ==
    /\ \A d \in Names \cup Resolvers : Cmd("del", d, Tun) \in Undoings
    /\ gw \in Gateways \cup {Nowhere} => AddBack \in Undoings
    /\ DelServer \in Undoings /\ DelDefault \in Undoings
    /\ \A c \in Undoings :
          \/ \E d \in Names \cup Resolvers : c = Cmd("del", d, Tun) /\ c.op = "del" /\ c.dest = d
          \/ \E g \in Gateways \cup {Nowhere} : c = Cmd("add", "default", g) /\ c.op = "add" /\ c.via = g
          \/ c.op = "dev" /\ c.dest # "default"
<1>1. Server \in Names /\ "default" \in Names
  BY DEF Names
<1>4. \A d \in Names \cup Resolvers : Cmd("del", d, Tun) \in Undoings
  BY DEF Undoings
<1>5. gw \in Gateways \cup {Nowhere} => AddBack \in Undoings
  BY DEF Undoings, AddBack
<1>6. DelServer \in Undoings /\ DelDefault \in Undoings
  BY <1>1, <1>4 DEF DelServer, DelDefault
<1>7. ASSUME NEW c \in Undoings
      PROVE  \/ \E d \in Names \cup Resolvers : c = Cmd("del", d, Tun) /\ c.op = "del" /\ c.dest = d
             \/ \E g \in Gateways \cup {Nowhere} : c = Cmd("add", "default", g) /\ c.op = "add" /\ c.via = g
             \/ c.op = "dev" /\ c.dest # "default"
  BY CmdIs, Shuts DEF Undoings
<1> QED BY <1>4, <1>5, <1>6, <1>7

\* A command of the device, and the reading of the default route.
LEMMA QuietStep ==
    ASSUME TunInv, phase = "install", at < BypassAt,
           NEW u \in Seq(Shutdowns), undo' = undo \o u,
           gw' \in Gateways \cup {Nowhere},
           os = "linux" /\ at = 3 /\ OneDefault => \A r \in Defaults(before) : r.via = gw',
           table' = table, at' = at + 1, UNCHANGED <<os, ipv6, before, device, phase>>
    PROVE  TunInv'
<1>0. /\ TunTypeOK /\ Distinct /\ BypassFirst /\ Bypassed /\ OthersKept /\ DefaultKept /\ DefaultMoves
      /\ HalfTakesDefaults
      /\ os' = os /\ ipv6' = ipv6 /\ before' = before /\ device' = device /\ phase' = phase
      /\ BypassAt' = BypassAt /\ BypassAt \in {2, 4} /\ (os = "linux" => BypassAt = 4) /\ at \in Nat \ {0}
      /\ (os = "windows" => BypassAt = 2)
  BY DEF TunInv, TunTypeOK, BypassAt
<1>2. Shutdowns \subseteq Undoings /\ \A c \in Shutdowns : c.op = "dev" /\ c.dest # "default"
  BY Shuts
<1>3. u \in Seq(Undoings) /\ \A j \in 1..Len(u) : u[j].op = "dev" /\ u[j].dest # "default"
  BY <1>2, SeqMonotonic, ElementOfSeq
<1>4. undo' \in Seq(Undoings) /\ \A i \in 1..Len(undo') : undo'[i].op = "dev" /\ undo'[i].dest # "default"
  <2>1. \A i \in 1..Len(undo) : undo[i].op = "dev" /\ undo[i] \in Undoings
    BY <1>0, ElementOfSeq DEF Bypassed, TunTypeOK
  <2>2. \A i \in 1..Len(undo) : undo[i].op = "dev" /\ undo[i].dest # "default"
    BY <2>1, Commands
  <2> QED BY <1>0, <1>3, <2>2, Grown DEF TunTypeOK
<1>5. \A d : ~Recorded(Cmd("del", d, Tun)) /\ ~Recorded(Cmd("del", d, Tun))'
  <2>0. at <= BypassAt
    BY <1>0
  <2>1. \A i \in 1..Len(undo) : undo[i].op = "dev"
    BY <1>0, <2>0 DEF Bypassed
  <2>2. \A d : Cmd("del", d, Tun).op = "del"
    BY CmdIs
  <2> QED BY <1>4, <2>1, <2>2 DEF Recorded
<1>6. TunTypeOK'
  BY <1>0, <1>4 DEF TunTypeOK
<1>7. Distinct'
  BY <1>0 DEF Distinct
<1>8. BypassFirst' /\ Bypassed'
  <2>1. \A r \in table : r.via # Tun
    <3>1. \A r \in table : r.via = Tun => Recorded(Cmd("del", r.dest, Tun))
      BY <1>0 DEF BypassFirst, Recorded
    <3> QED BY <1>5, <3>1
  <2>2. \A i \in 1..Len(undo') : undo'[i] # DelServer
    <3>1. DelServer.op = "del"
      BY CmdIs DEF DelServer
    <3> QED BY <1>4, <3>1
  <2>3. BypassFirst'
    BY <2>1, <2>2 DEF BypassFirst, DelServer
  <2>4. Bypassed'
    BY <1>0, <1>4, <2>2 DEF Bypassed, Recorded, DelServer
  <2> QED BY <2>3, <2>4
<1>9. OthersKept'
  BY <1>0, <1>5 DEF OthersKept
<1>10. DefaultKept'
  <2>1. os = "linux" => at' < 6 /\ at < 6
    BY <1>0
  <2> QED BY <1>0, <1>4, <2>1 DEF DefaultKept, Taken, Untouched, Defaults
<1>11. DefaultMoves'
  <2>1. os = "linux" => at' <= 4 /\ (at < 3 \/ at = 3)
    BY <1>0
  <2> QED BY <1>0, <2>1 DEF DefaultMoves, OneDefault, Defaults
<1>12. HalfTakesDefaults'
  <2>1. os = "windows" => at' <= 3 /\ at <= 3
    BY <1>0
  <2>2. \A i \in 1..Len(undo') : undo'[i] # DelHalf'
    <3>1. DelHalf'.op = "del"
      BY CmdIs DEF DelHalf
    <3> QED BY <1>4, <3>1
  <2>3. os = "windows" => ~Recorded(DelHalf)' /\ Defaults(table)' = Defaults(before)'
    BY <1>0, <2>1, <2>2 DEF HalfTakesDefaults, Recorded, Defaults
  <2> QED BY <1>0, <2>1, <2>2, <2>3 DEF HalfTakesDefaults
<1> QED BY <1>6, <1>7, <1>8, <1>9, <1>10, <1>11, <1>12 DEF TunInv

LEMMA RouteIs ==
    ASSUME NEW d \in Names \cup Resolvers, NEW via \in Gateways \cup {Tun, Nowhere}, NEW m \in {0, 1}
    PROVE  /\ Route(d, via, m).dest = d /\ Route(d, via, m).via = via /\ Route(d, via, m).metric = m
           /\ Route(d, via, m) \in [dest : Names \cup Resolvers, via : Gateways \cup {Tun, Nowhere}, metric : {0, 1}]
BY DEF Route

\* A route is added and what removes it recorded.
LEMMA RouteAdded ==
    ASSUME TunInv, phase = "install", NEW d \in Names \cup Resolvers, NEW via \in Gateways \cup {Tun, Nowhere},
           NEW u \in Seq(Undoings), undo' = undo \o u,
           \E j \in 1..Len(u) : u[j] = Cmd("del", d, Tun),
           \A j \in 1..Len(u) : u[j] = Cmd("del", d, Tun) \/ u[j].op = "add",
           table' = table \cup {Route(d, via, 0)}, \A r \in table : ~(r.dest = d /\ r.metric = 0),
           at' = at + 1, UNCHANGED <<os, ipv6, before, device, phase, gw>>
    PROVE  /\ TunTypeOK' /\ Distinct' /\ OthersKept'
           /\ \E r \in table' : r = Route(d, via, 0) /\ r.dest = d /\ r.via = via /\ r.metric = 0
           /\ \A r \in table' : r \in table \/ (r = Route(d, via, 0) /\ r.dest = d /\ r.via = via /\ r.metric = 0)
<1>0. /\ TunTypeOK /\ Distinct /\ OthersKept
      /\ os' = os /\ ipv6' = ipv6 /\ before' = before /\ device' = device /\ phase' = phase /\ gw' = gw
  BY DEF TunInv
<1>1. PICK x : /\ x = Route(d, via, 0) /\ x.dest = d /\ x.via = via /\ x.metric = 0
               /\ x \in [dest : Names \cup Resolvers, via : Gateways \cup {Tun, Nowhere}, metric : {0, 1}]
  BY RouteIs
<1>2. table' = table \cup {x}
  BY <1>1
<1>3. TunTypeOK'
  <2>1. undo' \in Seq(Undoings)
    BY <1>0, Grown DEF TunTypeOK
  <2>2. at' \in Nat \ {0}
    BY <1>0 DEF TunTypeOK
  <2>3. table' \in SUBSET [dest : Names \cup Resolvers, via : Gateways \cup {Tun, Nowhere}, metric : {0, 1}]
    BY <1>0, <1>1, <1>2 DEF TunTypeOK
  <2> QED BY <1>0, <2>1, <2>2, <2>3 DEF TunTypeOK
<1>4. Distinct'
  BY <1>0, <1>1, <1>2 DEF Distinct
<1>5. \A e : Recorded(Cmd("del", e, Tun))' <=> Recorded(Cmd("del", e, Tun)) \/ e = d
  <2> TAKE e
  <2>0. undo \in Seq(Undoings)
    BY <1>0 DEF TunTypeOK
  <2>1. ASSUME NEW i \in 1..Len(undo'), undo'[i] = Cmd("del", e, Tun)
        PROVE  Recorded(Cmd("del", e, Tun)) \/ e = d
    <3>1. CASE i \in 1..Len(undo)
      BY <2>0, <2>1, <3>1, Grown DEF Recorded
    <3>2. CASE \E j \in 1..Len(u) : i = Len(undo) + j
      <4>1. PICK j \in 1..Len(u) : undo'[i] = u[j]
        BY <2>0, <3>2, Grown
      <4>2. Cmd("del", e, Tun).op = "del" /\ Cmd("del", e, Tun).dest = e /\ Cmd("del", d, Tun).dest = d
        BY CmdIs
      <4> QED BY <2>1, <4>1, <4>2
    <3> QED BY <2>0, <3>1, <3>2, Grown
  <2>2. ASSUME NEW i \in 1..Len(undo), undo[i] = Cmd("del", e, Tun)
        PROVE  Recorded(Cmd("del", e, Tun))'
    BY <2>0, <2>2, Grown DEF Recorded
  <2>3. Recorded(Cmd("del", d, Tun))'
    BY <2>0, Grown, SMTT(30) DEF Recorded
  <2> QED BY <2>1, <2>2, <2>3 DEF Recorded
<1>6. OthersKept'
  <2>1. ASSUME NEW r \in before, r.dest # "default"
        PROVE  r \in table' /\ r.dest # d
    <3>1. r \in table /\ r.metric = 0
      BY <1>0, <2>1, HostTables DEF OthersKept, TunTypeOK
    <3> QED BY <1>2, <3>1
  <2>2. ASSUME NEW r \in before, r.dest # "default"
        PROVE  ~Recorded(Cmd("del", r.dest, Tun))'
    BY <1>0, <1>5, <2>1, <2>2 DEF OthersKept
  <2>3. ASSUME NEW r \in table', r.dest # "default"
        PROVE  r \in before \/ Recorded(Cmd("del", r.dest, Tun))'
    BY <1>0, <1>1, <1>2, <1>5, <2>3 DEF OthersKept
  <2>4. before' = before
    BY <1>0
  <2>5. \A r \in before' : r.dest # "default" => r \in table' /\ ~Recorded(Cmd("del", r.dest, Tun))'
    BY <2>1, <2>2, <2>4
  <2>6. \A r \in table' : r.dest # "default" => r \in before' \/ Recorded(Cmd("del", r.dest, Tun))'
    BY <2>3, <2>4
  <2> QED BY <2>5, <2>6 DEF OthersKept
<1> QED BY <1>1, <1>2, <1>3, <1>4, <1>6

\* On Windows the third command is the one that adds 0/1.
InTurn(d) == os = "windows" => (d = "0/1" <=> at = 3)

\* A route other than the default one is added: nothing is to be given back.
LEMMA NoDefaultAdded ==
    ASSUME TunInv, phase = "install", NEW d \in Names \cup Resolvers, d # "default",
           NEW via \in Gateways \cup {Tun, Nowhere},
           undo' = undo \o Unroute(d), table' = table \cup {Route(d, via, 0)},
           \A r \in table : ~(r.dest = d /\ r.metric = 0),
           at' = at + 1, UNCHANGED <<os, ipv6, before, device, phase, gw>>,
           os = "linux" => at = 4 \/ at > 6, InTurn(d)
    PROVE  /\ TunTypeOK' /\ Distinct' /\ OthersKept' /\ DefaultKept' /\ DefaultMoves' /\ HalfTakesDefaults'
           /\ \E r \in table' : r.dest = d /\ r.via = via
           /\ \A r \in table' : r \in table \/ (r.dest = d /\ r.via = via)
           /\ table \subseteq table' /\ Len(undo) \in Nat /\ Len(undo') = Len(undo) + 1
           /\ undo'[Len(undo')] = Cmd("del", d, Tun)
           /\ \A i \in 1..Len(undo) : i \in 1..Len(undo') /\ undo'[i] = undo[i]
           /\ \A i \in 1..Len(undo') : i \in 1..Len(undo) \/ i = Len(undo')
<1>0. /\ TunTypeOK /\ DefaultKept /\ DefaultMoves /\ HalfTakesDefaults
      /\ at \in Nat \ {0} /\ undo \in Seq(Undoings)
      /\ os' = os /\ before' = before /\ phase' = phase /\ gw' = gw
  BY DEF TunInv, TunTypeOK
<1>1. PICK c : c = Cmd("del", d, Tun) /\ c \in Undoings /\ c.dest = d
  BY CmdIs, Commands
<1>2. PICK u : /\ u = Unroute(d) /\ u \in Seq(Undoings) /\ Len(u) = 1 /\ u[1] = c
               /\ \A j \in 1..Len(u) : u[j] = c
  <2>1. Unroute(d) = <<c>>
    BY <1>1 DEF Unroute
  <2>2. <<c>> \in Seq(Undoings) /\ Len(<<c>>) = 1 /\ <<c>>[1] = c /\ \A j \in 1..1 : j = 1
    BY <1>1
  <2> QED BY <2>1, <2>2
<1>3. /\ TunTypeOK' /\ Distinct' /\ OthersKept'
      /\ \E r \in table' : r.dest = d /\ r.via = via
      /\ \A r \in table' : r \in table \/ (r.dest = d /\ r.via = via)
  <2>1. \E j \in 1..Len(u) : u[j] = Cmd("del", d, Tun)
    BY <1>1, <1>2
  <2>2. \A j \in 1..Len(u) : u[j] = Cmd("del", d, Tun) \/ u[j].op = "add"
    BY <1>1, <1>2
  <2>3. undo' = undo \o u
    BY <1>2
  <2>4. /\ TunTypeOK' /\ Distinct' /\ OthersKept'
        /\ \E r \in table' : r = Route(d, via, 0) /\ r.dest = d /\ r.via = via /\ r.metric = 0
        /\ \A r \in table' : r \in table \/ (r = Route(d, via, 0) /\ r.dest = d /\ r.via = via /\ r.metric = 0)
    BY <1>2, <2>1, <2>2, <2>3, RouteAdded
  <2> QED BY <2>4
<1>4. /\ Len(undo) \in Nat /\ Len(undo') = Len(undo) + 1 /\ undo'[Len(undo')] = c
      /\ \A i \in 1..Len(undo) : i \in 1..Len(undo') /\ undo'[i] = undo[i]
      /\ \A i \in 1..Len(undo') : i \in 1..Len(undo) \/ i = Len(undo')
  <2>1. undo' = undo \o u
    BY <1>2
  <2>2. 1 \in 1..Len(u) /\ \A j \in 1..Len(u) : j = 1
    BY <1>2
  <2>3. undo \in Seq(Undoings)
    BY <1>0
  <2>4. /\ Len(undo) \in Nat /\ Len(undo') = Len(undo) + 1
        /\ \A i \in 1..Len(undo) : i \in 1..Len(undo') /\ undo'[i] = undo[i]
        /\ Len(undo) + 1 \in 1..Len(undo') /\ undo'[Len(undo) + 1] = u[1]
    BY <1>2, <2>1, <2>2, <2>3, Grown
  <2> QED BY <1>2, <2>4
<1>5. Defaults(table') = Defaults(table)
  <2>1. \A r \in table' : r.dest = "default" => r \in table
    BY <1>3
  <2> QED BY <2>1 DEF Defaults
<1>7. DefaultKept'
  <2>1. ~Taken => Untouched(1..Len(undo))'
    <3>1. ASSUME ~Taken, NEW i \in 1..Len(undo')
          PROVE  undo'[i].dest # "default"
      <4>1. \A k \in 1..Len(undo) : undo[k].dest # "default"
        BY <1>0, <3>1 DEF DefaultKept, Untouched
      <4> QED BY <1>1, <1>4, <4>1
    <3> QED BY <3>1 DEF Untouched
  <2>2. os = "linux" => at' # 6 /\ (at' < 6 => at < 6) /\ (at' <= 6 => at <= 6)
    BY <1>0
  <2> QED BY <1>0, <1>5, <2>1, <2>2 DEF DefaultKept, Taken, Defaults
<1>8. DefaultMoves'
  <2>1. ASSUME os = "linux", OneDefault
        PROVE  (at' > 3 => \A r \in Defaults(before) : r.via = gw) /\ (at' > 6 => at > 6)
    BY <1>0, <2>1 DEF DefaultMoves
  <2>2. ASSUME Held PROVE Held'
    <3>1. PICK i \in 1..Len(undo), j \in 1..Len(undo) :
             i < j /\ undo[i] = AddBack /\ undo[j] = DelDefault /\ Untouched((1..Len(undo)) \ {i, j})
      BY <2>2 DEF Held
    <3>2. \A k \in (1..Len(undo')) \ {i, j} : undo'[k].dest # "default"
      BY <1>1, <1>4, <3>1 DEF Untouched
    <3>3. Untouched((1..Len(undo)) \ {i, j})' /\ AddBack' = AddBack /\ DelDefault' = DelDefault
      BY <1>0, <3>2 DEF Untouched, AddBack, DelDefault
    <3>4. \A r \in Defaults(table)' : r.via = Tun \/ Yields(r)'
      BY <1>0, <1>5, <2>2 DEF Held, Yields, Defaults
    <3>5. i \in 1..Len(undo') /\ j \in 1..Len(undo') /\ undo'[i] = AddBack /\ undo'[j] = DelDefault
      BY <1>4, <3>1
    <3> QED BY <3>1, <3>3, <3>4, <3>5 DEF Held
  <2>3. ASSUME Dropped PROVE Dropped'
    <3>1. PICK i \in 1..Len(undo) : undo[i] = AddBack /\ Untouched((1..Len(undo)) \ {i})
      BY <2>3 DEF Dropped
    <3>2. \A k \in (1..Len(undo')) \ {i} : undo'[k].dest # "default"
      BY <1>1, <1>4, <3>1 DEF Untouched
    <3>3. Untouched((1..Len(undo)) \ {i})' /\ AddBack' = AddBack
      BY <1>0, <3>2 DEF Untouched, AddBack
    <3>4. \A r \in Defaults(table)' : Yields(r)'
      BY <1>0, <1>5, <2>3 DEF Dropped, Yields, Defaults
    <3>5. i \in 1..Len(undo') /\ undo'[i] = AddBack
      BY <1>4, <3>1
    <3> QED BY <3>1, <3>3, <3>4, <3>5 DEF Dropped
  <2>4. ASSUME Back PROVE Back'
    <3>1. Untouched(1..Len(undo))'
      BY <1>1, <1>4, <2>4 DEF Back, Untouched
    <3>2. Defaults(table)' # {} /\ \A r \in Defaults(table)' : r.via = gw'
      BY <1>0, <1>5, <2>4 DEF Back, Defaults
    <3> QED BY <3>1, <3>2 DEF Back
  <2> QED BY <1>0, <2>1, <2>2, <2>3, <2>4 DEF DefaultMoves, OneDefault, Defaults
<1>9. HalfTakesDefaults'
  <2> SUFFICES ASSUME os = "windows" PROVE HalfTakesDefaults'
    BY <1>0 DEF HalfTakesDefaults
  <2>1. c = DelHalf <=> at = 3
    BY <1>1, CmdIs DEF DelHalf, InTurn
  <2>2. Recorded(DelHalf)' <=> Recorded(DelHalf) \/ at = 3
    BY <1>4, <2>1 DEF Recorded, DelHalf
  <2>3. \A i, j \in 1..Len(undo') : undo'[i] = DelHalf /\ undo'[j] = DelHalf => i = j
    <3>1. at = 3 => \A i \in 1..Len(undo) : undo[i] # DelHalf
      BY <1>0 DEF HalfTakesDefaults, Recorded
    <3> QED BY <1>0, <1>4, <2>1, <3>1 DEF HalfTakesDefaults
  <2>4. Defaults(table)' = Defaults(table) /\ Defaults(before)' = Defaults(before)
    BY <1>0, <1>5 DEF Defaults
  <2>5. /\ at' <= 3 => at < 3
        /\ at' > 3 => at = 3 \/ at > 3
        /\ at < 3 \/ at = 3 => at <= 3 /\ ~(at > 3)
    BY <1>0
  <2>6. at <= 3 \/ Recorded(DelHalf)
    BY <1>0, <2>5 DEF HalfTakesDefaults
  <2>7. at' <= 3 \/ Recorded(DelHalf)'
    BY <1>0, <2>2, <2>5, <2>6
  <2> QED BY <1>0, <2>2, <2>3, <2>4, <2>5, <2>6, <2>7 DEF HalfTakesDefaults, DelHalf
<1> QED BY <1>1, <1>3, <1>4, <1>7, <1>8, <1>9

LEMMA BypassStep ==
    ASSUME TunInv, phase = "install", at = BypassAt,
           undo' = undo \o Unroute(Server), table' = table \cup {Route(Server, gw, 0)},
           \A r \in table : ~(r.dest = Server /\ r.metric = 0),
           at' = at + 1, UNCHANGED <<os, ipv6, before, device, phase, gw>>
    PROVE  TunInv'
<1>0. /\ TunTypeOK /\ BypassFirst /\ Bypassed /\ gw \in Gateways \cup {Tun, Nowhere} /\ gw # Tun
      /\ os' = os /\ phase' = phase /\ at' > BypassAt' /\ Server \in Names /\ Server # "default"
      /\ (os = "linux" => at = 4) /\ InTurn(Server)
  BY RouteAssumption DEF TunInv, TunTypeOK, BypassAt, InTurn, Names, Server, Tun, Nowhere
<1>1. /\ TunTypeOK' /\ Distinct' /\ OthersKept' /\ DefaultKept' /\ DefaultMoves' /\ HalfTakesDefaults'
      /\ \E r \in table' : r.dest = Server /\ r.via = gw
      /\ \A r \in table' : r \in table \/ (r.dest = Server /\ r.via = gw)
      /\ Len(undo) \in Nat /\ Len(undo') = Len(undo) + 1
      /\ undo'[Len(undo')] = Cmd("del", Server, Tun)
      /\ \A i \in 1..Len(undo) : i \in 1..Len(undo') /\ undo'[i] = undo[i]
      /\ \A i \in 1..Len(undo') : i \in 1..Len(undo) \/ i = Len(undo')
  <2>1. /\ Server \in Names \cup Resolvers /\ Server # "default" /\ gw \in Gateways \cup {Tun, Nowhere}
        /\ os = "linux" => at = 4 \/ at > 6
        /\ InTurn(Server)
    BY <1>0
  <2> QED BY <2>1, NoDefaultAdded, ZenonT(30)
<1>2. \A i \in 1..Len(undo) : undo[i].op = "dev"
  <2>1. at <= BypassAt
    BY <1>0 DEF TunTypeOK
  <2> QED BY <1>0, <2>1 DEF Bypassed
<1>3. \A d : Cmd("del", d, Tun).op = "del"
  BY CmdIs
<1>4. \A r \in table' : r.via # Tun
  <2>1. \A r \in table : r.via # Tun
    BY <1>0, <1>2, <1>3 DEF BypassFirst
  <2> QED BY <1>0, <1>1, <2>1
<1>5. \A i \in 1..Len(undo') : undo'[i] = DelServer <=> i = Len(undo')
  BY <1>1, <1>2, <1>3 DEF DelServer
<1>6. BypassFirst'
  BY <1>4, <1>5 DEF BypassFirst, DelServer
<1>7. Bypassed'
  <2>1. Recorded(DelServer)'
    BY <1>1, <1>5 DEF Recorded, DelServer
  <2>2. \E r \in table' : r.dest = Server /\ r.via # Tun
    BY <1>0, <1>1
  <2>3. ~(at' <= BypassAt')
    BY <1>0 DEF TunTypeOK, BypassAt
  <2> QED BY <2>1, <2>2, <2>3 DEF Bypassed
<1> QED BY <1>1, <1>6, <1>7 DEF TunInv

\* A route through the tunnel comes after the server's own.
LEMMA ThenRouted ==
    ASSUME BypassFirst, Bypassed, phase \in {"install", "up"}, at > BypassAt, at' = at + 1,
           at \in Nat, os' = os, phase' = phase, Len(undo) \in Nat, Len(undo) <= Len(undo'), Len(undo') \in Nat,
           \A i \in 1..Len(undo) : i \in 1..Len(undo') /\ undo'[i] = undo[i],
           \A i \in 1..Len(undo') : i \in 1..Len(undo) \/ undo'[i] # DelServer,
           NEW d, \E j \in 1..Len(undo') : j > Len(undo) /\ undo'[j] = Cmd("del", d, Tun),
           table \subseteq table', \A r \in table' : r \in table \/ r.dest = d
    PROVE  BypassFirst' /\ Bypassed'
<1>0. BypassAt' = BypassAt /\ BypassAt \in {2, 4} /\ at' > BypassAt /\ ~(at' <= BypassAt) /\ DelServer' = DelServer
  BY DEF BypassAt, DelServer
<1>1. PICK i \in 1..Len(undo) : undo[i] = DelServer
  BY DEF Bypassed, Recorded
<1>2. PICK j \in 1..Len(undo') : j > Len(undo) /\ undo'[j] = Cmd("del", d, Tun)
  OBVIOUS
<1>3. BypassFirst'
  <2>1. ASSUME NEW r \in table', r.via = Tun
        PROVE  \E k, l \in 1..Len(undo') : k < l /\ undo'[k] = DelServer /\ undo'[l] = Cmd("del", r.dest, Tun)
    <3>1. CASE r \in table
      BY <2>1, <3>1 DEF BypassFirst
    <3>2. CASE r.dest = d
      <4>1. i \in 1..Len(undo') /\ undo'[i] = DelServer /\ i < j
        BY <1>1, <1>2
      <4> QED BY <1>2, <3>2, <4>1
    <3> QED BY <3>1, <3>2
  <2>2. ASSUME NEW k \in 1..Len(undo'), NEW l \in 1..Len(undo'), undo'[k] = DelServer, undo'[l] = DelServer
        PROVE  k = l
    <3>1. k \in 1..Len(undo) /\ l \in 1..Len(undo)
      BY <2>2
    <3> QED BY <2>2, <3>1 DEF BypassFirst
  <2> QED BY <1>0, <2>1, <2>2 DEF BypassFirst
<1>4. Bypassed'
  <2>1. \E k \in 1..Len(undo') : undo'[k] = DelServer
    BY <1>1
  <2>2. \E r \in table' : r.dest = Server /\ r.via # Tun
    BY <1>1 DEF Bypassed, Recorded
  <2> QED BY <1>0, <2>1, <2>2 DEF Bypassed, Recorded
<1> QED BY <1>3, <1>4

LEMMA PlainStep ==
    ASSUME TunInv, phase = "install", at > BypassAt, os = "linux" => at > 6,
           NEW d \in Halved \cup Holes \cup Resolvers, NEW via \in {gw, Tun, Nowhere},
           InTurn(d),
           undo' = undo \o Unroute(d), table' = table \cup {Route(d, via, 0)},
           \A r \in table : ~(r.dest = d /\ r.metric = 0),
           at' = at + 1, UNCHANGED <<os, ipv6, before, device, phase, gw>>
    PROVE  TunInv'
<1>0. /\ TunTypeOK /\ Distinct /\ BypassFirst /\ Bypassed /\ os' = os /\ phase' = phase /\ at \in Nat
      /\ phase \in {"install", "up"}
  BY DEF TunInv, TunTypeOK
<1>1. d \in Names \cup Resolvers /\ d # "default" /\ d # Server
  <2>1. d \in Halved \cup Holes => d \in Names /\ d # "default" /\ d # Server
    BY DEF Halved, Holes, Names, Server
  <2>2. d \in Resolvers => d # "default"
    BY RouteAssumption DEF Names, Server
  \* A resolver that is the server has its route already.
  <2>3. d # Server
    <3>1. PICK r \in table : r.dest = Server
      BY <1>0 DEF Bypassed
    <3>2. r.metric = 0
      BY <1>0, <3>1 DEF Distinct, Server
    <3> QED BY <3>1, <3>2
  <2> QED BY <2>1, <2>2, <2>3
<1>2. via \in Gateways \cup {Tun, Nowhere} /\ (os = "linux" => at = 4 \/ at > 6)
  BY <1>0 DEF TunTypeOK
<1>3. /\ TunTypeOK' /\ Distinct' /\ OthersKept' /\ DefaultKept' /\ DefaultMoves' /\ HalfTakesDefaults'
      /\ \A r \in table' : r \in table \/ (r.dest = d /\ r.via = via)
      /\ table \subseteq table' /\ Len(undo) \in Nat /\ Len(undo') = Len(undo) + 1
      /\ undo'[Len(undo')] = Cmd("del", d, Tun)
      /\ \A i \in 1..Len(undo) : i \in 1..Len(undo') /\ undo'[i] = undo[i]
      /\ \A i \in 1..Len(undo') : i \in 1..Len(undo) \/ i = Len(undo')
  BY <1>1, <1>2, NoDefaultAdded
<1>4. Cmd("del", d, Tun) # DelServer
  <2>1. Cmd("del", d, Tun).dest = d /\ DelServer.dest = Server
    BY CmdIs DEF DelServer
  <2> QED BY <1>1, <2>1
<1>5. BypassFirst' /\ Bypassed'
  <2>1. \A i \in 1..Len(undo') : i \in 1..Len(undo) \/ undo'[i] # DelServer
    BY <1>3, <1>4
  <2>2. \E j \in 1..Len(undo') : j > Len(undo) /\ undo'[j] = Cmd("del", d, Tun)
    <3>1. Len(undo') \in 1..Len(undo') /\ Len(undo') > Len(undo)
      BY <1>3
    <3> QED BY <1>3, <3>1
  <2>3. Len(undo) <= Len(undo') /\ Len(undo') \in Nat
    BY <1>3
  <2>4. \A r \in table' : r \in table \/ r.dest = d
    BY <1>3
  <2> QED BY <1>0, <1>3, <2>1, <2>2, <2>3, <2>4, ThenRouted
<1> QED BY <1>3, <1>5 DEF TunInv

\* The default route of the host goes, as far as there is one.
LEMMA DropDefaultStep ==
    ASSUME TunInv, phase = "install", os = "linux", at = 5,
           undo' = undo, table' = table \ {First("default")}, Matching("default") # {},
           at' = at + 1, UNCHANGED <<os, ipv6, before, device, phase, gw>>
    PROVE  TunInv'
<1>0. /\ TunTypeOK /\ Distinct /\ BypassFirst /\ Bypassed /\ OthersKept /\ DefaultKept /\ DefaultMoves
      /\ os' = os /\ before' = before /\ phase' = phase /\ gw' = gw /\ ipv6' = ipv6 /\ device' = device
      /\ BypassAt = 4 /\ BypassAt' = 4 /\ Server # "default" /\ at' = 6
  BY DEF TunInv, BypassAt, Server
<1>1. First("default") \in table /\ First("default").dest = "default"
  BY <1>0, FirstOf
<1>2. PICK x : x = First("default") /\ x \in table /\ x.dest = "default" /\ table' = table \ {x}
  BY <1>1
<1>3. TunTypeOK' /\ Distinct'
  <2>1. table' \subseteq table
    BY <1>2
  <2>2. TunTypeOK'
    BY <1>0, <2>1 DEF TunTypeOK
  <2>3. Distinct'
    BY <2>1, <1>0 DEF Distinct
  <2> QED BY <2>2, <2>3
<1>4. BypassFirst'
  BY <1>0, <1>2 DEF BypassFirst, DelServer
<1>5. Bypassed'
  BY <1>0, <1>2 DEF Bypassed, Recorded, DelServer
<1>6. OthersKept'
  BY <1>0, <1>2 DEF OthersKept, Recorded
<1>7. DefaultKept'
  BY <1>0, <1>2 DEF DefaultKept, Taken, Untouched, Defaults
<1>8. DefaultMoves'
  BY <1>0 DEF DefaultMoves, OneDefault, Defaults
<1>9. HalfTakesDefaults'
  BY <1>0 DEF HalfTakesDefaults
<1> QED BY <1>3, <1>4, <1>5, <1>6, <1>7, <1>8, <1>9 DEF TunInv

LEMMA TakeoverStep ==
    ASSUME TunInv, phase = "install", os = "linux", at = 6,
           undo' = undo \o <<AddBack, DelDefault>>, table' = table \cup {Route("default", Tun, 0)},
           \A r \in table : ~(r.dest = "default" /\ r.metric = 0),
           at' = at + 1, UNCHANGED <<os, ipv6, before, device, phase, gw>>
    PROVE  TunInv'
<1>0. /\ TunTypeOK /\ BypassFirst /\ Bypassed /\ DefaultKept /\ DefaultMoves
      /\ os' = os /\ phase' = phase /\ at \in Nat /\ before' = before /\ gw' = gw
      /\ phase \in {"install", "up"} /\ undo \in Seq(Undoings) /\ gw \in Gateways \cup {Nowhere}
      /\ "default" \in Names \cup Resolvers /\ Tun \in Gateways \cup {Tun, Nowhere} /\ at > BypassAt
      /\ AddBack' = AddBack /\ DelDefault' = DelDefault /\ at' = 7
  BY DEF TunInv, TunTypeOK, Names, BypassAt, AddBack, DelDefault
<1>1. /\ AddBack \in Undoings /\ AddBack.op = "add" /\ DelDefault \in Undoings /\ DelDefault.dest = "default"
      /\ DelDefault = Cmd("del", "default", Tun) /\ DelServer.op = "del" /\ DelServer.dest = Server
      /\ Server # "default"
  BY <1>0, Commands, CmdIs DEF AddBack, DelDefault, DelServer, Server
<1>2. PICK u : /\ undo' = undo \o u /\ u \in Seq(Undoings) /\ Len(u) = 2 /\ u[1] = AddBack /\ u[2] = DelDefault
  <2>1. PICK a, b : a = AddBack /\ b = DelDefault /\ a \in Undoings /\ b \in Undoings /\ undo' = undo \o <<a, b>>
    BY <1>1
  <2>2. PICK u : u = <<a, b>> /\ undo' = undo \o u
    BY <2>1
  <2>3. u \in Seq(Undoings) /\ Len(u) = 2 /\ u[1] = a /\ u[2] = b
    BY <2>1, <2>2
  <2> QED BY <2>1, <2>2, <2>3
<1>3. 1 \in 1..Len(u) /\ 2 \in 1..Len(u) /\ \A j \in 1..Len(u) : j = 1 \/ j = 2
  BY <1>2
<1>4. /\ TunTypeOK' /\ Distinct' /\ OthersKept'
      /\ \A r \in table' : r \in table \/ (r.dest = "default" /\ r.via = Tun /\ r.metric = 0)
  <2>1. \E j \in 1..Len(u) : u[j] = Cmd("del", "default", Tun)
    BY <1>1, <1>2, <1>3
  <2>2. \A j \in 1..Len(u) : u[j] = Cmd("del", "default", Tun) \/ u[j].op = "add"
    BY <1>1, <1>2, <1>3
  <2>3. /\ TunTypeOK' /\ Distinct' /\ OthersKept'
        /\ \A r \in table' : \/ r \in table
                             \/ r = Route("default", Tun, 0) /\ r.dest = "default" /\ r.via = Tun /\ r.metric = 0
    BY <1>0, <1>2, <2>1, <2>2, RouteAdded
  <2> QED BY <2>3
<1>5. PICK n \in Nat :
         /\ n = Len(undo) /\ Len(undo') = n + 2 /\ undo'[n + 1] = AddBack /\ undo'[n + 2] = DelDefault
         /\ \A i \in 1..n : i \in 1..Len(undo') /\ undo'[i] = undo[i]
         /\ \A i \in 1..Len(undo') : i \in 1..n \/ i = n + 1 \/ i = n + 2
  <2>1. /\ Len(undo) \in Nat /\ Len(undo') = Len(undo) + 2
        /\ \A i \in 1..Len(undo) : i \in 1..Len(undo') /\ undo'[i] = undo[i]
        /\ \A i \in 1..Len(undo') : i \in 1..Len(undo) \/ \E j \in 1..Len(u) : i = Len(undo) + j
    BY <1>0, <1>2, Grown
  <2>2. \A j \in 1..Len(u) : undo'[Len(undo) + j] = u[j]
    BY <1>0, <1>2, Grown
  <2> QED BY <1>2, <1>3, <2>1, <2>2
<1>6. BypassFirst' /\ Bypassed'
  <2>1. \A i \in 1..Len(undo') : i \in 1..n \/ undo'[i] # DelServer
    BY <1>1, <1>5
  <2>2. \E j \in 1..Len(undo') : j > n /\ undo'[j] = Cmd("del", "default", Tun)
    <3>1. n + 2 \in 1..Len(undo') /\ n + 2 > n
      BY <1>5
    <3> QED BY <1>1, <1>5, <3>1
  <2>3. n <= Len(undo') /\ Len(undo') \in Nat /\ table \subseteq table'
    BY <1>5
  <2>4. \A r \in table' : r \in table \/ r.dest = "default"
    BY <1>4
  <2> QED BY <1>0, <1>5, <2>1, <2>2, <2>3, <2>4, ThenRouted
<1>7. DefaultKept'
  BY <1>0 DEF DefaultKept, Taken
<1>8. DefaultMoves'
  <2> SUFFICES ASSUME OneDefault PROVE DefaultMoves'
    BY <1>0 DEF DefaultMoves, OneDefault, Defaults
  <2>1. \A r \in Defaults(before) : r.via = gw
    BY <1>0 DEF DefaultMoves
  <2>2. \A r \in Defaults(table) : Yields(r)
    <3>1. \A r \in Defaults(table) : r \in Defaults(before) /\ r.metric = 1
      BY <1>0 DEF DefaultKept, TunTypeOK, Defaults
    <3> QED BY <2>1, <3>1 DEF Yields
  <2>3. \A r \in Defaults(table)' : r.via = Tun \/ Yields(r)'
    BY <1>0, <1>4, <2>2 DEF Yields, Defaults
  <2>4. Untouched((1..Len(undo)) \ {n + 1, n + 2})'
    <3>1. \A i \in 1..n : undo[i].dest # "default"
      BY <1>0, <1>5 DEF DefaultKept, Taken, Untouched
    <3> QED BY <1>5, <3>1 DEF Untouched
  <2>5. n + 1 \in 1..Len(undo') /\ n + 2 \in 1..Len(undo') /\ n + 1 < n + 2
    BY <1>5
  <2>6. Held'
    BY <1>0, <1>5, <2>3, <2>4, <2>5 DEF Held
  <2> QED BY <1>0, <2>1, <2>6 DEF DefaultMoves, Defaults
<1>9. HalfTakesDefaults'
  BY <1>0 DEF HalfTakesDefaults
<1> QED BY <1>4, <1>6, <1>7, <1>8, <1>9 DEF TunInv

\* What is installed stays when only the phase or the place changes.
LEMMA PhaseStep ==
    ASSUME TunInv, UNCHANGED <<os, ipv6, before, table, device, gw, undo>>,
           phase' \in {"install", "up", "undo", "done", "killed"}, phase' = "done" => undo = <<>>,
           phase' \in {"install", "up"} => phase \in {"install", "up"},
           \/ at' = at
           \/ at' = at + 1 /\ at # BypassAt /\ (os = "linux" => at # 3 /\ at # 6) /\ (os = "windows" => at # 3)
    PROVE  TunInv'
<1>0. /\ TunTypeOK /\ Distinct /\ BypassFirst /\ Bypassed /\ OthersKept /\ DefaultKept /\ DefaultMoves
      /\ os' = os /\ before' = before /\ table' = table /\ gw' = gw /\ ipv6' = ipv6 /\ device' = device
      /\ undo' = undo /\ BypassAt' = BypassAt /\ BypassAt \in {2, 4} /\ (os = "linux" => BypassAt = 4)
      /\ DelServer' = DelServer /\ AddBack' = AddBack /\ DelDefault' = DelDefault /\ at \in Nat \ {0}
  BY DEF TunInv, TunTypeOK, BypassAt, DelServer, AddBack, DelDefault
<1>1. at' \in Nat \ {0} /\ (at' > BypassAt => at > BypassAt) /\ (at' <= BypassAt => at <= BypassAt)
  BY <1>0
<1>2. os = "linux" => (at' > 3 <=> at > 3) /\ (at' > 6 <=> at > 6) /\ (at' < 6 => at < 6) /\ (at' = 6 => at <= 6)
  BY <1>0
<1>3. TunTypeOK'
  BY <1>0, <1>1 DEF TunTypeOK
<1>4. Distinct' /\ BypassFirst' /\ OthersKept'
  BY <1>0 DEF Distinct, BypassFirst, OthersKept, Recorded
<1>5. Bypassed'
  BY <1>0, <1>1 DEF Bypassed, Recorded
<1>6. DefaultKept'
  BY <1>0, <1>2 DEF DefaultKept, Taken, Untouched, Defaults
<1>7. (Held => Held') /\ (Dropped => Dropped') /\ (Back => Back')
  BY <1>0 DEF Held, Dropped, Back, Untouched, Yields, Defaults
<1>8. DefaultMoves'
  BY <1>0, <1>2, <1>7 DEF DefaultMoves, OneDefault, Defaults
<1>9. HalfTakesDefaults'
  <2>1. HalfTakesDefaults /\ DelHalf' = DelHalf /\ (os = "windows" => (at' > 3 <=> at > 3) /\ (at' <= 3 <=> at <= 3))
    BY <1>0 DEF TunInv, DelHalf
  <2> QED BY <1>0, <2>1 DEF HalfTakesDefaults, Recorded, Defaults
<1> QED BY <1>3, <1>4, <1>5, <1>6, <1>8, <1>9 DEF TunInv

\* The device takes its routes with it.
LEMMA DeviceGoesStep == ASSUME TunInv, DeviceGoes PROVE TunInv'
<1>0. /\ TunTypeOK /\ Distinct /\ BypassFirst /\ Bypassed /\ OthersKept /\ DefaultKept /\ DefaultMoves
      /\ os' = os /\ before' = before /\ gw' = gw /\ ipv6' = ipv6 /\ device' = FALSE /\ phase' = phase
      /\ undo' = undo /\ at' = at /\ BypassAt' = BypassAt
      /\ DelServer' = DelServer /\ AddBack' = AddBack /\ DelDefault' = DelDefault
      /\ table' = {r \in table : r.via # Tun}
  BY DEF TunInv, DeviceGoes, BypassAt, DelServer, AddBack, DelDefault
<1>1. \A r \in before : r.via # Tun
  BY <1>0, HostTables, RouteAssumption DEF TunTypeOK
<1>2. gw # Tun
  BY <1>0, RouteAssumption DEF TunTypeOK, Tun, Nowhere
<1>3. table' \subseteq table
  BY <1>0
<1>4. TunTypeOK'
  BY <1>0, <1>3 DEF TunTypeOK
<1>5. Distinct' /\ BypassFirst' /\ OthersKept'
  BY <1>0, <1>1 DEF Distinct, BypassFirst, OthersKept, Recorded
<1>6. Bypassed'
  BY <1>0 DEF Bypassed, Recorded
<1>7. DefaultKept'
  BY <1>0, <1>1 DEF DefaultKept, Taken, Untouched, Defaults
<1>8. (Held => Held') /\ (Dropped => Dropped') /\ (Back => Back')
  <2>1. \A r : r \in Defaults(table)' => r \in Defaults(table)
    BY <1>3 DEF Defaults
  <2>2. Held => Held'
    BY <1>0, <2>1 DEF Held, Untouched, Yields
  <2>3. Dropped => Dropped'
    BY <1>0, <2>1 DEF Dropped, Untouched, Yields
  <2>4. Back => Back'
    BY <1>0, <1>2, <2>1 DEF Back, Untouched, Defaults
  <2> QED BY <2>2, <2>3, <2>4
<1>9. DefaultMoves'
  BY <1>0, <1>8 DEF DefaultMoves, OneDefault, Defaults
<1>10. HalfTakesDefaults'
  <2>1. HalfTakesDefaults /\ DelHalf' = DelHalf
    BY DEF TunInv, DelHalf
  <2>2. os = "windows" => Defaults(table') = Defaults(table)
    <3>1. os = "windows" => \A r \in table : r.dest = "default" => r \in before
      BY <2>1 DEF HalfTakesDefaults, Defaults
    <3> QED BY <1>0, <1>1, <3>1 DEF Defaults
  <2>3. Defaults(table)' = Defaults(table') /\ Defaults(before)' = Defaults(before)
        /\ (Recorded(DelHalf)' <=> Recorded(DelHalf))
    BY <1>0, <2>1 DEF Defaults, Recorded
  <2> QED BY <1>0, <2>1, <2>2, <2>3 DEF HalfTakesDefaults
<1> QED BY <1>4, <1>5, <1>6, <1>7, <1>9, <1>10 DEF TunInv

\* The last that was recorded is undone.
LEMMA UndoTypes == ASSUME TunInv, Undo PROVE TunTypeOK' /\ Distinct'
<1>0. /\ TunTypeOK /\ Distinct /\ undo \in Seq(Undoings) /\ undo # <<>>
      /\ os' = os /\ before' = before /\ gw' = gw /\ ipv6' = ipv6 /\ device' = device /\ phase' = phase
      /\ at' = at /\ phase = "undo" /\ undo' = SubSeq(undo, 1, Len(undo) - 1)
  BY DEF TunInv, TunTypeOK, Undo
<1>1. PICK c : /\ c = undo[Len(undo)] /\ c \in Undoings /\ undo' \in Seq(Undoings)
               /\ table' = IF CanRun(c) THEN After(c) ELSE table
  BY <1>0, Shrunk DEF Undo
<1>2. CASE table' \subseteq table
  BY <1>0, <1>1, <1>2 DEF TunTypeOK, Distinct
<1>3. CASE ~(table' \subseteq table)
  <2>1. CanRun(c) /\ c.op = "add"
    BY <1>1, <1>3 DEF After
  <2>2. PICK g \in Gateways \cup {Nowhere} : c = Cmd("add", "default", g)
    BY <1>1, <2>1, Commands
  <2>3. c.dest = "default" /\ c.via = g /\ c.op = "add"
    BY <2>2, CmdIs
  <2>4. PICK x : /\ x = Route("default", g, 0) /\ table' = table \cup {x}
                 /\ \A r \in table : ~(r.dest = "default" /\ r.metric = 0)
    BY <1>1, <2>1, <2>3 DEF CanRun, CanAdd, After
  <2>5. /\ x \in [dest : Names \cup Resolvers, via : Gateways \cup {Tun, Nowhere}, metric : {0, 1}]
        /\ x.dest = "default" /\ x.metric = 0
    <3>1. "default" \in Names \cup Resolvers /\ g \in Gateways \cup {Tun, Nowhere} /\ 0 \in {0, 1}
      BY DEF Names
    <3> QED BY <2>4, <3>1, RouteIs
  <2>6. TunTypeOK'
    BY <1>0, <1>1, <2>4, <2>5 DEF TunTypeOK
  <2>7. Distinct'
    BY <1>0, <2>4, <2>5 DEF Distinct
  <2> QED BY <2>6, <2>7
<1> QED BY <1>2, <1>3

\* What undoing the half 0/1 leaves on Windows.
OfHalf(c) == os = "windows" /\ c = DelHalf
Cleared == {r \in table : r.dest \notin {"0/1", "default"}}

\* What undoing does to the table.
LEMMA Undone ==
    ASSUME TunInv, Undo
    PROVE  \E c \in Undoings :
              /\ c = undo[Len(undo)]
              /\ \/ c.op = "dev" /\ c.dest # "default" /\ table' = table
                 \/ /\ \E g \in Gateways \cup {Nowhere} : c = Cmd("add", "default", g)
                    /\ \/ table' = table /\ \E r \in table : r.dest = "default" /\ r.metric = 0
                       \/ \E x : /\ x.dest = "default" /\ x.via = c.via /\ x.metric = 0
                                 /\ table' = table \cup {x}
                       \/ c.via = Tun
                 \/ \E d \in Names \cup Resolvers :
                       /\ c = Cmd("del", d, Tun) /\ c.op = "del" /\ c.dest = d /\ ~OfHalf(c)
                       /\ \/ table' = table /\ \A r \in table : r.dest # d
                          \/ \E x \in table : /\ x.dest = d /\ table' = table \ {x}
                                              /\ \A r \in table : r.dest = d => x.metric <= r.metric
                 \/ OfHalf(c) /\ table' = Cleared
<1>0. TunTypeOK /\ undo \in Seq(Undoings) /\ undo # <<>> /\ undo' = SubSeq(undo, 1, Len(undo) - 1)
  BY DEF TunInv, TunTypeOK, Undo
<1>1. PICK c : /\ c = undo[Len(undo)] /\ c \in Undoings
               /\ table' = IF CanRun(c) THEN After(c) ELSE table
  BY <1>0, Shrunk DEF Undo
<1>2. CASE c.op = "dev" /\ c.dest # "default"
  <2>1. table' = table
    BY <1>1, <1>2 DEF After
  <2> QED BY <1>1, <1>2, <2>1
<1>3. ASSUME NEW g \in Gateways \cup {Nowhere}, c = Cmd("add", "default", g)
      PROVE  \/ table' = table /\ \E r \in table : r.dest = "default" /\ r.metric = 0
             \/ \E x : /\ x.dest = "default" /\ x.via = c.via /\ x.metric = 0
                       /\ table' = table \cup {x}
             \/ c.via = Tun
  <2>1. c.op = "add" /\ c.dest = "default" /\ c.via = g
    BY <1>3, CmdIs
  <2>2. PICK x : x = Route("default", g, 0) /\ x.dest = "default" /\ x.via = g /\ x.metric = 0
    <3>1. "default" \in Names \cup Resolvers /\ g \in Gateways \cup {Tun, Nowhere} /\ 0 \in {0, 1}
      BY DEF Names
    <3> QED BY <3>1, RouteIs
  <2>3. CASE CanRun(c)
    BY <1>1, <2>1, <2>2, <2>3 DEF CanRun, CanAdd, After
  <2>4. CASE ~CanRun(c)
    BY <1>1, <2>1, <2>4 DEF CanRun, CanAdd
  <2> QED BY <2>3, <2>4
<1>4. ASSUME NEW d \in Names \cup Resolvers, c = Cmd("del", d, Tun), ~OfHalf(c)
      PROVE  \/ table' = table /\ \A r \in table : r.dest # d
             \/ \E x \in table : /\ x.dest = d /\ table' = table \ {x}
                                 /\ \A r \in table : r.dest = d => x.metric <= r.metric
  <2>1. c.op = "del" /\ c.dest = d /\ ~(os = "windows" /\ d = "0/1")
    BY <1>4, CmdIs DEF OfHalf, DelHalf
  <2>2. CASE Matching(d) # {}
    <3>1. First(d) \in Matching(d)
      BY <1>0, <2>2, FirstOf DEF Matching
    <3>2. Deleted(d) = {First(d)}
      BY <2>1, <3>1 DEF Deleted
    <3>3. table' = table \ {First(d)}
      BY <1>1, <2>1, <3>2 DEF CanRun, After
    <3> QED BY <1>0, <2>2, <3>3, FirstOf
  <2>3. CASE Matching(d) = {}
    <3>1. Deleted(d) = {}
      BY <2>1, <2>3 DEF Deleted
    <3>2. table' = table
      BY <1>1, <2>1, <3>1 DEF CanRun
    <3> QED BY <2>3, <3>2 DEF Matching
  <2> QED BY <2>2, <2>3
<1>5. \/ c.op = "dev" /\ c.dest # "default"
      \/ \E g \in Gateways \cup {Nowhere} : c = Cmd("add", "default", g)
      \/ \E d \in Names \cup Resolvers : c = Cmd("del", d, Tun)
  BY <1>1, Commands
<1>6. CASE \E g \in Gateways \cup {Nowhere} : c = Cmd("add", "default", g)
  BY <1>1, <1>3, <1>6
<1>7. CASE ~OfHalf(c) /\ \E d \in Names \cup Resolvers : c = Cmd("del", d, Tun)
  <2>1. PICK d \in Names \cup Resolvers : c = Cmd("del", d, Tun)
    BY <1>7
  <2>2. c.op = "del" /\ c.dest = d
    BY <2>1, CmdIs
  <2> QED BY <1>1, <1>4, <1>7, <2>1, <2>2
<1>8. CASE OfHalf(c)
  <2>1. c.op = "del" /\ c.dest = "0/1" /\ os = "windows"
    BY <1>8, CmdIs DEF OfHalf, DelHalf
  <2>2. Deleted("0/1") = {r \in table : r.dest = "0/1" \/ r.dest = "default"}
    BY <2>1 DEF Deleted, Matching
  <2>3. table' = table \ Deleted("0/1")
    BY <1>1, <2>1 DEF CanRun, After
  <2>4. table' = Cleared
    BY <2>2, <2>3 DEF Cleared
  <2> QED BY <1>1, <1>8, <2>4
<1> QED BY <1>2, <1>5, <1>6, <1>7, <1>8

\* What is shorter by one.
LEMMA UndoFacts ==
    ASSUME TunInv, Undo
    PROVE  /\ TunTypeOK /\ Distinct /\ BypassFirst /\ Bypassed /\ OthersKept /\ DefaultKept /\ DefaultMoves
           /\ HalfTakesDefaults /\ os' = os /\ before' = before /\ gw' = gw /\ at' = at /\ phase = "undo" /\ phase' = phase
           /\ BypassAt' = BypassAt
           /\ DelServer' = DelServer /\ AddBack' = AddBack /\ DelDefault' = DelDefault
           /\ Len(undo) \in 1..Len(undo) /\ undo[Len(undo)] \in Undoings
           /\ \A i \in 1..Len(undo') : i \in 1..Len(undo) /\ i < Len(undo) /\ undo'[i] = undo[i]
           /\ \A i \in 1..Len(undo) : i = Len(undo) \/ i \in 1..Len(undo')
           /\ \A i \in 1..Len(undo) : i \in Nat /\ i <= Len(undo)
<1>1. undo \in Seq(Undoings) /\ undo # <<>> /\ undo' = SubSeq(undo, 1, Len(undo) - 1)
  BY DEF TunInv, TunTypeOK, Undo
<1>2. /\ Len(undo) \in Nat /\ Len(undo) \in 1..Len(undo) /\ undo[Len(undo)] \in Undoings
      /\ \A i \in 1..Len(undo') : i \in 1..Len(undo) /\ i < Len(undo) /\ undo'[i] = undo[i]
      /\ \A i \in 1..Len(undo) : i = Len(undo) \/ i \in 1..Len(undo')
  BY <1>1, Shrunk
<1>3. \A i \in 1..Len(undo) : i \in Nat /\ i <= Len(undo)
  BY <1>2
<1>4. /\ os' = os /\ before' = before /\ gw' = gw /\ at' = at /\ phase = "undo" /\ phase' = phase
      /\ BypassAt' = BypassAt
      /\ DelServer' = DelServer /\ AddBack' = AddBack /\ DelDefault' = DelDefault
  BY DEF Undo, BypassAt, DelServer, AddBack, DelDefault
<1> QED BY <1>2, <1>3, <1>4 DEF TunInv

\* The server's own route goes when no other goes through the tunnel.
LEMMA UndoBypass == ASSUME TunInv, Undo PROVE BypassFirst' /\ Bypassed'
<1>0. /\ TunTypeOK /\ Distinct /\ BypassFirst /\ Bypassed /\ phase' = "undo" /\ at' = at
      /\ BypassAt' = BypassAt /\ DelServer' = DelServer
      /\ Len(undo) \in 1..Len(undo)
      /\ \A i \in 1..Len(undo') : i \in 1..Len(undo) /\ i < Len(undo) /\ undo'[i] = undo[i]
      /\ \A i \in 1..Len(undo) : i = Len(undo) \/ i \in 1..Len(undo')
      /\ \A i \in 1..Len(undo) : i \in Nat /\ i <= Len(undo)
  BY UndoFacts
<1>1. \A i, j \in 1..Len(undo') : undo'[i] = DelServer /\ undo'[j] = DelServer => i = j
  BY <1>0 DEF BypassFirst
<1>2. at <= BypassAt => \A i \in 1..Len(undo') : undo'[i].op = "dev"
  BY <1>0 DEF Bypassed
<1>3. \A r \in table : r.via = Tun => r.metric = 0
  BY <1>0 DEF Distinct
<1>4. ASSUME NEW c \in Undoings, c = undo[Len(undo)], c # DelServer,
             \A r \in table' : r.via = Tun => r \in table /\ Cmd("del", r.dest, Tun) # c,
             \A r \in table : r.dest = Server => r \in table'
      PROVE  BypassFirst' /\ Bypassed'
  <2>1. ASSUME NEW r \in table', r.via = Tun
        PROVE  \E i, j \in 1..Len(undo') : i < j /\ undo'[i] = DelServer /\ undo'[j] = Cmd("del", r.dest, Tun)
    <3>1. PICK i \in 1..Len(undo), j \in 1..Len(undo) :
             i < j /\ undo[i] = DelServer /\ undo[j] = Cmd("del", r.dest, Tun)
      BY <1>0, <1>4, <2>1 DEF BypassFirst
    <3>2. j # Len(undo) /\ i # Len(undo)
      BY <1>4, <2>1, <3>1
    <3> QED BY <1>0, <3>1, <3>2
  <2>2. Recorded(DelServer)' => Recorded(DelServer)
    BY <1>0 DEF Recorded
  <2> QED BY <1>0, <1>1, <1>2, <1>4, <2>1, <2>2 DEF BypassFirst, Bypassed
<1>5. PICK c \in Undoings :
         /\ c = undo[Len(undo)]
         /\ \/ c.op = "dev" /\ c.dest # "default" /\ table' = table
            \/ /\ \E g \in Gateways \cup {Nowhere} : c = Cmd("add", "default", g)
               /\ \/ table' = table /\ \E r \in table : r.dest = "default" /\ r.metric = 0
                  \/ \E x : /\ x.dest = "default" /\ x.via = c.via /\ x.metric = 0
                            /\ table' = table \cup {x}
                  \/ c.via = Tun
            \/ \E d \in Names \cup Resolvers :
                  /\ c = Cmd("del", d, Tun) /\ c.op = "del" /\ c.dest = d
                  /\ \/ table' = table /\ \A r \in table : r.dest # d
                     \/ \E x \in table : /\ x.dest = d /\ table' = table \ {x}
                                         /\ \A r \in table : r.dest = d => x.metric <= r.metric
            \/ OfHalf(c) /\ table' = Cleared
  BY Undone
<1>6. \A d : Cmd("del", d, Tun).op = "del" /\ Cmd("del", d, Tun).dest = d
  BY CmdIs
<1>7. CASE c.op = "dev" /\ table' = table
  BY <1>4, <1>5, <1>6, <1>7 DEF DelServer
<1>8. CASE /\ \E g \in Gateways \cup {Nowhere} : c = Cmd("add", "default", g)
           /\ \/ table' = table
              \/ \E x : x.dest = "default" /\ x.via = c.via /\ table' = table \cup {x}
              \/ c.via = Tun
  <2>1. c.op = "add" /\ c.via # Tun
    BY <1>8, CmdIs, RouteAssumption DEF Tun, Nowhere
  <2>2. \A r \in table' : r.via = Tun => r \in table
    BY <1>8, <2>1
  <2>3. \A d : Cmd("del", d, Tun) # c
    BY <1>6, <2>1
  <2>4. table \subseteq table'
    BY <1>8, <2>1
  <2> QED BY <1>4, <1>5, <2>2, <2>3, <2>4 DEF DelServer
<1>9. ASSUME NEW d \in Names \cup Resolvers, c = Cmd("del", d, Tun),
             \/ table' = table /\ \A r \in table : r.dest # d
             \/ \E x \in table : /\ x.dest = d /\ table' = table \ {x}
                                 /\ \A r \in table : r.dest = d => x.metric <= r.metric
      PROVE  BypassFirst' /\ Bypassed'
  <2>1. ASSUME NEW r \in table', r.via = Tun
        PROVE  r \in table /\ r.dest # d
    <3>1. CASE table' = table /\ \A q \in table : q.dest # d
      BY <2>1, <3>1
    <3>2. CASE \E x \in table : /\ x.dest = d /\ table' = table \ {x}
                                /\ \A q \in table : q.dest = d => x.metric <= q.metric
      <4>1. PICK x \in table : /\ x.dest = d /\ table' = table \ {x}
                               /\ \A q \in table : q.dest = d => x.metric <= q.metric
        BY <3>2
      <4>2. r \in table /\ r # x /\ r.metric = 0
        BY <1>3, <2>1, <4>1
      <4>3. x.metric = 0 \/ x.metric = 1
        BY <1>0 DEF TunTypeOK
      <4>4. r.dest = d => x.metric = 0
        BY <4>1, <4>2, <4>3
      <4> QED BY <1>0, <4>1, <4>2, <4>4 DEF Distinct
    <3> QED BY <1>9, <3>1, <3>2
  <2>2. CASE d # Server
    <3>1. c # DelServer
      BY <1>6, <1>9, <2>2 DEF DelServer
    <3>2. \A r \in table' : r.via = Tun => r \in table /\ Cmd("del", r.dest, Tun) # c
      BY <1>6, <1>9, <2>1
    <3>3. \A r \in table : r.dest = Server => r \in table'
      BY <1>9, <2>2
    <3> QED BY <1>4, <1>5, <3>1, <3>2, <3>3
  <2>3. CASE d = Server
    <3>1. c = DelServer
      BY <1>9, <2>3 DEF DelServer
    <3>2. \A i \in 1..Len(undo) : undo[i] = DelServer => i = Len(undo)
      BY <1>0, <1>5, <3>1 DEF BypassFirst
    <3>3. \A r \in table' : r.via # Tun
      <4>1. ASSUME NEW r \in table', r.via = Tun
            PROVE  FALSE
        <5>1. PICK i \in 1..Len(undo), j \in 1..Len(undo) : i < j /\ undo[i] = DelServer
          BY <1>0, <2>1, <4>1 DEF BypassFirst
        <5>2. i = Len(undo) /\ j <= Len(undo) /\ i \in Nat /\ j \in Nat
          BY <1>0, <3>2, <5>1
        <5> QED BY <5>1, <5>2
      <4> QED BY <4>1
    <3>4. ~Recorded(DelServer)'
      <4>1. \A i \in 1..Len(undo') : undo'[i] # DelServer
        <5>1. ASSUME NEW i \in 1..Len(undo'), undo'[i] = DelServer
              PROVE  FALSE
          <6>1. i \in 1..Len(undo) /\ i < Len(undo) /\ undo[i] = DelServer /\ i \in Nat
            BY <1>0, <5>1
          <6> QED BY <3>2, <6>1
        <5> QED BY <5>1
      <4> QED BY <1>0, <4>1 DEF Recorded
    <3> QED BY <1>0, <1>1, <1>2, <3>3, <3>4 DEF BypassFirst, Bypassed
  <2> QED BY <2>2, <2>3
<1>10. CASE OfHalf(c) /\ table' = Cleared
  <2>1. c = DelHalf /\ \A r \in table' : r \in table /\ r.dest # "0/1"
    BY <1>10 DEF OfHalf, Cleared
  <2>2. c.dest = "0/1" /\ DelServer.dest = Server /\ Server \notin {"0/1", "default"}
    BY <2>1, CmdIs DEF DelHalf, DelServer, Server
  <2>3. \A r \in table' : Cmd("del", r.dest, Tun) # c
    BY <1>6, <2>1, <2>2
  <2>4. \A r \in table : r.dest = Server => r \in table'
    BY <1>10, <2>2 DEF Cleared
  <2> QED BY <1>4, <1>5, <2>1, <2>2, <2>3, <2>4
<1> QED BY <1>5, <1>7, <1>8, <1>9, <1>10

LEMMA UndoOthers == ASSUME TunInv, Undo PROVE OthersKept'
<1>0. /\ TunTypeOK /\ Distinct /\ OthersKept /\ before' = before /\ before \in Tables
      /\ Len(undo) \in 1..Len(undo)
      /\ \A i \in 1..Len(undo') : i \in 1..Len(undo) /\ i < Len(undo) /\ undo'[i] = undo[i]
      /\ \A i \in 1..Len(undo) : i = Len(undo) \/ i \in 1..Len(undo')
  BY UndoFacts DEF TunTypeOK
<1>1. PICK c \in Undoings :
         /\ c = undo[Len(undo)]
         /\ \/ c.op = "dev" /\ table' = table
            \/ /\ \E g \in Gateways \cup {Nowhere} : c = Cmd("add", "default", g)
               /\ \/ table' = table
                  \/ \E x : x.dest = "default" /\ table' = table \cup {x}
                  \/ c.via = Tun
            \/ \E d \in Names \cup Resolvers :
                  /\ c = Cmd("del", d, Tun) /\ c.op = "del" /\ c.dest = d
                  /\ \/ table' = table /\ \A r \in table : r.dest # d
                     \/ \E x \in table : x.dest = d /\ table' = table \ {x}
            \/ c = Cmd("del", "0/1", Tun) /\ table' = {r \in table : r.dest # "0/1" /\ r.dest # "default"}
  BY Undone DEF OfHalf, DelHalf, Cleared
<1>2. \A d : Recorded(Cmd("del", d, Tun))' => Recorded(Cmd("del", d, Tun))
  BY <1>0 DEF Recorded
<1>3. \A d : Recorded(Cmd("del", d, Tun)) => Recorded(Cmd("del", d, Tun))' \/ c = Cmd("del", d, Tun)
  BY <1>0, <1>1 DEF Recorded
<1>4. ASSUME NEW r \in before, r.dest # "default"
      PROVE  r \in table' /\ ~Recorded(Cmd("del", r.dest, Tun))'
  <2>1. r \in table /\ ~Recorded(Cmd("del", r.dest, Tun))
    BY <1>0, <1>4 DEF OthersKept
  <2>2. c # Cmd("del", r.dest, Tun)
    BY <1>0, <1>1, <2>1 DEF Recorded
  <2>3. ASSUME NEW g \in Gateways \cup {Nowhere}, c = Cmd("add", "default", g)
        PROVE  c.via # Tun
    BY <2>3, CmdIs, RouteAssumption DEF Tun, Nowhere
  <2>4. r \in table'
    BY <1>1, <1>4, <2>1, <2>2, <2>3
  <2> QED BY <1>2, <2>1, <2>4
<1>5. ASSUME NEW r \in table', r.dest # "default"
      PROVE  r \in before \/ Recorded(Cmd("del", r.dest, Tun))'
  <2>1. ASSUME NEW g \in Gateways \cup {Nowhere}, c = Cmd("add", "default", g)
        PROVE  c.via # Tun
    BY <2>1, CmdIs, RouteAssumption DEF Tun, Nowhere
  <2>2. r \in table
    BY <1>1, <1>5, <2>1
  <2>3. CASE c # Cmd("del", r.dest, Tun)
    BY <1>0, <1>3, <1>5, <2>2, <2>3 DEF OthersKept
  <2>4. CASE c = Cmd("del", r.dest, Tun)
    <3>1. c.op = "del" /\ c.dest = r.dest
      BY <2>4, CmdIs
    <3>2. \A g : Cmd("add", "default", g).op = "add"
      BY CmdIs
    <3>3. PICK x \in table : x.dest = r.dest /\ table' = table \ {x}
      <4>1. Cmd("del", "0/1", Tun).dest = "0/1"
        BY CmdIs
      <4> QED BY <1>1, <1>5, <2>2, <3>1, <3>2, <4>1
    <3>4. x.metric = 0 /\ r.metric = 0
      BY <1>0, <1>5, <2>2, <3>3 DEF Distinct
    <3> QED BY <1>0, <2>2, <3>3, <3>4 DEF Distinct
  <2> QED BY <2>3, <2>4
<1>6. \A r \in before' : r.dest # "default" => r \in table' /\ ~Recorded(Cmd("del", r.dest, Tun))'
  BY <1>0, <1>4
<1>7. \A r \in table' : r.dest # "default" => r \in before' \/ Recorded(Cmd("del", r.dest, Tun))'
  BY <1>0, <1>5
<1> QED BY <1>6, <1>7 DEF OthersKept

\* Undoing another route leaves the default ones alone.
LEMMA DefaultsStay ==
    ASSUME TunInv, Undo, undo[Len(undo)].dest # "default", ~OfHalf(undo[Len(undo)])
    PROVE  Defaults(table') = Defaults(table)
<1>1. PICK c \in Undoings :
         /\ c = undo[Len(undo)]
         /\ \/ table' = table
            \/ \E g \in Gateways \cup {Nowhere} : c = Cmd("add", "default", g)
            \/ \E x \in table : x.dest = c.dest /\ table' = table \ {x}
  BY Undone
<1>2. \A g : Cmd("add", "default", g).dest = "default"
  BY CmdIs
<1>3. table' = table \/ \E x \in table : x.dest # "default" /\ table' = table \ {x}
  BY <1>1, <1>2
<1> QED BY <1>3 DEF Defaults

LEMMA UndoDefaults == ASSUME TunInv, Undo PROVE DefaultKept' /\ DefaultMoves'
<1>0. /\ TunTypeOK /\ Distinct /\ DefaultKept /\ DefaultMoves
      /\ os' = os /\ before' = before /\ gw' = gw /\ at' = at
      /\ AddBack' = AddBack /\ DelDefault' = DelDefault
      /\ Len(undo) \in 1..Len(undo) /\ undo[Len(undo)] \in Undoings
      /\ \A i \in 1..Len(undo') : i \in 1..Len(undo) /\ i < Len(undo) /\ undo'[i] = undo[i]
      /\ \A i \in 1..Len(undo) : i = Len(undo) \/ i \in 1..Len(undo')
      /\ \A i \in 1..Len(undo) : i \in Nat /\ i <= Len(undo)
  BY UndoFacts
<1>1. undo[Len(undo)].dest # "default" /\ os # "windows" => Defaults(table') = Defaults(table)
  BY DefaultsStay DEF OfHalf
<1>2. DefaultKept'
  <2>1. /\ ~Taken => Untouched(1..Len(undo))'
        /\ ~Taken /\ os # "windows" => Defaults(table') = Defaults(table)
    BY <1>0, <1>1 DEF DefaultKept, Untouched
  <2>2. /\ os = "macos" \/ (os = "linux" /\ at < 6) => ~Taken /\ os # "windows"
        /\ os = "linux" /\ at = 6 => ~Taken /\ os # "windows"
    BY <1>0 DEF Taken, TunTypeOK
  <2>3. Defaults(table)' = Defaults(table') /\ Defaults(before)' = Defaults(before) /\ Taken' = Taken
    BY <1>0 DEF Defaults, Taken
  <2>4. os = "macos" \/ (os = "linux" /\ at < 6) => Defaults(table)' = Defaults(before)'
    BY <1>0, <2>1, <2>2, <2>3 DEF DefaultKept
  <2>5. os = "linux" /\ at = 6 => Defaults(table)' \subseteq Defaults(before)'
    BY <1>0, <2>1, <2>2, <2>3 DEF DefaultKept
  <2> QED BY <1>0, <2>1, <2>3, <2>4, <2>5 DEF DefaultKept
<1> SUFFICES ASSUME os = "linux" PROVE DefaultMoves'
  BY <1>0, <1>2 DEF DefaultMoves
<1>3. AddBack.op = "add" /\ AddBack.dest = "default" /\ AddBack.via = gw
      /\ DelDefault.op = "del" /\ DelDefault.dest = "default" /\ gw # Tun
  BY <1>0, CmdIs, RouteAssumption DEF AddBack, DelDefault, TunTypeOK, Tun, Nowhere
<1>4. PICK c \in Undoings :
         /\ c = undo[Len(undo)]
         /\ \/ c.op = "dev" /\ c.dest # "default"
            \/ /\ \E g \in Gateways \cup {Nowhere} : c = Cmd("add", "default", g)
               /\ \/ table' = table /\ \E r \in table : r.dest = "default" /\ r.metric = 0
                  \/ \E x : /\ x.dest = "default" /\ x.via = c.via /\ x.metric = 0
                            /\ table' = table \cup {x}
                  \/ c.via = Tun
            \/ \E d \in Names \cup Resolvers :
                  /\ c = Cmd("del", d, Tun) /\ c.op = "del" /\ c.dest = d
                  /\ \/ table' = table /\ \A r \in table : r.dest # d
                     \/ \E x \in table : /\ x.dest = d /\ table' = table \ {x}
                                         /\ \A r \in table : r.dest = d => x.metric <= r.metric
  BY Undone DEF OfHalf
<1>5. \A d : Cmd("del", d, Tun).op = "del" /\ Cmd("add", "default", d).op = "add"
  BY CmdIs
<1>6. c = DelDefault =>
         \/ table' = table /\ \A r \in table : r.dest # "default"
         \/ \E x \in table : /\ x.dest = "default" /\ table' = table \ {x}
                             /\ \A r \in table : r.dest = "default" => x.metric <= r.metric
  BY <1>3, <1>4, <1>5
<1>7. c = AddBack =>
         \/ table' = table /\ \E r \in table : r.dest = "default" /\ r.metric = 0
         \/ \E x : /\ x.dest = "default" /\ x.via = gw /\ x.metric = 0
                   /\ table' = table \cup {x}
  BY <1>3, <1>4, <1>5
<1>8. ASSUME Held
      PROVE  Held' \/ Dropped'
  <2>1. PICK i \in 1..Len(undo), j \in 1..Len(undo) :
           i < j /\ undo[i] = AddBack /\ undo[j] = DelDefault /\ Untouched((1..Len(undo)) \ {i, j})
    BY <1>8 DEF Held
  <2>2. i # Len(undo) /\ i \in 1..Len(undo') /\ undo'[i] = AddBack
    BY <1>0, <2>1
  <2>3. CASE j = Len(undo)
    <3>1. c = DelDefault
      BY <1>4, <2>1, <2>3
    <3>2. ASSUME NEW r \in table', r.dest = "default"
          PROVE  Yields(r)'
      <4>1. PICK x \in table : /\ x.dest = "default" /\ table' = table \ {x}
                               /\ \A q \in table : q.dest = "default" => x.metric <= q.metric
        BY <1>6, <3>1, <3>2
      <4>2. r \in table /\ r # x /\ x.metric <= r.metric /\ (x.metric = 0 \/ x.metric = 1)
        BY <1>0, <3>2, <4>1 DEF TunTypeOK
      <4>3. r.via # Tun
        <5>1. r.via = Tun => r.metric = 0
          BY <1>0, <4>2 DEF Distinct
        <5>2. r.metric = 0 => x.metric = 0
          BY <4>2
        <5> QED BY <1>0, <3>2, <4>1, <4>2, <5>1, <5>2 DEF Distinct
      <4>4. Yields(r)
        BY <1>8, <3>2, <4>2, <4>3 DEF Held, Defaults
      <4> QED BY <1>0, <4>4 DEF Yields
    <3>3. \A k \in (1..Len(undo')) \ {i} : undo'[k].dest # "default"
      <4>1. \A k \in 1..Len(undo') : k # j
        BY <1>0, <2>3
      <4> QED BY <1>0, <2>1, <4>1 DEF Untouched
    <3>4. \A r \in Defaults(table)' : Yields(r)'
      BY <3>2 DEF Defaults
    <3>5. Untouched((1..Len(undo)) \ {i})'
      BY <3>3 DEF Untouched
    <3>6. Dropped'
      BY <1>0, <2>2, <3>4, <3>5 DEF Dropped
    <3> QED BY <3>6
  <2>4. CASE j # Len(undo)
    <3>1. undo[Len(undo)].dest # "default" /\ j \in 1..Len(undo') /\ undo'[j] = DelDefault
      BY <1>0, <2>1, <2>2, <2>4 DEF Untouched
    <3>2. Untouched((1..Len(undo)) \ {i, j})'
      BY <1>0, <2>1 DEF Untouched
    <3>3. \A r \in Defaults(table)' : r.via = Tun \/ Yields(r)'
      <4>1. \A r \in Defaults(table)' : r \in Defaults(table)
        BY <1>1, <3>1 DEF Defaults
      <4> QED BY <1>0, <1>8, <4>1 DEF Held, Yields
    <3>4. Held'
      BY <1>0, <2>1, <2>2, <3>1, <3>2, <3>3 DEF Held
    <3> QED BY <3>4
  <2> QED BY <2>3, <2>4
<1>9. ASSUME Dropped
      PROVE  Dropped' \/ Back'
  <2>1. PICK i \in 1..Len(undo) : undo[i] = AddBack /\ Untouched((1..Len(undo)) \ {i})
    BY <1>9 DEF Dropped
  <2>2. \A r \in table : r.dest = "default" => r.via = gw /\ r.metric = 1
    BY <1>9 DEF Dropped, Yields, Defaults
  <2>3. CASE i = Len(undo)
    <3>1. PICK x : x.dest = "default" /\ x.via = gw /\ table' = table \cup {x}
      BY <1>4, <1>7, <2>1, <2>2, <2>3
    <3>2. \A r \in Defaults(table)' : r.via = gw'
      BY <1>0, <2>2, <3>1 DEF Defaults
    <3>3. Defaults(table)' # {}
      BY <3>1 DEF Defaults
    <3>4. Untouched(1..Len(undo))'
      <4>1. \A k \in 1..Len(undo') : k # i
        BY <1>0, <2>3
      <4> QED BY <1>0, <2>1, <4>1 DEF Untouched
    <3>5. Back'
      BY <3>2, <3>3, <3>4 DEF Back
    <3> QED BY <3>5
  <2>4. CASE i # Len(undo)
    <3>1. undo[Len(undo)].dest # "default" /\ i \in 1..Len(undo') /\ undo'[i] = AddBack
      BY <1>0, <2>1, <2>4 DEF Untouched
    <3>2. Untouched((1..Len(undo)) \ {i})'
      BY <1>0, <2>1 DEF Untouched
    <3>3. \A r \in Defaults(table)' : Yields(r)'
      <4>1. \A r \in Defaults(table)' : r \in Defaults(table)
        BY <1>1, <3>1 DEF Defaults
      <4> QED BY <1>0, <1>9, <4>1 DEF Dropped, Yields
    <3>4. Dropped'
      BY <1>0, <3>1, <3>2, <3>3 DEF Dropped
    <3> QED BY <3>4
  <2> QED BY <2>3, <2>4
<1>10. ASSUME Back
       PROVE  Back'
  <2>1. \A i \in 1..Len(undo) : undo[i].dest # "default"
    BY <1>10 DEF Back, Untouched
  <2>2. Defaults(table') = Defaults(table)
    BY <1>0, <1>1, <2>1
  <2>3. Untouched(1..Len(undo))'
    BY <1>0, <2>1 DEF Untouched
  <2> QED BY <1>0, <1>10, <2>2, <2>3 DEF Back, Defaults
<1> QED BY <1>0, <1>8, <1>9, <1>10 DEF DefaultMoves, OneDefault, Defaults

\* On Windows undoing the half takes the default routes, and nothing else does.
LEMMA UndoHalf == ASSUME TunInv, Undo PROVE HalfTakesDefaults'
<1>0. /\ HalfTakesDefaults /\ DefaultKept /\ os' = os /\ before' = before /\ at' = at
      /\ phase' = "undo" /\ DelHalf' = DelHalf
      /\ Len(undo) \in 1..Len(undo)
      /\ \A i \in 1..Len(undo') : i \in 1..Len(undo) /\ i < Len(undo) /\ undo'[i] = undo[i]
      /\ \A i \in 1..Len(undo) : i = Len(undo) \/ i \in 1..Len(undo')
  BY UndoFacts DEF DelHalf
<1> SUFFICES ASSUME os = "windows" PROVE HalfTakesDefaults'
  BY <1>0 DEF HalfTakesDefaults
<1>1. Defaults(table)' = Defaults(table') /\ Defaults(before)' = Defaults(before)
  BY <1>0 DEF Defaults
<1>2. \A i, j \in 1..Len(undo') : undo'[i] = DelHalf /\ undo'[j] = DelHalf => i = j
  BY <1>0 DEF HalfTakesDefaults
<1>3. Recorded(DelHalf)' => Recorded(DelHalf)
  BY <1>0 DEF Recorded
<1>4. CASE undo[Len(undo)] = DelHalf
  <2>1. Recorded(DelHalf) /\ ~(at <= 3)
    BY <1>0, <1>4 DEF HalfTakesDefaults, Recorded
  <2>2. ~Recorded(DelHalf)'
    <3>1. ASSUME NEW i \in 1..Len(undo'), undo'[i] = DelHalf
          PROVE  FALSE
      <4>1. i \in 1..Len(undo) /\ i < Len(undo) /\ undo[i] = DelHalf
        BY <1>0, <3>1
      <4>2. i = Len(undo)
        BY <1>0, <1>4, <4>1 DEF HalfTakesDefaults
      <4> QED BY <4>1, <4>2
    <3> QED BY <1>0, <3>1 DEF Recorded
  <2>3. table' = Cleared
    <3>1. \A g : DelHalf.op = "del" /\ Cmd("add", "default", g).op = "add"
      BY CmdIs DEF DelHalf
    <3> QED BY <1>4, <3>1, Undone DEF OfHalf
  <2>4. Defaults(table') = {}
    BY <2>3 DEF Defaults, Cleared
  <2> QED BY <1>0, <1>1, <1>2, <2>1, <2>2, <2>4 DEF HalfTakesDefaults
<1>5. CASE undo[Len(undo)] # DelHalf
  <2>1. Recorded(DelHalf)' <=> Recorded(DelHalf)
    BY <1>0, <1>3, <1>5 DEF Recorded
  <2>2. undo[Len(undo)].dest # "default"
    BY <1>0 DEF DefaultKept, Taken, Untouched
  <2>3. Defaults(table') = Defaults(table)
    BY <1>5, <2>2, DefaultsStay DEF OfHalf
  <2> QED BY <1>0, <1>1, <1>2, <2>1, <2>3 DEF HalfTakesDefaults
<1> QED BY <1>4, <1>5

LEMMA InstallStep == ASSUME TunInv, Install PROVE TunInv'
<1>0. /\ phase = "install" /\ at \in Nat \ {0} /\ at <= Len(Script) /\ os \in Systems /\ ipv6 \in BOOLEAN
      /\ gw \in Gateways \cup {Nowhere} /\ gw # Tun /\ TunTypeOK /\ DefaultKept
  BY RouteAssumption DEF TunInv, TunTypeOK, Install, Tun, Nowhere
<1>1. PICK s : /\ s = Script[at] /\ Kind(s, at) /\ CanRun(s.cmd) /\ table' = After(s.cmd)
               /\ gw' = IF s.cmd.op = "read" THEN ReadGateway ELSE gw
               /\ undo' = undo \o s.undoing
  BY <1>0, ScriptSteps DEF Install
<1>2. at' = at + 1 /\ UNCHANGED <<os, ipv6, before, device, phase>>
  BY DEF Install
<1>3. CASE at < BypassAt /\ (os = "linux" => at < 3) /\ OfDevice(s)
  <2>1. table' = table /\ gw' = gw /\ s.undoing \in Seq(Shutdowns)
    BY <1>1, <1>3 DEF After, OfDevice
  <2>2. ~(os = "linux" /\ at = 3)
    BY <1>3
  <2> QED BY <1>0, <1>1, <1>2, <1>3, <2>1, <2>2, QuietStep
<1>4. CASE at < BypassAt /\ s = ReadDefault
  <2>1. s.cmd.op = "read" /\ s.undoing = <<>>
    BY <1>4 DEF ReadDefault, Must, Step, Cmd
  <2>2. table' = table /\ gw' = ReadGateway /\ Matching("default") # {}
    BY <1>1, <2>1 DEF After, CanRun
  <2>3. Defaults(table) = Defaults(before)
    <3>1. os = "macos" \/ (os = "linux" /\ at < 6) \/ (os = "windows" /\ at <= 3)
      BY <1>0, <1>4 DEF BypassAt, Systems
    <3> QED BY <1>0, <3>1 DEF DefaultKept, HalfTakesDefaults, TunInv
  <2>4. gw' \in Gateways /\ \E r \in Defaults(before) : gw' = r.via
    BY <1>0, <2>2, <2>3, GatewayRead
  <2>5. OneDefault => \A r \in Defaults(before) : r.via = gw'
    BY <2>4 DEF OneDefault
  <2>6. <<>> \in Seq(Shutdowns)
    OBVIOUS
  <2>7. PICK u : u = s.undoing /\ u \in Seq(Shutdowns) /\ undo' = undo \o u
    BY <1>1, <2>1, <2>6
  <2> QED BY <1>0, <1>2, <1>4, <2>2, <2>4, <2>5, <2>7, QuietStep
<1>5. CASE at = BypassAt /\ s = Bypass
  <2>1. s.cmd = Cmd("add", Server, gw) /\ s.undoing = Unroute(Server)
    BY <1>5 DEF Bypass, Must, Step
  <2>2. s.cmd.op = "add" /\ s.cmd.dest = Server /\ s.cmd.via = gw
    BY <2>1, CmdIs
  <2>3. /\ table' = table \cup {Route(Server, gw, 0)} /\ gw' = gw
        /\ \A r \in table : ~(r.dest = Server /\ r.metric = 0)
    BY <1>1, <2>2 DEF After, CanRun, CanAdd
  <2>4. undo' = undo \o Unroute(Server)
    BY <1>1, <2>1
  <2> QED BY <1>0, <1>2, <1>5, <2>3, <2>4, BypassStep
<1>6. CASE os = "linux" /\ at = 5 /\ s = May("del", "default", gw, <<>>)
  <2>1. s.cmd = Cmd("del", "default", gw) /\ s.undoing = <<>>
    BY <1>6 DEF May, Step
  <2>2. s.cmd.op = "del" /\ s.cmd.dest = "default"
    BY <2>1, CmdIs
  <2>3. table' = table \ {First("default")} /\ gw' = gw /\ Matching("default") # {}
    <3>1. /\ table' = table \ Deleted("default") /\ gw' = gw
          /\ Deleted("default") # {} /\ Deleted("default") = {r \in Matching("default") : r = First("default")}
      BY <1>1, <2>2 DEF After, CanRun, Deleted
    <3> QED BY <3>1
  <2>4. undo' = undo
    <3>1. undo \in Seq(Undoings) /\ undo' = undo \o <<>>
      BY <1>0, <1>1, <2>1 DEF TunTypeOK
    <3> QED BY <3>1, ConcatEmptySeq
  <2> QED BY <1>0, <1>2, <1>6, <2>3, <2>4, DropDefaultStep
<1>7. CASE os = "linux" /\ at = 6 /\ s = Takeover
  <2>1. s.cmd = Cmd("add", "default", Tun) /\ s.undoing = <<AddBack, DelDefault>>
    BY <1>7 DEF Takeover, Must, Step
  <2>2. s.cmd.op = "add" /\ s.cmd.dest = "default" /\ s.cmd.via = Tun
    BY <2>1, CmdIs
  <2>3. /\ table' = table \cup {Route("default", Tun, 0)} /\ gw' = gw
        /\ \A r \in table : ~(r.dest = "default" /\ r.metric = 0)
    BY <1>1, <2>2 DEF After, CanRun, CanAdd
  <2>4. undo' = undo \o <<AddBack, DelDefault>>
    BY <1>1, <2>1
  <2> QED BY <1>0, <1>2, <1>7, <2>3, <2>4, TakeoverStep
<1>8. CASE at > BypassAt /\ (os = "linux" => at > 6) /\ Plain(s)
  <2>1. PICK d \in Halved \cup Holes \cup Resolvers, via \in {gw, Tun, Nowhere}, must \in BOOLEAN :
           s = Step(must, Cmd("add", d, via), Unroute(d))
    BY <1>8 DEF Plain
  <2>2. s.cmd = Cmd("add", d, via) /\ s.undoing = Unroute(d)
    BY <2>1 DEF Step
  <2>3. s.cmd.op = "add" /\ s.cmd.dest = d /\ s.cmd.via = via
    BY <2>2, CmdIs
  <2>4. /\ table' = table \cup {Route(d, via, 0)} /\ gw' = gw
        /\ \A r \in table : ~(r.dest = d /\ r.metric = 0)
    BY <1>1, <2>3 DEF After, CanRun, CanAdd
  <2>5. undo' = undo \o Unroute(d)
    BY <1>1, <2>2
  <2>6. InTurn(d)
    <3>1. os = "windows" => at > 2
      BY <1>8 DEF BypassAt
    <3> QED BY <1>0, <1>1, <2>3, <3>1, WindowsHalves DEF InTurn
  <2> QED BY <1>0, <1>2, <1>8, <2>4, <2>5, <2>6, PlainStep
<1> QED BY <1>1, <1>3, <1>4, <1>5, <1>6, <1>7, <1>8 DEF Kind

LEMMA InstallFailsStep == ASSUME TunInv, InstallFails PROVE TunInv'
<1>0. /\ phase = "install" /\ at \in Nat \ {0} /\ at <= Len(Script) /\ os \in Systems /\ ipv6 \in BOOLEAN
      /\ gw # Tun /\ UNCHANGED <<os, ipv6, before, table, device, gw, undo>>
  BY RouteAssumption DEF TunInv, TunTypeOK, InstallFails, Tun, Nowhere
<1>1. PICK s : /\ s = Script[at] /\ Kind(s, at)
               /\ \/ s.must /\ phase' = "undo" /\ at' = at
                  \/ ~s.must /\ phase' = phase /\ at' = at + 1
  BY <1>0, ScriptSteps DEF InstallFails
<1>2. CASE phase' = "undo" /\ at' = at
  BY <1>0, <1>2, PhaseStep
<1>3. CASE ~s.must /\ phase' = phase /\ at' = at + 1
  <2>1. s # Bypass /\ s # Takeover /\ s # ReadDefault
    BY <1>3 DEF Bypass, Takeover, ReadDefault, Must, Step
  <2>2. at # BypassAt /\ (os = "linux" => at # 3 /\ at # 6) /\ (os = "windows" => at # 3)
    <3>1. at # BypassAt
      BY <1>0, <1>1, <2>1 DEF Kind, BypassAt
    <3>2. os = "linux" => at # 3 /\ at # 6
      BY <1>0, <1>1, <2>1 DEF Kind, BypassAt
    <3>3. os = "windows" => at # 3
      BY <1>0, <1>1, <1>3, WindowsHalves
    <3> QED BY <3>1, <3>2, <3>3
  <2> QED BY <1>0, <1>3, <2>2, PhaseStep
<1> QED BY <1>1, <1>2, <1>3

LEMMA UndoStep == ASSUME TunInv, Undo PROVE TunInv'
BY UndoTypes, UndoBypass, UndoOthers, UndoDefaults, UndoHalf DEF TunInv

LEMMA NextTun == ASSUME TunInv, [Next]_vars PROVE TunInv'
<1>1. CASE UNCHANGED tunVars
  <2>1. /\ UNCHANGED <<os, ipv6, before, table, device, gw, undo>> /\ phase' = phase /\ at' = at
        /\ phase \in {"install", "up", "undo", "done", "killed"} /\ (phase = "done" => undo = <<>>)
    BY <1>1 DEF tunVars, TunInv, TunTypeOK
  <2> QED BY <2>1, PhaseStep
<1>2. CASE TunNext
  <2>1. CASE Installed \/ Stop \/ Finish \/ Killed
    <3>1. /\ UNCHANGED <<os, ipv6, before, table, device, gw, undo>> /\ at' = at
          /\ phase' \in {"install", "up", "undo", "done", "killed"} /\ (phase' = "done" => undo = <<>>)
          /\ phase' \in {"install", "up"} => phase \in {"install", "up"}
      BY <2>1 DEF Installed, Stop, Finish, Killed
    <3> QED BY <3>1, PhaseStep
  <2> QED BY <1>2, <2>1, InstallStep, InstallFailsStep, UndoStep, DeviceGoesStep DEF TunNext
<1>3. TunNext \/ UNCHANGED tunVars
  BY DEF Next, TunRuns, ClientsRun, ServerRuns, vars
<1> QED BY <1>1, <1>2, <1>3

LEMMA TunInvariant == Spec => []TunInv
<1>1. Init => TunInv
  BY InitTun DEF Init, TunAtRest
<1>2. TunInv /\ [Next]_vars => TunInv'
  BY NextTun
<1> QED BY <1>1, <1>2, PTL DEF Spec

(* At no moment, while routes are installed, undone or left behind by a    *)
(* signal, does the host route its traffic into the device and not have    *)
(* the server's own route beside it: for any gateways and resolvers, on    *)
(* every system, whatever commands fail and whenever tun2socks dies.       *)
THEOREM TunnelNeverLoops == Spec => []NeverLoops
<1>1. TunInv => NeverLoops
  <2> SUFFICES ASSUME TunInv, NEW r \in table, r.via = Tun
               PROVE  \E s \in table : s.dest = Server /\ s.via # Tun
    BY DEF NeverLoops
  <2>1. Recorded(DelServer)
    BY DEF TunInv, BypassFirst, Recorded
  <2> QED BY <2>1 DEF TunInv, Bypassed
<1> QED BY <1>1, TunInvariant, PTL

\* A host with at most one default route has no two.
LEMMA AtMostOne ==
    ASSUME before \in Tables, ~(Cardinality({r \in before : r.dest = "default"}) > 1)
    PROVE  OneDefault
<1>1. Defaults(before) = {r \in before : r.dest = "default"}
  BY DEF Defaults
<1>2. IsFiniteSet(Defaults(before)) /\ Cardinality(Defaults(before)) \in Nat
      /\ ~(Cardinality(Defaults(before)) > 1)
  <2>1. IsFiniteSet(before) /\ Defaults(before) \subseteq before
    BY HostTables DEF Defaults
  <2> QED BY <1>1, <2>1, FS_Subset, FS_CardinalityType
<1>3. ASSUME NEW r \in Defaults(before), NEW s \in Defaults(before), r # s
      PROVE  FALSE
  <2>1. PICK t : t = {r} \cup {s} /\ t \subseteq Defaults(before)
    OBVIOUS
  <2>2. Cardinality(t) = 2
    <3>1. IsFiniteSet({r}) /\ Cardinality({r}) = 1 /\ s \notin {r}
      BY <1>3, FS_Singleton
    <3>2. Cardinality({r} \cup {s}) = 1 + 1
      BY <3>1, FS_AddElement
    <3> QED BY <2>1, <3>2
  <2>3. Cardinality(t) <= Cardinality(Defaults(before))
    BY <1>2, <2>1, FS_Subset
  <2> QED BY <1>2, <2>2, <2>3
<1> QED BY <1>3 DEF OneDefault

(* When the client has ended by itself the host reaches what it reached    *)
(* before, but for the three cases that are findings, on any of the        *)
(* systems, with any gateways and resolvers, whatever failed; and on       *)
(* Windows, once 0/1 has been routed, the default routes are gone and      *)
(* everything else is as it was.                                           *)
THEOREM TunnelRestores == Spec => []RoutesRestored
<1>1. TunInv => RoutesRestored
  <2> SUFFICES ASSUME TunInv, phase = "done", ~Stranded,
                      ~(os = "linux" /\ Cardinality({r \in before : r.dest = "default"}) > 1)
               PROVE  Reaches(table) = Reaches(Spared)
    BY DEF RoutesRestored
  <2>0. /\ TunTypeOK /\ OthersKept /\ DefaultKept /\ DefaultMoves /\ undo = <<>> /\ at \in Nat \ {0}
        /\ gw # Tun /\ os \in Systems /\ ipv6 \in BOOLEAN /\ HalfTakesDefaults
    BY RouteAssumption DEF TunInv, TunTypeOK, Tun, Nowhere
  <2>1. \A i \in 1..Len(undo) : FALSE
    BY <2>0
  <2>2. /\ \A r \in before : r.dest # "default" => r \in table
        /\ \A r \in table : r.dest # "default" => r \in before
    BY <2>0, <2>1 DEF OthersKept, Recorded
  <2>3. CASE ~(os = "windows" /\ at > 3) /\ Defaults(table) = Defaults(before)
    <3>1. table = before /\ Spared = before
      BY <2>2, <2>3 DEF Defaults, Spared
    <3> QED BY <3>1
  <2>7. CASE os = "windows" /\ at > 3
    <3>1. Defaults(table) = {}
      BY <2>0, <2>1, <2>7 DEF HalfTakesDefaults, Recorded
    <3>2. Spared = {r \in before : r.dest # "default"}
      BY <2>7 DEF Spared
    <3>3. table = Spared
      BY <2>2, <3>1, <3>2 DEF Defaults
    <3> QED BY <3>3
  <2>4. CASE os = "linux" /\ at > 6
    <3>1. OneDefault
      BY <2>0, <2>4, AtMostOne DEF TunTypeOK
    <3>2. /\ \A r \in Defaults(before) : r.via = gw
          /\ Defaults(table) # {} /\ \A r \in Defaults(table) : r.via = gw
      BY <2>0, <2>1, <2>4, <3>1 DEF DefaultMoves, Held, Dropped, Back
    <3>3. Defaults(before) # {}
      BY <2>0, HostTables DEF TunTypeOK
    <3>4. \A t : Reaches(t) = {<<r.dest, r.via>> : r \in t}
      BY DEF Reaches
    <3>5. ASSUME NEW t, NEW u, \A r \in t : r.dest # "default" => r \in u,
                 \A r \in t : r.dest = "default" => \E q \in u : q.dest = "default" /\ q.via = r.via,
                 NEW x \in Reaches(t)
          PROVE  x \in Reaches(u)
      <4>1. PICK r \in t : x = <<r.dest, r.via>>
        BY <3>4, <3>5
      <4>2. PICK q \in u : q.dest = r.dest /\ q.via = r.via
        BY <3>5
      <4>3. x = <<q.dest, q.via>>
        BY <4>1, <4>2
      <4> QED BY <3>4, <4>3
    <3>6. /\ \A r \in table : r.dest = "default" => \E q \in before : q.dest = "default" /\ q.via = r.via
          /\ \A r \in before : r.dest = "default" => \E q \in table : q.dest = "default" /\ q.via = r.via
      BY <3>2, <3>3 DEF Defaults
    <3>7. \A x \in Reaches(table) : x \in Reaches(before)
      BY <2>2, <3>5, <3>6
    <3>8. \A x \in Reaches(before) : x \in Reaches(table)
      BY <2>2, <3>5, <3>6
    <3>9. Spared = before
      BY <2>4 DEF Spared
    <3> QED BY <3>7, <3>8, <3>9
  <2>5. CASE os = "linux" /\ at = 6
    <3>1. 6 <= Len(Script) /\ Script[6].cmd = Cmd("add", "default", Tun)
      BY <2>0, <2>5, LinuxTakesOver
    <3> QED BY <2>5, <3>1 DEF Stranded
  <2>6. CASE os = "macos" \/ (os = "linux" /\ at < 6) \/ (os = "windows" /\ ~(at > 3))
    <3>1. Defaults(table) = Defaults(before)
      BY <2>0, <2>6 DEF DefaultKept, HalfTakesDefaults
    <3> QED BY <2>3, <2>6, <3>1
  <2>8. os = "linux" => at < 6 \/ at = 6 \/ at > 6
    BY <2>0
  <2> QED BY <2>0, <2>4, <2>5, <2>6, <2>7, <2>8 DEF Systems
<1> QED BY <1>1, TunInvariant, PTL
=============================================================================
